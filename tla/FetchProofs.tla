------------------------------ MODULE FetchProofs ------------------------------
(***************************************************************************)
(* Proofs about Fetch for any set of fetchers, packs and objects, and any  *)
(* object graph.                                                           *)
(***************************************************************************)
EXTENDS Fetch, TLAPS

LEMMA GreedyType ==
  ASSUME NEW f, NEW wanted
  PROVE  /\ GreedyCover(f, wanted) \subseteq Packs \ Published(f)
         /\ \A p \in GreedyCover(f, wanted) : claims[f][p] # NoFile
  BY DEF GreedyCover

LEMMA StartType ==
  ASSUME NEW st \in Starts
  PROVE  /\ st.pack \in [Packs -> Bytes] /\ st.idx \in [Packs -> Bytes]
         /\ st.first \subseteq Packs /\ st.coming \subseteq Packs
         /\ st.cache \in [Packs -> Bytes \cup {NoFile}]
         /\ st.local \subseteq Objects /\ st.refd \subseteq st.local
         /\ st.wants \in [Fetchers -> SUBSET Objects]
  BY FetchConstants

LEMMA TypeInit == Init => TypeOK
  <1> SUFFICES ASSUME Init PROVE TypeOK
    OBVIOUS
  <1>1. \A f \in Fetchers : plan[f] = {}
    BY DEF Init
  <1>2. alt \in [Fetchers -> [Packs -> [pack : Files, idx : Files]]]
    BY DEF Init, NoPair, Files
  <1>3. pc \in [Fetchers -> Phases]
    BY DEF Init, Phases
  <1>4. hit \in [Fetchers -> SUBSET Hits]
    BY DEF Init
  <1>5. claims \in [Fetchers -> [Packs -> Packs \cup {NoFile}]] /\ side \in [Fetchers -> [Packs -> {"cache", "own"}]]
    BY DEF Init
  <1>6. /\ stems \in [Fetchers -> SUBSET Packs] /\ todo \in [Fetchers -> SUBSET Packs]
        /\ plan \in [Fetchers -> SUBSET Packs]
        /\ healed \in [Fetchers -> BOOLEAN] /\ kept \in [Fetchers -> BOOLEAN]
    BY DEF Init
  <1>7. QED
    BY <1>1, <1>2, <1>3, <1>4, <1>5, <1>6, StartType DEF Init, TypeOK

LEMMA ClosureType ==
  ASSUME remote \in Starts, NEW f \in Fetchers
  PROVE  Closure(f) \subseteq Objects
  <1>1. remote.wants[f] \in SUBSET Objects
    BY StartType
  <1>2. QED
    BY <1>1 DEF Closure, Closures, Reached

LEMMA DownloadedType ==
  ASSUME TypeOK, NEW f \in Fetchers, NEW p \in Packs, Downloaded(f, p)
  PROVE  /\ cache' \in [Packs -> Bytes \cup {NoFile}]
         /\ side' \in [Fetchers -> [Packs -> {"cache", "own"}]]
  <1>1. remote.idx[p] \in Bytes
    BY StartType DEF TypeOK
  <1>2. cache' \in [Packs -> Bytes \cup {NoFile}]
    BY <1>1 DEF TypeOK, Downloaded, Installed
  <1>3. side' \in [Fetchers -> [Packs -> {"cache", "own"}]]
    BY DEF TypeOK, Downloaded, Installed
  <1>4. QED
    BY <1>2, <1>3

LEMMA DropType ==
  ASSUME TypeOK, NEW f \in Fetchers, NEW lost, Drop(f, lost)
  PROVE  /\ cache' \in [Packs -> Bytes \cup {NoFile}]
         /\ hit' \in [Fetchers -> SUBSET Hits]
  <1>1. cache' \in [Packs -> Bytes \cup {NoFile}]
    BY DEF TypeOK, Drop
  <1>2. hit' \in [Fetchers -> SUBSET Hits]
    BY DEF TypeOK, Drop, Hits
  <1>3. QED
    BY <1>1, <1>2

LEMMA TodoType ==
  ASSUME TypeOK, NEW f \in Fetchers, NEW p, todo' = todo \/ todo' = [todo EXCEPT ![f] = @ \ {p}]
  PROVE  todo' \in [Fetchers -> SUBSET Packs]
  <1>1. todo \in [Fetchers -> SUBSET Packs]
    BY DEF TypeOK
  <1>2. QED
    BY <1>1

LEMMA ReadType ==
  ASSUME TypeOK, NEW f \in Fetchers, NEW p \in Packs
  PROVE  Read(f, p) \in Files
  <1>1. remote.idx[p] \in Bytes
    BY StartType DEF TypeOK
  <1>2. QED
    BY <1>1 DEF TypeOK, Read, Files

LEMMA UnmappedType ==
  ASSUME TypeOK, NEW f \in Fetchers, Unmapped(f)
  PROVE  claims' \in [Fetchers -> [Packs -> Packs \cup {NoFile}]]
  BY DEF TypeOK, Unmapped

LEMMA ForgetType ==
  ASSUME TypeOK, NEW f \in Fetchers, Forget(f), alt' = alt
  PROVE  /\ stems' \in [Fetchers -> SUBSET Packs]
         /\ side' \in [Fetchers -> [Packs -> {"cache", "own"}]]
         /\ claims' \in [Fetchers -> [Packs -> Packs \cup {NoFile}]]
         /\ todo' \in [Fetchers -> SUBSET Packs]
         /\ plan' \in [Fetchers -> SUBSET Packs]
         /\ \A g \in Fetchers : plan'[g] \cap Published(g)' = {}
  <1>1. claims' \in [Fetchers -> [Packs -> Packs \cup {NoFile}]]
    BY UnmappedType DEF Forget
  <1>2. side' \in [Fetchers -> [Packs -> {"cache", "own"}]]
    BY DEF TypeOK, Forget
  <1>3. /\ stems' \in [Fetchers -> SUBSET Packs] /\ todo' \in [Fetchers -> SUBSET Packs]
        /\ plan' \in [Fetchers -> SUBSET Packs]
    BY DEF TypeOK, Forget
  <1>4. \A g \in Fetchers : plan'[g] \cap Published(g)' = {}
    BY DEF TypeOK, Forget, Published
  <1>5. QED
    BY <1>1, <1>2, <1>3, <1>4

\* Publishing takes the pack, and what else the plan loses, out of the plan.
LEMMA PublishType ==
  ASSUME TypeOK, NEW f \in Fetchers, NEW p \in Packs, NEW rest \in SUBSET (plan[f] \ {p}),
         Publish(f, p, rest)
  PROVE  /\ alt' \in [Fetchers -> [Packs -> [pack : Files, idx : Files]]]
         /\ plan' \in [Fetchers -> SUBSET Packs]
         /\ \A g \in Fetchers : plan'[g] \cap Published(g)' = {}
         /\ pc' \in [Fetchers -> Phases]
  <1>1. remote.pack[p] \in Files /\ Read(f, p) \in Files
    BY StartType, ReadType DEF TypeOK, Files
  <1>2. alt' \in [Fetchers -> [Packs -> [pack : Files, idx : Files]]]
    BY <1>1 DEF TypeOK, Publish
  <1>3. plan' \in [Fetchers -> SUBSET Packs]
    BY DEF TypeOK, Publish
  <1>4. pc' \in [Fetchers -> Phases]
    BY DEF TypeOK, Publish, Goto, Phases
  <1>5. ASSUME NEW g \in Fetchers, NEW q \in plan'[g] PROVE q \notin Published(g)'
    <2>1. q \in plan[g] /\ (g = f => q # p)
      BY <1>5 DEF TypeOK, Publish
    <2>2. alt[g][q].idx = NoFile
      BY <2>1 DEF TypeOK, Published
    <2>3. alt'[g][q] = alt[g][q]
      BY <2>1 DEF TypeOK, Publish
    <2>4. QED
      BY <2>2, <2>3 DEF Published
  <1>6. QED
    BY <1>2, <1>3, <1>4, <1>5

LEMMA SuspectType ==
  ASSUME TypeOK, NEW f \in Fetchers, Suspect(f)
  PROVE  pc' \in [Fetchers -> Phases] /\ healed' \in [Fetchers -> BOOLEAN]
  <1>1. pc' \in [Fetchers -> Phases]
    BY DEF TypeOK, Suspect, Goto, Phases
  <1>2. healed' \in [Fetchers -> BOOLEAN]
    BY DEF TypeOK, Suspect
  <1>3. QED
    BY <1>1, <1>2

\* A plan made new or thrown away keeps clear of what is published.
LEMMA ReplanType ==
  ASSUME TypeOK, NEW f \in Fetchers, NEW S \in SUBSET (Packs \ Published(f)),
         plan' = [plan EXCEPT ![f] = S], alt' = alt
  PROVE  plan' \in [Fetchers -> SUBSET Packs] /\ \A g \in Fetchers : plan'[g] \cap Published(g)' = {}
  <1>1. plan' \in [Fetchers -> SUBSET Packs]
    BY DEF TypeOK
  <1>2. \A g \in Fetchers : Published(g)' = Published(g)
    BY DEF Published
  <1>3. QED
    BY <1>1, <1>2 DEF TypeOK

LEMMA TypeStep == TypeOK /\ [Next]_vars => TypeOK'
  <1> SUFFICES ASSUME TypeOK, [Next]_vars PROVE TypeOK'
    OBVIOUS
  <1> DEFINE PhaseOK == pc \in [Fetchers -> Phases]
             PlanOK == /\ plan \in [Fetchers -> SUBSET Packs]
                       /\ \A f \in Fetchers : plan[f] \cap Published(f) = {}
                       /\ alt \in [Fetchers -> [Packs -> [pack : Files, idx : Files]]]
  <1>p. PhaseOK /\ PlanOK
    BY DEF TypeOK
  <1>s. ASSUME UNCHANGED <<plan, alt>> PROVE PlanOK'
    BY <1>p, <1>s DEF Published
  <1>1. ASSUME NEW f \in Fetchers, Begin(f) PROVE TypeOK'
    <2>1. PhaseOK' /\ PlanOK'
      BY <1>1, <1>p, <1>s DEF Begin, Goto, Phases
    <2>2. QED
      BY <1>1, <2>1 DEF Begin, TypeOK, shared
  <1>2. ASSUME NEW f \in Fetchers, List(f) PROVE TypeOK'
    <2>1. PhaseOK' /\ PlanOK'
      BY <1>2, <1>p, <1>s DEF List, Goto, Phases
    <2>2. QED
      BY <1>2, <2>1 DEF List, TypeOK, shared
  <1>3. ASSUME NEW f \in Fetchers, Prune(f) PROVE TypeOK'
    <2>1. PhaseOK' /\ PlanOK'
      BY <1>3, <1>p, <1>s DEF Prune, Goto, Phases
    <2>2. QED
      BY <1>3, <2>1, DropType DEF Prune, TypeOK
  <1>4. ASSUME NEW f \in Fetchers, NEW p \in Packs, Ensure(f, p) PROVE TypeOK'
    <2>1. PhaseOK'
      BY <1>4, <1>p DEF Ensure, Goto, Phases
    <2>2. PlanOK'
      BY <1>4, <1>s DEF Ensure
    <2>3. cache' \in [Packs -> Bytes \cup {NoFile}]
      BY <1>4, DownloadedType DEF Ensure, TypeOK
    <2>4. side' \in [Fetchers -> [Packs -> {"cache", "own"}]]
      BY <1>4, DownloadedType DEF Ensure, TypeOK
    <2>5. todo' \in [Fetchers -> SUBSET Packs]
      BY <1>4, TodoType DEF Ensure
    <2>6. QED
      BY <1>4, <2>1, <2>2, <2>3, <2>4, <2>5 DEF Ensure, TypeOK
  <1>4a. ASSUME NEW f \in Fetchers, NEW p \in Packs, Show(f, p) PROVE TypeOK'
    <2>1. PhaseOK'
      BY <1>4a, <1>p DEF Show, Goto, Phases
    <2>2. PlanOK'
      BY <1>4a, <1>s DEF Show
    <2>3. side' \in [Fetchers -> [Packs -> {"cache", "own"}]]
      <3>1. side' = side \/ side' = [side EXCEPT ![f][p] = "cache"]
        BY <1>4a DEF Show
      <3>2. side \in [Fetchers -> [Packs -> {"cache", "own"}]]
        BY DEF TypeOK
      <3>3. QED
        BY <3>1, <3>2
    <2>4. todo' \in [Fetchers -> SUBSET Packs]
      BY <1>4a, TodoType DEF Show
    <2>5. QED
      BY <1>4a, <2>1, <2>2, <2>3, <2>4 DEF Show, TypeOK, shared
  <1>5. ASSUME NEW f \in Fetchers, NEW p \in Packs, Evict(f, p) PROVE TypeOK'
    <2>1. \E ph \in {"badget", "healget", "pairget"} : Goto(f, ph)
      BY <1>5 DEF Evict, Refreshing
    <2>2. PhaseOK'
      BY <2>1, <1>p DEF Goto, Phases
    <2>3. PlanOK'
      BY <1>5, <1>s DEF Evict
    <2>4. cache' \in [Packs -> Bytes \cup {NoFile}] /\ hit' \in [Fetchers -> SUBSET Hits]
      BY <1>5, DropType DEF Evict, TypeOK
    <2>5. QED
      BY <1>5, <2>2, <2>3, <2>4 DEF Evict, TypeOK
  <1>6. ASSUME NEW f \in Fetchers, NEW p \in Packs, Refresh(f, p) PROVE TypeOK'
    <2>1. PhaseOK'
      BY <1>6, <1>p DEF Refresh, Goto, Phases
    <2>2. PlanOK'
      BY <1>6, <1>s DEF Refresh
    <2>3. Downloaded(f, p)
      BY <1>6 DEF Refresh
    <2>4. todo' \in [Fetchers -> SUBSET Packs]
      BY <1>6 DEF Refresh, TypeOK
    <2>5. claims' \in [Fetchers -> [Packs -> Packs \cup {NoFile}]]
      <3>1. Unmapped(f) \/ UNCHANGED claims
        BY <1>6 DEF Refresh
      <3>2. QED
        BY <3>1, UnmappedType DEF TypeOK
    <2>6. QED
      BY <1>6, <2>1, <2>2, <2>3, <2>4, <2>5, DownloadedType DEF Refresh, TypeOK
  <1>7. ASSUME NEW f \in Fetchers, Rebuild(f) PROVE TypeOK'
    <2>1. PhaseOK'
      BY <1>7, <1>p DEF Rebuild, Goto, Phases
    <2>2. PlanOK'
      BY <1>7, <1>s DEF Rebuild
    <2>3. claims' \in [Fetchers -> [Packs -> Packs \cup {NoFile}]]
      BY <1>7, UnmappedType DEF Rebuild
    <2>4. QED
      BY <1>7, <2>1, <2>2, <2>3 DEF Rebuild, TypeOK, shared
  <1>7a. ASSUME NEW f \in Fetchers, NEW p \in Packs, ReadIndex(f, p) PROVE TypeOK'
    <2>1. PhaseOK'
      BY <1>7a, <1>p DEF ReadIndex, Goto, Phases
    <2>2. PlanOK'
      BY <1>7a, <1>s DEF ReadIndex
    <2>3. claims' \in [Fetchers -> [Packs -> Packs \cup {NoFile}]]
      <3>1. claims' = claims \/ (Read(f, p) \in Packs /\ claims' = [claims EXCEPT ![f][p] = Read(f, p)])
        BY <1>7a DEF ReadIndex
      <3>2. claims \in [Fetchers -> [Packs -> Packs \cup {NoFile}]]
        BY DEF TypeOK
      <3>3. QED
        BY <3>1, <3>2
    <2>4. QED
      BY <1>7a, <2>1, <2>2, <2>3 DEF ReadIndex, TypeOK, shared
  <1>7b. ASSUME NEW f \in Fetchers, MapDone(f) PROVE TypeOK'
    <2>1. PhaseOK' /\ PlanOK'
      BY <1>7b, <1>p, <1>s DEF MapDone, Goto, Phases
    <2>2. QED
      BY <1>7b, <2>1 DEF MapDone, TypeOK, shared
  <1>8. ASSUME NEW f \in Fetchers, Plan(f) PROVE TypeOK'
    <2>1. plan' = plan \/ \E S \in SUBSET (Packs \ Published(f)) : plan' = [plan EXCEPT ![f] = S]
      BY <1>8, GreedyType DEF Plan
    <2>2. UNCHANGED <<shared, stems, side, claims, todo, alt, kept, hit>>
      BY <1>8 DEF Plan
    <2>3. PlanOK'
      BY <2>1, <2>2, <1>p, <1>s, ReplanType
    <2>4. Suspect(f) \/ (UNCHANGED healed /\ \E ph \in {"check", "download"} : Goto(f, ph))
      BY <1>8 DEF Plan
    <2>5. PhaseOK' /\ healed' \in [Fetchers -> BOOLEAN]
      <3>1. CASE Suspect(f)
        BY <3>1, SuspectType
      <3>2. CASE UNCHANGED healed /\ \E ph \in {"check", "download"} : Goto(f, ph)
        BY <3>2, <1>p DEF Goto, Phases, TypeOK
      <3>3. QED
        BY <2>4, <3>1, <3>2
    <2>6. QED
      BY <2>2, <2>3, <2>5 DEF TypeOK, shared
  <1>9. ASSUME NEW f \in Fetchers, HealList(f) PROVE TypeOK'
    <2>1. PhaseOK' /\ PlanOK'
      BY <1>9, <1>p, <1>s DEF HealList, Goto, Phases
    <2>2. QED
      BY <1>9, <2>1 DEF HealList, TypeOK, shared
  <1>10. ASSUME NEW f \in Fetchers, NEW p \in Packs, Download(f, p) PROVE TypeOK'
    <2>1. UNCHANGED <<shared, stems, side, claims, todo, kept>>
      BY <1>10 DEF Download
    <2>2. CASE Publish(f, p, plan[f] \ {p}) /\ UNCHANGED <<healed, hit>>
      BY <2>1, <2>2, PublishType DEF TypeOK, shared
    <2>3. CASE Suspect(f) /\ plan' = [plan EXCEPT ![f] = {}] /\ UNCHANGED alt
               /\ (UNCHANGED hit \/ hit' = [hit EXCEPT ![f] = @ \cup {"call"}])
      <3>1. PlanOK'
        BY <2>3, <1>p, ReplanType
      <3>2. hit' \in [Fetchers -> SUBSET Hits]
        BY <2>3 DEF TypeOK, Hits
      <3>3. QED
        BY <2>1, <2>3, <3>1, <3>2, SuspectType DEF TypeOK, shared
    <2>4. CASE Goto(f, "pair") /\ UNCHANGED <<plan, alt, healed, hit>>
      <3>1. PhaseOK' /\ PlanOK'
        BY <2>4, <1>p, <1>s DEF Goto, Phases
      <3>2. QED
        BY <2>1, <2>4, <3>1 DEF TypeOK, shared
    <2>5. QED
      BY <1>10, <2>2, <2>3, <2>4 DEF Download
  <1>11. ASSUME NEW f \in Fetchers, NEW p \in Packs, Repair(f, p) PROVE TypeOK'
    <2>1. UNCHANGED <<shared, stems, side, claims, todo, healed, kept, hit>>
      BY <1>11 DEF Repair
    <2>2. CASE Publish(f, p, {})
      BY <2>1, <2>2, PublishType DEF TypeOK, shared
    <2>3. CASE Goto(f, "failed") /\ UNCHANGED <<plan, alt>>
      <3>1. PhaseOK' /\ PlanOK'
        BY <2>3, <1>p, <1>s DEF Goto, Phases
      <3>2. QED
        BY <2>1, <2>3, <3>1 DEF TypeOK, shared
    <2>4. QED
      BY <1>11, <2>2, <2>3 DEF Repair
  <1>12. ASSUME NEW f \in Fetchers, Check(f) PROVE TypeOK'
    <2>1. PhaseOK' /\ PlanOK'
      BY <1>12, <1>p, <1>s DEF Check, Goto, Phases
    <2>2. QED
      BY <1>12, <2>1 DEF Check, TypeOK, shared
  <1>13. ASSUME NEW f \in Fetchers, Install(f) PROVE TypeOK'
    <2>1. Closure(f) \subseteq Objects
      BY ClosureType DEF TypeOK
    <2>2. local' \subseteq Objects /\ local \subseteq local'
      BY <1>13, <2>1 DEF Install, CanPack, NewObjects, TypeOK
    <2>3. PhaseOK'
      BY <1>13, <1>p DEF Install, Goto, Phases
    <2>4. PlanOK'
      BY <1>13, <1>s DEF Install
    <2>5. QED
      BY <1>13, <2>2, <2>3, <2>4 DEF Install, TypeOK
  <1>14. ASSUME NEW f \in Fetchers, Keep(f) PROVE TypeOK'
    <2>1. PhaseOK' /\ PlanOK'
      BY <1>14, <1>p, <1>s DEF Keep, Goto, Phases
    <2>2. QED
      BY <1>14, <2>1 DEF Keep, TypeOK, shared
  <1>15. ASSUME NEW f \in Fetchers, Trouble(f) PROVE TypeOK'
    <2>1. PhaseOK'
      BY <1>15, <1>p DEF Trouble, Goto, Phases
    <2>2. hit' \in [Fetchers -> SUBSET Hits]
      BY <1>15 DEF Trouble, TypeOK, Hits
    <2>3. Forget(f) /\ UNCHANGED <<shared, alt, healed, kept>>
      BY <1>15 DEF Trouble
    <2>4. QED
      BY <2>1, <2>2, <2>3, ForgetType DEF TypeOK, shared
  <1>16. ASSUME NEW f \in Fetchers, Die(f) PROVE TypeOK'
    <2>1. PhaseOK'
      BY <1>16, <1>p DEF Die, Goto, Phases
    <2>2. Forget(f) /\ UNCHANGED <<shared, alt, healed, kept, hit>>
      BY <1>16 DEF Die
    <2>3. QED
      BY <2>1, <2>2, ForgetType DEF TypeOK, shared
  <1>17. ASSUME NEW f \in Fetchers, GitUpdates(f) PROVE TypeOK'
    <2>1. PhaseOK' /\ PlanOK'
      BY <1>17, <1>p, <1>s DEF GitUpdates, Goto, Phases
    <2>2. refd' \subseteq local
      BY <1>17 DEF GitUpdates, TypeOK
    <2>3. QED
      BY <1>17, <2>1, <2>2 DEF GitUpdates, TypeOK
  <1>18. ASSUME NEW p \in Packs, PairLands(p) PROVE TypeOK'
    <2>1. PlanOK'
      BY <1>18, <1>s DEF PairLands
    <2>2. QED
      BY <1>18, <2>1 DEF PairLands, TypeOK
  <1>19. CASE Gc
    <2>1. PlanOK'
      BY <1>19, <1>s DEF Gc
    <2>2. local' \subseteq Objects /\ refd \subseteq local'
      BY <1>19 DEF Gc, TypeOK
    <2>3. hit' \in [Fetchers -> SUBSET Hits]
      <3>1. \A g \in Fetchers : Loss(g) \subseteq Hits
        BY DEF Loss, Hits
      <3>2. QED
        BY <1>19, <3>1 DEF Gc, TypeOK
    <2>4. QED
      BY <1>19, <2>1, <2>2, <2>3 DEF Gc, TypeOK
  <1>20. CASE UNCHANGED vars
    <2>1. PlanOK'
      BY <1>20, <1>s DEF vars
    <2>2. QED
      BY <1>20, <2>1 DEF vars, shared, TypeOK
  <1>21. QED
    BY <1>1, <1>2, <1>3, <1>4, <1>4a, <1>5, <1>6, <1>7, <1>7a, <1>7b, <1>8, <1>9, <1>10, <1>11, <1>12, <1>13,
       <1>14, <1>15, <1>16, <1>17, <1>18, <1>19, <1>20 DEF Next, Step

\* Every reachable state is well typed, and no plan holds a pack that has been
\* published already, whatever the cache says.
THEOREM TypeCorrect == Spec => []TypeOK
  <1>1. Init => TypeOK
    BY TypeInit
  <1>2. TypeOK /\ [Next]_vars => TypeOK'
    BY TypeStep
  <1>3. QED
    BY <1>1, <1>2, PTL DEF Spec

-----------------------------------------------------------------------------
(* A step of the discovery loop leads back to its beginning only with progress. *)

\* What RoundsBounded says of one fetcher.
Advances(g) ==
    /\ Published(g) \subseteq Published(g)'
    /\ healed[g] => healed'[g]
    /\ StartsOver(g) => Published(g)' # Published(g) \/ (healed'[g] /\ ~healed[g])

LEMMA QuietRound ==
  ASSUME NEW g \in Fetchers, UNCHANGED <<alt, healed>>, ~StartsOver(g)
  PROVE  Advances(g)
  BY DEF Advances, Published

LEMMA PublishRound ==
  ASSUME TypeOK, NEW f \in Fetchers, NEW g \in Fetchers, NEW p \in plan[f], NEW rest,
         Verified(p, Read(f, p)), Publish(f, p, rest), UNCHANGED healed
  PROVE  Advances(g)
  <1>1. p \in Packs /\ Read(f, p) # NoFile
    BY FetchConstants DEF TypeOK, Verified, Bytes
  <1>2. CASE g = f
    <2>1. alt'[f] = [alt[f] EXCEPT ![p] = [pack |-> remote.pack[p], idx |-> Read(f, p)]]
      BY DEF TypeOK, Publish
    <2>2. alt'[f][p].idx # NoFile /\ \A q \in Packs \ {p} : alt'[f][q] = alt[f][q]
      BY <1>1, <2>1 DEF TypeOK
    <2>3. p \in Published(f)' /\ p \notin Published(f) /\ Published(f) \subseteq Published(f)'
      BY <1>1, <2>2 DEF TypeOK, Published
    <2>4. QED
      BY <1>2, <2>3 DEF Advances
  <1>3. CASE g # f
    <2>1. alt'[g] = alt[g] /\ pc'[g] = pc[g]
      BY <1>3 DEF TypeOK, Publish, Goto
    <2>2. QED
      BY <2>1 DEF Advances, Published, StartsOver
  <1>4. QED
    BY <1>2, <1>3

LEMMA SuspectRound ==
  ASSUME TypeOK, NEW f \in Fetchers, NEW g \in Fetchers, Suspect(f), UNCHANGED alt
  PROVE  Advances(g)
  <1>1. Published(g)' = Published(g)
    BY DEF Published
  <1>2. healed[g] => healed'[g]
    BY DEF TypeOK, Suspect
  <1>3. StartsOver(g) => healed'[g] /\ ~healed[g]
    BY DEF TypeOK, Suspect, Goto, StartsOver
  <1>4. QED
    BY <1>1, <1>2, <1>3 DEF Advances

LEMMA RoundStep == TypeOK /\ [Next]_vars => \A g \in Fetchers : Advances(g)
  <1> SUFFICES ASSUME TypeOK, [Next]_vars, NEW g \in Fetchers PROVE Advances(g)
    OBVIOUS
  <1> USE QuietRound DEF Goto, StartsOver
  <1>0. pc \in [Fetchers -> Phases]
    BY DEF TypeOK
  <1>1. ASSUME NEW f \in Fetchers, Begin(f) PROVE Advances(g)
    BY <1>0, <1>1 DEF Begin
  <1>2. ASSUME NEW f \in Fetchers, List(f) PROVE Advances(g)
    BY <1>0, <1>2 DEF List
  <1>3. ASSUME NEW f \in Fetchers, Prune(f) PROVE Advances(g)
    BY <1>0, <1>3 DEF Prune
  <1>4. ASSUME NEW f \in Fetchers, NEW p \in Packs, Ensure(f, p) PROVE Advances(g)
    BY <1>0, <1>4 DEF Ensure
  <1>4a. ASSUME NEW f \in Fetchers, NEW p \in Packs, Show(f, p) PROVE Advances(g)
    BY <1>0, <1>4a DEF Show
  <1>5. ASSUME NEW f \in Fetchers, NEW p \in Packs, Evict(f, p) PROVE Advances(g)
    BY <1>0, <1>5 DEF Evict, Refreshing
  <1>6. ASSUME NEW f \in Fetchers, NEW p \in Packs, Refresh(f, p) PROVE Advances(g)
    BY <1>0, <1>6 DEF Refresh
  <1>7. ASSUME NEW f \in Fetchers, Rebuild(f) PROVE Advances(g)
    BY <1>0, <1>7 DEF Rebuild
  <1>7a. ASSUME NEW f \in Fetchers, NEW p \in Packs, ReadIndex(f, p) PROVE Advances(g)
    BY <1>0, <1>7a DEF ReadIndex
  <1>7b. ASSUME NEW f \in Fetchers, MapDone(f) PROVE Advances(g)
    BY <1>0, <1>7b DEF MapDone
  <1>8. ASSUME NEW f \in Fetchers, Plan(f) PROVE Advances(g)
    <2>1. Suspect(f) \/ (UNCHANGED healed /\ (Goto(f, "check") \/ Goto(f, "download")))
      BY <1>8 DEF Plan
    <2>2. UNCHANGED alt
      BY <1>8 DEF Plan
    <2>3. QED
      BY <1>0, <2>1, <2>2, SuspectRound
  <1>9. ASSUME NEW f \in Fetchers, HealList(f) PROVE Advances(g)
    BY <1>0, <1>9 DEF HealList
  <1>10. ASSUME NEW f \in Fetchers, NEW p \in Packs, Download(f, p) PROVE Advances(g)
    <2>1. CASE Suspect(f) /\ UNCHANGED alt
      BY <2>1, SuspectRound
    <2>2. CASE Verified(p, Read(f, p)) /\ Publish(f, p, plan[f] \ {p}) /\ UNCHANGED healed
      BY <1>10, <2>2, PublishRound DEF Download, First
    <2>3. CASE Goto(f, "pair") /\ UNCHANGED <<alt, healed>>
      BY <1>0, <2>3
    <2>4. QED
      BY <1>10, <2>1, <2>2, <2>3 DEF Download
  <1>11. ASSUME NEW f \in Fetchers, NEW p \in Packs, Repair(f, p) PROVE Advances(g)
    <2>1. CASE Verified(p, Read(f, p)) /\ Publish(f, p, {}) /\ UNCHANGED healed
      BY <1>11, <2>1, PublishRound DEF Repair, First
    <2>2. CASE Goto(f, "failed") /\ UNCHANGED <<alt, healed>>
      BY <1>0, <2>2
    <2>3. QED
      BY <1>11, <2>1, <2>2 DEF Repair
  <1>12. ASSUME NEW f \in Fetchers, Check(f) PROVE Advances(g)
    BY <1>0, <1>12 DEF Check
  <1>13. ASSUME NEW f \in Fetchers, Install(f) PROVE Advances(g)
    BY <1>0, <1>13 DEF Install
  <1>14. ASSUME NEW f \in Fetchers, Keep(f) PROVE Advances(g)
    BY <1>0, <1>14 DEF Keep
  <1>15. ASSUME NEW f \in Fetchers, Trouble(f) \/ Die(f) PROVE Advances(g)
    BY <1>0, <1>15 DEF Trouble, Die
  <1>16. ASSUME NEW f \in Fetchers, GitUpdates(f) PROVE Advances(g)
    BY <1>0, <1>16 DEF GitUpdates
  <1>17. ASSUME NEW p \in Packs, PairLands(p) PROVE Advances(g)
    BY <1>17 DEF PairLands
  <1>18. CASE Gc
    BY <1>18 DEF Gc
  <1>19. CASE UNCHANGED vars
    BY <1>19 DEF vars
  <1>20. QED
    BY <1>1, <1>2, <1>3, <1>4, <1>4a, <1>5, <1>6, <1>7, <1>7a, <1>7b, <1>8, <1>9, <1>10, <1>11, <1>12, <1>13,
       <1>14, <1>15, <1>16, <1>17, <1>18, <1>19 DEF Next, Step

\* The discovery loop starts over only with one more pack published, or with
\* the one heal spent: a fetch has at most as many rounds as the remote has
\* packs, and one more.
THEOREM RoundsBoundedHolds == Spec => RoundsBounded
  <1>1. TypeOK /\ [Next]_vars =>
          [\A f \in Fetchers :
              /\ Published(f) \subseteq Published(f)'
              /\ healed[f] => healed'[f]
              /\ StartsOver(f) => \/ Published(f)' # Published(f)
                                  \/ healed'[f] /\ ~healed[f]]_vars
    BY RoundStep DEF Advances
  <1>2. QED
    BY <1>1, TypeCorrect, PTL DEF Spec, RoundsBounded

-----------------------------------------------------------------------------
(* Why a fetch fails, and what it has found.  *)

\* Pairs only ever come, and only those that the remote's pushes bring.
Listing == remote.first \subseteq listed /\ listed \subseteq remote.first \cup remote.coming

\* Every fetcher speaks only of pairs that it listed, and it listed all that
\* were there at the beginning.
Stemmed(f) ==
    /\ stems[f] \subseteq listed
    /\ \A p \in Packs : claims[f][p] # NoFile => p \in stems[f]
    /\ plan[f] \subseteq stems[f]
    /\ pc[f] \notin {"start", "list"} /\ ~Over(f) => remote.first \subseteq stems[f]

\* Only a fetch that wants something is under way.
Wanting(f) == ~Over(f) => Closure(f) # {}

\* The index it is at belongs to a phase; the heal comes after the first map.
Phased(f) ==
    /\ pc[f] \in {"map", "plan", "download", "pair", "pairget", "repair", "heallist"} => todo[f] = {}
    /\ pc[f] \in {"start", "list", "prune", "ensure", "show", "bad", "badget"} => ~healed[f]

\* A pair is refreshed and verified again only if the pack is what its name says.
Paired(f) ==
    pc[f] \in {"pair", "pairget", "repair"} => \A p \in Packs : First(p, plan[f]) => Named(p)

\* What f published is what its name says, index and pack.
Quarantined(f) == \A p \in Packs : alt[f][p] \in {NoPair, [pack |-> p, idx |-> p]}

\* What f found is there, or was collected; what it brought is there, or was
\* collected while nothing protected it.
Vouched(f) ==
    /\ pc[f] \in {"check", "install"} => Closure(f) \subseteq local \cup AltObjects(f) \/ "gc" \in hit[f]
    /\ pc[f] \in {"keep", "uptodate", "done"} => Closure(f) \subseteq local \/ "gap" \in hit[f]
    /\ pc[f] = "done" => kept[f]

\* Index p is in the cache and can be read, or f is just replacing it.
OnHand(f, p) == cache[p] \in Packs \/ (pc[f] = "pairget" /\ First(p, plan[f]))

\* An index that f counts on in the cache is on hand.
Counting(f) ==
    Serves(f) /\ hit[f] = {} /\ ~Over(f) =>
        \A p \in stems[f] \ todo[f] :
            side[f][p] = "cache" => OnHand(f, p)

\* After the heal every index is f's own download, and its map is true.
Healing(f) ==
    Serves(f) /\ ~Over(f) =>
        /\ pc[f] \in {"heal", "healget"} => \A p \in stems[f] \ todo[f] : side[f][p] = "own"
        /\ healed[f] /\ pc[f] \in {"map", "repair"} =>
               \A p \in stems[f] : side[f][p] = "own" /\ claims[f][p] \in {NoFile, p}
        /\ healed[f] /\ pc[f] \in {"plan", "download", "pair", "pairget"} =>
               \A p \in stems[f] : side[f][p] = "own" /\ claims[f][p] = p
        /\ pc[f] = "repair" => \A p \in Packs : First(p, plan[f]) => side[f][p] = "own"

\* The inductive invariant.
IInv ==
    /\ Listing
    /\ \A f \in Fetchers :
          /\ Stemmed(f) /\ Wanting(f) /\ Phased(f) /\ Paired(f) /\ Quarantined(f)
          /\ Vouched(f) /\ Counting(f) /\ Healing(f)
    /\ FailsOnlyForCause

-----------------------------------------------------------------------------
(* What a traversal says. *)

LEMMA CompleteHolds ==
  ASSUME remote \in Starts, NEW f \in Fetchers, NEW present, Complete(f, present)
  PROVE  Closure(f) \subseteq present
  <1> DEFINE W == remote.wants[f]
             R == Reached(W, present)
  <1>1. W \subseteq Objects
    BY StartType
  <1>2. R \subseteq present
    BY DEF Complete, Missing
  <1>3. R \in SUBSET Objects /\ W \subseteq R
    BY <1>1 DEF Reached
  <1>4. ASSUME NEW q \in R PROVE Links[q] \subseteq R
    <2>1. q \in Objects /\ q \in present /\ Links[q] \subseteq Objects
      BY <1>2, <1>3, FetchConstants
    <2>2. ASSUME NEW r \in Links[q], NEW S \in SUBSET Objects, W \subseteq S,
                 \A x \in S \cap present : Links[x] \subseteq S
          PROVE  r \in S
      <3>1. q \in S
        BY <1>4, <2>2 DEF Reached
      <3>2. QED
        BY <2>1, <2>2, <3>1
    <2>3. QED
      BY <2>1, <2>2 DEF Reached
  <1>5. Closure(f) = Reached(W, Objects)
    BY <1>1 DEF Closure, Closures
  <1>6. ASSUME NEW o \in Reached(W, Objects) PROVE o \in R
    <2> HIDE DEF R
    <2>1. \A q \in R \cap Objects : Links[q] \subseteq R
      BY <1>4
    <2>2. QED
      BY <1>3, <1>6, <2>1 DEF Reached
  <1>7. QED
    BY <1>2, <1>5, <1>6

LEMMA WantsInClosure ==
  ASSUME remote \in Starts, NEW f \in Fetchers
  PROVE  remote.wants[f] \subseteq Closure(f)
  <1>1. remote.wants[f] \in SUBSET Objects
    BY StartType
  <1>2. QED
    BY <1>1 DEF Closure, Closures, Reached

LEMMA MissingInClosure ==
  ASSUME remote \in Starts, NEW f \in Fetchers, NEW present
  PROVE  Missing(f, present) \subseteq Closure(f) \ present
  <1> DEFINE W == remote.wants[f]
  <1>1. Closure(f) = Reached(W, Objects)
    <2>1. W \in SUBSET Objects
      BY StartType
    <2>2. QED
      BY <2>1 DEF Closure, Closures
  <1>2. ASSUME NEW o \in Reached(W, present) PROVE o \in Reached(W, Objects)
    <2>1. ASSUME NEW S \in SUBSET Objects, W \subseteq S, \A q \in S \cap Objects : Links[q] \subseteq S
          PROVE  o \in S
      <3>1. \A q \in S \cap present : Links[q] \subseteq S
        BY <2>1
      <3>2. QED
        BY <1>2, <2>1, <3>1 DEF Reached
    <2>2. QED
      BY <1>2, <2>1 DEF Reached
  <1>3. QED
    BY <1>1, <1>2 DEF Missing

LEMMA CompleteIf ==
  ASSUME remote \in Starts, NEW f \in Fetchers, NEW present, Closure(f) \subseteq present
  PROVE  Complete(f, present)
  BY MissingInClosure DEF Complete


LEMMA RemoteStays ==
  ASSUME TypeOK, [Next]_vars
  PROVE  remote' = remote
  <1>1. ASSUME NEW f \in Fetchers, Begin(f) PROVE remote' = remote
    BY <1>1 DEF Begin, shared
  <1>2. ASSUME NEW f \in Fetchers, List(f) PROVE remote' = remote
    BY <1>2 DEF List, shared
  <1>3. ASSUME NEW f \in Fetchers, Prune(f) PROVE remote' = remote
    BY <1>3 DEF Prune, shared
  <1>4. ASSUME NEW f \in Fetchers, NEW p \in Packs, Ensure(f, p) PROVE remote' = remote
    BY <1>4 DEF Ensure, shared
  <1>4a. ASSUME NEW f \in Fetchers, NEW p \in Packs, Show(f, p) PROVE remote' = remote
    BY <1>4a DEF Show, shared
  <1>5. ASSUME NEW f \in Fetchers, NEW p \in Packs, Evict(f, p) PROVE remote' = remote
    BY <1>5 DEF Evict, shared
  <1>6. ASSUME NEW f \in Fetchers, NEW p \in Packs, Refresh(f, p) PROVE remote' = remote
    BY <1>6 DEF Refresh, shared
  <1>7. ASSUME NEW f \in Fetchers, Rebuild(f) PROVE remote' = remote
    BY <1>7 DEF Rebuild, shared
  <1>7a. ASSUME NEW f \in Fetchers, NEW p \in Packs, ReadIndex(f, p) PROVE remote' = remote
    BY <1>7a DEF ReadIndex, shared
  <1>7b. ASSUME NEW f \in Fetchers, MapDone(f) PROVE remote' = remote
    BY <1>7b DEF MapDone, shared
  <1>8. ASSUME NEW f \in Fetchers, Plan(f) PROVE remote' = remote
    BY <1>8 DEF Plan, shared
  <1>9. ASSUME NEW f \in Fetchers, HealList(f) PROVE remote' = remote
    BY <1>9 DEF HealList, shared
  <1>10. ASSUME NEW f \in Fetchers, NEW p \in Packs, Download(f, p) PROVE remote' = remote
    BY <1>10 DEF Download, shared
  <1>11. ASSUME NEW f \in Fetchers, NEW p \in Packs, Repair(f, p) PROVE remote' = remote
    BY <1>11 DEF Repair, shared
  <1>12. ASSUME NEW f \in Fetchers, Check(f) PROVE remote' = remote
    BY <1>12 DEF Check, shared
  <1>13. ASSUME NEW f \in Fetchers, Install(f) PROVE remote' = remote
    BY <1>13 DEF Install, shared
  <1>14. ASSUME NEW f \in Fetchers, Keep(f) PROVE remote' = remote
    BY <1>14 DEF Keep, shared
  <1>15. ASSUME NEW f \in Fetchers, Trouble(f) PROVE remote' = remote
    BY <1>15 DEF Trouble, shared
  <1>16. ASSUME NEW f \in Fetchers, Die(f) PROVE remote' = remote
    BY <1>16 DEF Die, shared
  <1>17. ASSUME NEW f \in Fetchers, GitUpdates(f) PROVE remote' = remote
    BY <1>17 DEF GitUpdates, shared
  <1>18. ASSUME NEW p \in Packs, PairLands(p) PROVE remote' = remote
    BY <1>18 DEF PairLands, shared
  <1>19. CASE Gc
    BY <1>19 DEF Gc, shared
  <1>20. CASE UNCHANGED vars
    BY <1>20 DEF vars, shared, shared
  <1>21. QED
    BY <1>1, <1>2, <1>3, <1>4, <1>4a, <1>5, <1>6, <1>7, <1>7a, <1>7b, <1>8, <1>9, <1>10, <1>11, <1>12,
       <1>13, <1>14, <1>15, <1>16, <1>17, <1>18, <1>19, <1>20 DEF Next, Step

LEMMA Constancy ==
  ASSUME remote' = remote, NEW f
  PROVE  /\ Serves(f)' <=> Serves(f)
         /\ Closure(f)' = Closure(f)
  BY DEF Serves, Closure

LEMMA OneFirst ==
  ASSUME NEW S \in SUBSET Packs, NEW p, NEW q, First(p, S), First(q, S)
  PROVE  p = q
  BY FetchConstants DEF First


\* The parts of the invariant, one by one.
LEMMA ListingStep ==
  ASSUME TypeOK, Listing, [Next]_vars
  PROVE  Listing'
  <1>1. ASSUME NEW f \in Fetchers, Begin(f) PROVE Listing'
    BY <1>1 DEF Begin, Listing, shared
  <1>2. ASSUME NEW f \in Fetchers, List(f) PROVE Listing'
    BY <1>2 DEF List, Listing, shared
  <1>3. ASSUME NEW f \in Fetchers, Prune(f) PROVE Listing'
    BY <1>3 DEF Prune, Listing, shared
  <1>4. ASSUME NEW f \in Fetchers, NEW p \in Packs, Ensure(f, p) PROVE Listing'
    BY <1>4 DEF Ensure, Listing, shared
  <1>4a. ASSUME NEW f \in Fetchers, NEW p \in Packs, Show(f, p) PROVE Listing'
    BY <1>4a DEF Show, Listing, shared
  <1>5. ASSUME NEW f \in Fetchers, NEW p \in Packs, Evict(f, p) PROVE Listing'
    BY <1>5 DEF Evict, Listing, shared
  <1>6. ASSUME NEW f \in Fetchers, NEW p \in Packs, Refresh(f, p) PROVE Listing'
    BY <1>6 DEF Refresh, Listing, shared
  <1>7. ASSUME NEW f \in Fetchers, Rebuild(f) PROVE Listing'
    BY <1>7 DEF Rebuild, Listing, shared
  <1>7a. ASSUME NEW f \in Fetchers, NEW p \in Packs, ReadIndex(f, p) PROVE Listing'
    BY <1>7a DEF ReadIndex, Listing, shared
  <1>7b. ASSUME NEW f \in Fetchers, MapDone(f) PROVE Listing'
    BY <1>7b DEF MapDone, Listing, shared
  <1>8. ASSUME NEW f \in Fetchers, Plan(f) PROVE Listing'
    BY <1>8 DEF Plan, Listing, shared
  <1>9. ASSUME NEW f \in Fetchers, HealList(f) PROVE Listing'
    BY <1>9 DEF HealList, Listing, shared
  <1>10. ASSUME NEW f \in Fetchers, NEW p \in Packs, Download(f, p) PROVE Listing'
    BY <1>10 DEF Download, Listing, shared
  <1>11. ASSUME NEW f \in Fetchers, NEW p \in Packs, Repair(f, p) PROVE Listing'
    BY <1>11 DEF Repair, Listing, shared
  <1>12. ASSUME NEW f \in Fetchers, Check(f) PROVE Listing'
    BY <1>12 DEF Check, Listing, shared
  <1>13. ASSUME NEW f \in Fetchers, Install(f) PROVE Listing'
    BY <1>13 DEF Install, Listing, shared
  <1>14. ASSUME NEW f \in Fetchers, Keep(f) PROVE Listing'
    BY <1>14 DEF Keep, Listing, shared
  <1>15. ASSUME NEW f \in Fetchers, Trouble(f) PROVE Listing'
    BY <1>15 DEF Trouble, Listing, shared
  <1>16. ASSUME NEW f \in Fetchers, Die(f) PROVE Listing'
    BY <1>16 DEF Die, Listing, shared
  <1>17. ASSUME NEW f \in Fetchers, GitUpdates(f) PROVE Listing'
    BY <1>17 DEF GitUpdates, Listing, shared
  <1>18. ASSUME NEW p \in Packs, PairLands(p) PROVE Listing'
    BY <1>18 DEF PairLands, Listing, shared
  <1>19. CASE Gc
    BY <1>19 DEF Gc, Listing, shared
  <1>20. CASE UNCHANGED vars
    BY <1>20 DEF vars, shared, Listing, shared
  <1>21. QED
    BY <1>1, <1>2, <1>3, <1>4, <1>4a, <1>5, <1>6, <1>7, <1>7a, <1>7b, <1>8, <1>9, <1>10, <1>11, <1>12,
       <1>13, <1>14, <1>15, <1>16, <1>17, <1>18, <1>19, <1>20 DEF Next, Step

LEMMA PhasedStep ==
  ASSUME NEW g \in Fetchers, TypeOK, Phased(g), [Next]_vars
  PROVE  Phased(g)'
  <1>0. pc \in [Fetchers -> Phases]
    BY DEF TypeOK
  <1>1. ASSUME NEW f \in Fetchers, Begin(f) PROVE Phased(g)'
    BY <1>0, <1>1 DEF Begin, TypeOK, Phased, Goto
  <1>2. ASSUME NEW f \in Fetchers, List(f) PROVE Phased(g)'
    BY <1>0, <1>2 DEF List, TypeOK, Phased, Goto
  <1>3. ASSUME NEW f \in Fetchers, Prune(f) PROVE Phased(g)'
    BY <1>0, <1>3 DEF Prune, TypeOK, Phased, Goto
  <1>4. ASSUME NEW f \in Fetchers, NEW p \in Packs, Ensure(f, p) PROVE Phased(g)'
    BY <1>0, <1>4 DEF Ensure, TypeOK, Phased, Goto
  <1>4a. ASSUME NEW f \in Fetchers, NEW p \in Packs, Show(f, p) PROVE Phased(g)'
    BY <1>0, <1>4a DEF Show, TypeOK, Phased, Goto
  <1>5. ASSUME NEW f \in Fetchers, NEW p \in Packs, Evict(f, p) PROVE Phased(g)'
    BY <1>0, <1>5 DEF Evict, TypeOK, Phased, Goto, Refreshing
  <1>6. ASSUME NEW f \in Fetchers, NEW p \in Packs, Refresh(f, p) PROVE Phased(g)'
    BY <1>0, <1>6 DEF Refresh, TypeOK, Phased, Goto
  <1>7. ASSUME NEW f \in Fetchers, Rebuild(f) PROVE Phased(g)'
    BY <1>0, <1>7 DEF Rebuild, TypeOK, Phased, Goto
  <1>7a. ASSUME NEW f \in Fetchers, NEW p \in Packs, ReadIndex(f, p) PROVE Phased(g)'
    BY <1>0, <1>7a DEF ReadIndex, TypeOK, Phased, Goto
  <1>7b. ASSUME NEW f \in Fetchers, MapDone(f) PROVE Phased(g)'
    BY <1>0, <1>7b DEF MapDone, TypeOK, Phased, Goto
  <1>8. ASSUME NEW f \in Fetchers, Plan(f) PROVE Phased(g)'
    BY <1>0, <1>8 DEF Plan, TypeOK, Phased, Goto, Suspect
  <1>9. ASSUME NEW f \in Fetchers, HealList(f) PROVE Phased(g)'
    BY <1>0, <1>9 DEF HealList, TypeOK, Phased, Goto
  <1>10. ASSUME NEW f \in Fetchers, NEW p \in Packs, Download(f, p) PROVE Phased(g)'
    BY <1>0, <1>10 DEF Download, TypeOK, Phased, Goto, Suspect, Publish
  <1>11. ASSUME NEW f \in Fetchers, NEW p \in Packs, Repair(f, p) PROVE Phased(g)'
    BY <1>0, <1>11 DEF Repair, TypeOK, Phased, Goto, Publish
  <1>12. ASSUME NEW f \in Fetchers, Check(f) PROVE Phased(g)'
    BY <1>0, <1>12 DEF Check, TypeOK, Phased, Goto
  <1>13. ASSUME NEW f \in Fetchers, Install(f) PROVE Phased(g)'
    BY <1>0, <1>13 DEF Install, TypeOK, Phased, Goto
  <1>14. ASSUME NEW f \in Fetchers, Keep(f) PROVE Phased(g)'
    BY <1>0, <1>14 DEF Keep, TypeOK, Phased, Goto
  <1>15. ASSUME NEW f \in Fetchers, Trouble(f) PROVE Phased(g)'
    BY <1>0, <1>15 DEF Trouble, TypeOK, Phased, Goto, Forget
  <1>16. ASSUME NEW f \in Fetchers, Die(f) PROVE Phased(g)'
    BY <1>0, <1>16 DEF Die, TypeOK, Phased, Goto, Forget
  <1>17. ASSUME NEW f \in Fetchers, GitUpdates(f) PROVE Phased(g)'
    BY <1>0, <1>17 DEF GitUpdates, TypeOK, Phased, Goto
  <1>18. ASSUME NEW p \in Packs, PairLands(p) PROVE Phased(g)'
    BY <1>0, <1>18 DEF PairLands, TypeOK, Phased, Goto
  <1>19. CASE Gc
    BY <1>0, <1>19 DEF Gc, TypeOK, Phased, Goto
  <1>20. CASE UNCHANGED vars
    BY <1>0, <1>20 DEF vars, shared, TypeOK, Phased, Goto
  <1>21. QED
    BY <1>1, <1>2, <1>3, <1>4, <1>4a, <1>5, <1>6, <1>7, <1>7a, <1>7b, <1>8, <1>9, <1>10, <1>11, <1>12,
       <1>13, <1>14, <1>15, <1>16, <1>17, <1>18, <1>19, <1>20 DEF Next, Step

LEMMA StemmedStep ==
  ASSUME NEW g \in Fetchers, TypeOK, Listing, Listing', remote' = remote, Stemmed(g), [Next]_vars
  PROVE  Stemmed(g)'
  <1>0. pc \in [Fetchers -> Phases]
    BY DEF TypeOK
  <1>1. ASSUME NEW f \in Fetchers, Begin(f) PROVE Stemmed(g)'
    BY <1>0, <1>1 DEF Begin, TypeOK, Stemmed, Listing, Over, Goto, shared
  <1>2. ASSUME NEW f \in Fetchers, List(f) PROVE Stemmed(g)'
    BY <1>0, <1>2 DEF List, TypeOK, Stemmed, Listing, Over, Goto, shared
  <1>3. ASSUME NEW f \in Fetchers, Prune(f) PROVE Stemmed(g)'
    BY <1>0, <1>3 DEF Prune, TypeOK, Stemmed, Listing, Over, Goto, shared
  <1>4. ASSUME NEW f \in Fetchers, NEW p \in Packs, Ensure(f, p) PROVE Stemmed(g)'
    BY <1>0, <1>4 DEF Ensure, TypeOK, Stemmed, Listing, Over, Goto, shared
  <1>4a. ASSUME NEW f \in Fetchers, NEW p \in Packs, Show(f, p) PROVE Stemmed(g)'
    BY <1>0, <1>4a DEF Show, TypeOK, Stemmed, Listing, Over, Goto, shared
  <1>5. ASSUME NEW f \in Fetchers, NEW p \in Packs, Evict(f, p) PROVE Stemmed(g)'
    BY <1>0, <1>5 DEF Evict, TypeOK, Stemmed, Listing, Over, Goto, shared, Refreshing
  <1>6. ASSUME NEW f \in Fetchers, NEW p \in Packs, Refresh(f, p) PROVE Stemmed(g)'
    <2>1. UNCHANGED <<remote, listed, stems, plan>>
      BY <1>6 DEF Refresh
    <2>2. claims'[g] = claims[g] \/ \A q \in Packs : claims'[g][q] = NoFile
      <3>1. UNCHANGED claims \/ Unmapped(f)
        BY <1>6 DEF Refresh
      <3>2. QED
        BY <3>1 DEF TypeOK, Unmapped
    <2>3. pc'[g] = pc[g] \/ pc[g] \in {"badget", "healget", "pairget"}
      BY <1>0, <1>6 DEF Refresh, Goto
    <2>4. QED
      BY <2>1, <2>2, <2>3 DEF Stemmed, Over
  <1>7. ASSUME NEW f \in Fetchers, Rebuild(f) PROVE Stemmed(g)'
    BY <1>0, <1>7 DEF Rebuild, TypeOK, Stemmed, Listing, Over, Goto, shared, Unmapped
  <1>7a. ASSUME NEW f \in Fetchers, NEW p \in Packs, ReadIndex(f, p) PROVE Stemmed(g)'
    BY <1>0, <1>7a DEF ReadIndex, TypeOK, Stemmed, Listing, Over, Goto, shared, Unread
  <1>7b. ASSUME NEW f \in Fetchers, MapDone(f) PROVE Stemmed(g)'
    BY <1>0, <1>7b DEF MapDone, TypeOK, Stemmed, Listing, Over, Goto, shared
  <1>8. ASSUME NEW f \in Fetchers, Plan(f) PROVE Stemmed(g)'
    BY <1>0, <1>8, GreedyType DEF Plan, TypeOK, Stemmed, Listing, Over, Goto, shared, Suspect
  <1>9. ASSUME NEW f \in Fetchers, HealList(f) PROVE Stemmed(g)'
    BY <1>0, <1>9 DEF HealList, TypeOK, Stemmed, Listing, Over, Goto, shared
  <1>10. ASSUME NEW f \in Fetchers, NEW p \in Packs, Download(f, p) PROVE Stemmed(g)'
    <2>1. UNCHANGED <<remote, listed, stems, claims>>
      BY <1>10 DEF Download, shared
    <2>2. plan'[g] \subseteq plan[g]
      <3>1. plan' = plan \/ \E S \in SUBSET plan[f] : plan' = [plan EXCEPT ![f] = S]
        BY <1>10 DEF Download, Publish
      <3>2. QED
        BY <3>1 DEF TypeOK
    <2>3. pc'[g] = pc[g] \/ pc[g] = "download"
      BY <1>0, <1>10 DEF Download, Suspect, Publish, Goto
    <2>4. QED
      BY <2>1, <2>2, <2>3 DEF Stemmed, Over
  <1>11. ASSUME NEW f \in Fetchers, NEW p \in Packs, Repair(f, p) PROVE Stemmed(g)'
    BY <1>0, <1>11 DEF Repair, TypeOK, Stemmed, Listing, Over, Goto, shared, Publish
  <1>12. ASSUME NEW f \in Fetchers, Check(f) PROVE Stemmed(g)'
    BY <1>0, <1>12 DEF Check, TypeOK, Stemmed, Listing, Over, Goto, shared
  <1>13. ASSUME NEW f \in Fetchers, Install(f) PROVE Stemmed(g)'
    BY <1>0, <1>13 DEF Install, TypeOK, Stemmed, Listing, Over, Goto, shared
  <1>14. ASSUME NEW f \in Fetchers, Keep(f) PROVE Stemmed(g)'
    BY <1>0, <1>14 DEF Keep, TypeOK, Stemmed, Listing, Over, Goto, shared
  <1>15. ASSUME NEW f \in Fetchers, Trouble(f) PROVE Stemmed(g)'
    BY <1>0, <1>15 DEF Trouble, TypeOK, Stemmed, Listing, Over, Goto, shared, Unmapped, Forget
  <1>16. ASSUME NEW f \in Fetchers, Die(f) PROVE Stemmed(g)'
    BY <1>0, <1>16 DEF Die, TypeOK, Stemmed, Listing, Over, Goto, shared, Unmapped, Forget
  <1>17. ASSUME NEW f \in Fetchers, GitUpdates(f) PROVE Stemmed(g)'
    BY <1>0, <1>17 DEF GitUpdates, TypeOK, Stemmed, Listing, Over, Goto, shared
  <1>18. ASSUME NEW p \in Packs, PairLands(p) PROVE Stemmed(g)'
    BY <1>0, <1>18 DEF PairLands, TypeOK, Stemmed, Listing, Over, Goto, shared
  <1>19. CASE Gc
    BY <1>0, <1>19 DEF Gc, TypeOK, Stemmed, Listing, Over, Goto, shared
  <1>20. CASE UNCHANGED vars
    BY <1>0, <1>20 DEF vars, shared, TypeOK, Stemmed, Listing, Over, Goto, shared
  <1>21. QED
    BY <1>1, <1>2, <1>3, <1>4, <1>4a, <1>5, <1>6, <1>7, <1>7a, <1>7b, <1>8, <1>9, <1>10, <1>11, <1>12,
       <1>13, <1>14, <1>15, <1>16, <1>17, <1>18, <1>19, <1>20 DEF Next, Step

LEMMA WantingStep ==
  ASSUME NEW g \in Fetchers, TypeOK, remote' = remote, Wanting(g), [Next]_vars
  PROVE  Wanting(g)'
  <1>0. pc \in [Fetchers -> Phases]
    BY DEF TypeOK
  <1>1. ASSUME NEW f \in Fetchers, Begin(f) PROVE Wanting(g)'
    BY <1>0, Constancy, <1>1 DEF Begin, Wanting, Over, Goto
  <1>2. ASSUME NEW f \in Fetchers, List(f) PROVE Wanting(g)'
    BY <1>0, Constancy, <1>2 DEF List, Wanting, Over, Goto
  <1>3. ASSUME NEW f \in Fetchers, Prune(f) PROVE Wanting(g)'
    BY <1>0, Constancy, <1>3 DEF Prune, Wanting, Over, Goto
  <1>4. ASSUME NEW f \in Fetchers, NEW p \in Packs, Ensure(f, p) PROVE Wanting(g)'
    BY <1>0, Constancy, <1>4 DEF Ensure, Wanting, Over, Goto
  <1>4a. ASSUME NEW f \in Fetchers, NEW p \in Packs, Show(f, p) PROVE Wanting(g)'
    BY <1>0, Constancy, <1>4a DEF Show, Wanting, Over, Goto
  <1>5. ASSUME NEW f \in Fetchers, NEW p \in Packs, Evict(f, p) PROVE Wanting(g)'
    BY <1>0, Constancy, <1>5 DEF Evict, Wanting, Over, Goto, Refreshing
  <1>6. ASSUME NEW f \in Fetchers, NEW p \in Packs, Refresh(f, p) PROVE Wanting(g)'
    BY <1>0, Constancy, <1>6 DEF Refresh, Wanting, Over, Goto
  <1>7. ASSUME NEW f \in Fetchers, Rebuild(f) PROVE Wanting(g)'
    BY <1>0, Constancy, <1>7 DEF Rebuild, Wanting, Over, Goto
  <1>7a. ASSUME NEW f \in Fetchers, NEW p \in Packs, ReadIndex(f, p) PROVE Wanting(g)'
    BY <1>0, Constancy, <1>7a DEF ReadIndex, Wanting, Over, Goto
  <1>7b. ASSUME NEW f \in Fetchers, MapDone(f) PROVE Wanting(g)'
    BY <1>0, Constancy, <1>7b DEF MapDone, Wanting, Over, Goto
  <1>8. ASSUME NEW f \in Fetchers, Plan(f) PROVE Wanting(g)'
    BY <1>0, Constancy, <1>8 DEF Plan, Wanting, Over, Goto, Suspect
  <1>9. ASSUME NEW f \in Fetchers, HealList(f) PROVE Wanting(g)'
    BY <1>0, Constancy, <1>9 DEF HealList, Wanting, Over, Goto
  <1>10. ASSUME NEW f \in Fetchers, NEW p \in Packs, Download(f, p) PROVE Wanting(g)'
    BY <1>0, Constancy, <1>10 DEF Download, Wanting, Over, Goto, Suspect, Publish
  <1>11. ASSUME NEW f \in Fetchers, NEW p \in Packs, Repair(f, p) PROVE Wanting(g)'
    BY <1>0, Constancy, <1>11 DEF Repair, Wanting, Over, Goto, Publish
  <1>12. ASSUME NEW f \in Fetchers, Check(f) PROVE Wanting(g)'
    BY <1>0, Constancy, <1>12 DEF Check, Wanting, Over, Goto
  <1>13. ASSUME NEW f \in Fetchers, Install(f) PROVE Wanting(g)'
    BY <1>0, Constancy, <1>13 DEF Install, Wanting, Over, Goto
  <1>14. ASSUME NEW f \in Fetchers, Keep(f) PROVE Wanting(g)'
    BY <1>0, Constancy, <1>14 DEF Keep, Wanting, Over, Goto
  <1>15. ASSUME NEW f \in Fetchers, Trouble(f) PROVE Wanting(g)'
    BY <1>0, Constancy, <1>15 DEF Trouble, Wanting, Over, Goto
  <1>16. ASSUME NEW f \in Fetchers, Die(f) PROVE Wanting(g)'
    BY <1>0, Constancy, <1>16 DEF Die, Wanting, Over, Goto
  <1>17. ASSUME NEW f \in Fetchers, GitUpdates(f) PROVE Wanting(g)'
    BY <1>0, Constancy, <1>17 DEF GitUpdates, Wanting, Over, Goto
  <1>18. ASSUME NEW p \in Packs, PairLands(p) PROVE Wanting(g)'
    BY <1>0, Constancy, <1>18 DEF PairLands, Wanting, Over, Goto
  <1>19. CASE Gc
    BY <1>0, Constancy, <1>19 DEF Gc, Wanting, Over, Goto
  <1>20. CASE UNCHANGED vars
    BY <1>0, Constancy, <1>20 DEF vars, shared, Wanting, Over, Goto
  <1>21. QED
    BY <1>1, <1>2, <1>3, <1>4, <1>4a, <1>5, <1>6, <1>7, <1>7a, <1>7b, <1>8, <1>9, <1>10, <1>11, <1>12,
       <1>13, <1>14, <1>15, <1>16, <1>17, <1>18, <1>19, <1>20 DEF Next, Step

LEMMA PairedStep ==
  ASSUME NEW g \in Fetchers, TypeOK, remote' = remote, Paired(g), [Next]_vars
  PROVE  Paired(g)'
  <1>0. pc \in [Fetchers -> Phases]
    BY DEF TypeOK
  <1>1. ASSUME NEW f \in Fetchers, Begin(f) PROVE Paired(g)'
    BY <1>0, OneFirst, <1>1 DEF Begin, Paired, Goto, Named
  <1>2. ASSUME NEW f \in Fetchers, List(f) PROVE Paired(g)'
    BY <1>0, OneFirst, <1>2 DEF List, Paired, Goto, Named
  <1>3. ASSUME NEW f \in Fetchers, Prune(f) PROVE Paired(g)'
    BY <1>0, OneFirst, <1>3 DEF Prune, Paired, Goto, Named
  <1>4. ASSUME NEW f \in Fetchers, NEW p \in Packs, Ensure(f, p) PROVE Paired(g)'
    BY <1>0, OneFirst, <1>4 DEF Ensure, Paired, Goto, Named
  <1>4a. ASSUME NEW f \in Fetchers, NEW p \in Packs, Show(f, p) PROVE Paired(g)'
    BY <1>0, OneFirst, <1>4a DEF Show, Paired, Goto, Named
  <1>5. ASSUME NEW f \in Fetchers, NEW p \in Packs, Evict(f, p) PROVE Paired(g)'
    BY <1>0, OneFirst, <1>5 DEF Evict, Paired, Goto, Named, Refreshing
  <1>6. ASSUME NEW f \in Fetchers, NEW p \in Packs, Refresh(f, p) PROVE Paired(g)'
    BY <1>0, OneFirst, <1>6 DEF Refresh, Paired, Goto, Named
  <1>7. ASSUME NEW f \in Fetchers, Rebuild(f) PROVE Paired(g)'
    BY <1>0, OneFirst, <1>7 DEF Rebuild, Paired, Goto, Named
  <1>7a. ASSUME NEW f \in Fetchers, NEW p \in Packs, ReadIndex(f, p) PROVE Paired(g)'
    BY <1>0, OneFirst, <1>7a DEF ReadIndex, Paired, Goto, Named
  <1>7b. ASSUME NEW f \in Fetchers, MapDone(f) PROVE Paired(g)'
    BY <1>0, OneFirst, <1>7b DEF MapDone, Paired, Goto, Named
  <1>8. ASSUME NEW f \in Fetchers, Plan(f) PROVE Paired(g)'
    <2>1. pc'[f] \notin {"pair", "pairget", "repair"}
      BY <1>0, <1>8 DEF Plan, Suspect, Goto
    <2>2. g # f => pc'[g] = pc[g] /\ plan'[g] = plan[g]
      BY <1>0, <1>8 DEF Plan, Suspect, Goto, TypeOK
    <2>3. QED
      BY <2>1, <2>2 DEF Paired, Named
  <1>9. ASSUME NEW f \in Fetchers, HealList(f) PROVE Paired(g)'
    BY <1>0, OneFirst, <1>9 DEF HealList, Paired, Goto, Named
  <1>10. ASSUME NEW f \in Fetchers, NEW p \in Packs, Download(f, p) PROVE Paired(g)'
    BY <1>0, OneFirst, <1>10 DEF Download, Paired, Goto, Named, Suspect, Publish, TypeOK
  <1>11. ASSUME NEW f \in Fetchers, NEW p \in Packs, Repair(f, p) PROVE Paired(g)'
    <2>1. pc'[f] \notin {"pair", "pairget", "repair"}
      BY <1>0, <1>11 DEF Repair, Publish, Goto
    <2>2. g # f => pc'[g] = pc[g] /\ plan'[g] = plan[g]
      BY <1>0, <1>11 DEF Repair, Publish, Goto, TypeOK
    <2>3. QED
      BY <2>1, <2>2 DEF Paired, Named
  <1>12. ASSUME NEW f \in Fetchers, Check(f) PROVE Paired(g)'
    BY <1>0, OneFirst, <1>12 DEF Check, Paired, Goto, Named
  <1>13. ASSUME NEW f \in Fetchers, Install(f) PROVE Paired(g)'
    BY <1>0, OneFirst, <1>13 DEF Install, Paired, Goto, Named
  <1>14. ASSUME NEW f \in Fetchers, Keep(f) PROVE Paired(g)'
    BY <1>0, OneFirst, <1>14 DEF Keep, Paired, Goto, Named
  <1>15. ASSUME NEW f \in Fetchers, Trouble(f) PROVE Paired(g)'
    BY <1>0, OneFirst, <1>15 DEF Trouble, Paired, Goto, Named, Forget, TypeOK
  <1>16. ASSUME NEW f \in Fetchers, Die(f) PROVE Paired(g)'
    BY <1>0, OneFirst, <1>16 DEF Die, Paired, Goto, Named, Forget, TypeOK
  <1>17. ASSUME NEW f \in Fetchers, GitUpdates(f) PROVE Paired(g)'
    BY <1>0, OneFirst, <1>17 DEF GitUpdates, Paired, Goto, Named
  <1>18. ASSUME NEW p \in Packs, PairLands(p) PROVE Paired(g)'
    BY <1>0, OneFirst, <1>18 DEF PairLands, Paired, Goto, Named
  <1>19. CASE Gc
    BY <1>0, OneFirst, <1>19 DEF Gc, Paired, Goto, Named
  <1>20. CASE UNCHANGED vars
    BY <1>0, OneFirst, <1>20 DEF vars, shared, Paired, Goto, Named
  <1>21. QED
    BY <1>1, <1>2, <1>3, <1>4, <1>4a, <1>5, <1>6, <1>7, <1>7a, <1>7b, <1>8, <1>9, <1>10, <1>11, <1>12,
       <1>13, <1>14, <1>15, <1>16, <1>17, <1>18, <1>19, <1>20 DEF Next, Step

LEMMA QuarantinedStep ==
  ASSUME NEW g \in Fetchers, TypeOK, Paired(g), Quarantined(g), [Next]_vars
  PROVE  Quarantined(g)'
  <1>0. pc \in [Fetchers -> Phases]
    BY DEF TypeOK
  <1>1. ASSUME NEW f \in Fetchers, Begin(f) PROVE Quarantined(g)'
    BY <1>0, <1>1 DEF Begin, Quarantined
  <1>2. ASSUME NEW f \in Fetchers, List(f) PROVE Quarantined(g)'
    BY <1>0, <1>2 DEF List, Quarantined
  <1>3. ASSUME NEW f \in Fetchers, Prune(f) PROVE Quarantined(g)'
    BY <1>0, <1>3 DEF Prune, Quarantined
  <1>4. ASSUME NEW f \in Fetchers, NEW p \in Packs, Ensure(f, p) PROVE Quarantined(g)'
    BY <1>0, <1>4 DEF Ensure, Quarantined
  <1>4a. ASSUME NEW f \in Fetchers, NEW p \in Packs, Show(f, p) PROVE Quarantined(g)'
    BY <1>0, <1>4a DEF Show, Quarantined
  <1>5. ASSUME NEW f \in Fetchers, NEW p \in Packs, Evict(f, p) PROVE Quarantined(g)'
    BY <1>0, <1>5 DEF Evict, Quarantined
  <1>6. ASSUME NEW f \in Fetchers, NEW p \in Packs, Refresh(f, p) PROVE Quarantined(g)'
    BY <1>0, <1>6 DEF Refresh, Quarantined
  <1>7. ASSUME NEW f \in Fetchers, Rebuild(f) PROVE Quarantined(g)'
    BY <1>0, <1>7 DEF Rebuild, Quarantined
  <1>7a. ASSUME NEW f \in Fetchers, NEW p \in Packs, ReadIndex(f, p) PROVE Quarantined(g)'
    BY <1>0, <1>7a DEF ReadIndex, Quarantined
  <1>7b. ASSUME NEW f \in Fetchers, MapDone(f) PROVE Quarantined(g)'
    BY <1>0, <1>7b DEF MapDone, Quarantined
  <1>8. ASSUME NEW f \in Fetchers, Plan(f) PROVE Quarantined(g)'
    BY <1>0, <1>8 DEF Plan, Quarantined
  <1>9. ASSUME NEW f \in Fetchers, HealList(f) PROVE Quarantined(g)'
    BY <1>0, <1>9 DEF HealList, Quarantined
  <1>10. ASSUME NEW f \in Fetchers, NEW p \in Packs, Download(f, p) PROVE Quarantined(g)'
    <2>1. UNCHANGED alt \/ alt' = [alt EXCEPT ![f][p] = [pack |-> remote.pack[p], idx |-> Read(f, p)]]
      BY <1>10 DEF Download, Publish
    <2>2. UNCHANGED alt \/ (remote.pack[p] = p /\ Read(f, p) = p)
      BY <1>10 DEF Download, Named, Verified
    <2>3. UNCHANGED alt \/ alt' = [alt EXCEPT ![f][p] = [pack |-> p, idx |-> p]]
      BY <2>1, <2>2
    <2>4. alt'[g] = alt[g] \/ (\A q \in Packs : alt'[g][q] = IF q = p THEN [pack |-> p, idx |-> p] ELSE alt[g][q])
      BY <2>3 DEF TypeOK
    <2>5. QED
      BY <2>4 DEF Quarantined
  <1>11. ASSUME NEW f \in Fetchers, NEW p \in Packs, Repair(f, p) PROVE Quarantined(g)'
    <2>1. UNCHANGED alt \/ alt' = [alt EXCEPT ![f][p] = [pack |-> remote.pack[p], idx |-> Read(f, p)]]
      BY <1>11 DEF Repair, Publish
    <2>2. f = g => UNCHANGED alt \/ (remote.pack[p] = p /\ Read(f, p) = p)
      BY <1>11 DEF Repair, Paired, Named, Verified
    <2>3. CASE f = g
      <3>1. alt' = alt \/ alt' = [alt EXCEPT ![f][p] = [pack |-> p, idx |-> p]]
        BY <2>1, <2>2, <2>3
      <3>2. alt'[g] = alt[g] \/ (\A q \in Packs : alt'[g][q] = IF q = p THEN [pack |-> p, idx |-> p] ELSE alt[g][q])
        BY <3>1 DEF TypeOK
      <3>3. QED
        BY <3>2 DEF Quarantined
    <2>4. CASE f # g
      <3>1. alt'[g] = alt[g]
        BY <2>1, <2>4 DEF TypeOK
      <3>2. QED
        BY <3>1 DEF Quarantined
    <2>5. QED
      BY <2>3, <2>4
  <1>12. ASSUME NEW f \in Fetchers, Check(f) PROVE Quarantined(g)'
    BY <1>0, <1>12 DEF Check, Quarantined
  <1>13. ASSUME NEW f \in Fetchers, Install(f) PROVE Quarantined(g)'
    BY <1>0, <1>13 DEF Install, Quarantined
  <1>14. ASSUME NEW f \in Fetchers, Keep(f) PROVE Quarantined(g)'
    BY <1>0, <1>14 DEF Keep, Quarantined
  <1>15. ASSUME NEW f \in Fetchers, Trouble(f) PROVE Quarantined(g)'
    BY <1>0, <1>15 DEF Trouble, Quarantined
  <1>16. ASSUME NEW f \in Fetchers, Die(f) PROVE Quarantined(g)'
    BY <1>0, <1>16 DEF Die, Quarantined
  <1>17. ASSUME NEW f \in Fetchers, GitUpdates(f) PROVE Quarantined(g)'
    BY <1>0, <1>17 DEF GitUpdates, Quarantined
  <1>18. ASSUME NEW p \in Packs, PairLands(p) PROVE Quarantined(g)'
    BY <1>0, <1>18 DEF PairLands, Quarantined
  <1>19. CASE Gc
    BY <1>0, <1>19 DEF Gc, Quarantined
  <1>20. CASE UNCHANGED vars
    BY <1>0, <1>20 DEF vars, shared, Quarantined
  <1>21. QED
    BY <1>1, <1>2, <1>3, <1>4, <1>4a, <1>5, <1>6, <1>7, <1>7a, <1>7b, <1>8, <1>9, <1>10, <1>11, <1>12,
       <1>13, <1>14, <1>15, <1>16, <1>17, <1>18, <1>19, <1>20 DEF Next, Step

LEMMA AltSame ==
  ASSUME NEW f, alt'[f] = alt[f]
  PROVE  AltObjects(f)' = AltObjects(f)
  BY DEF AltObjects, Readable

LEMMA VouchedStep ==
  ASSUME NEW g \in Fetchers, TypeOK, remote' = remote, Vouched(g), [Next]_vars
  PROVE  Vouched(g)'
  <1>0. pc \in [Fetchers -> Phases]
    BY DEF TypeOK
  <1>1. ASSUME NEW f \in Fetchers, Begin(f) PROVE Vouched(g)'
    BY <1>0, Constancy, AltSame, <1>1, CompleteHolds DEF Begin, Vouched, shared, Goto, TypeOK
  <1>2. ASSUME NEW f \in Fetchers, List(f) PROVE Vouched(g)'
    BY <1>0, Constancy, AltSame, <1>2 DEF List, Vouched, shared, Goto, TypeOK
  <1>3. ASSUME NEW f \in Fetchers, Prune(f) PROVE Vouched(g)'
    BY <1>0, Constancy, AltSame, <1>3 DEF Prune, Vouched, shared, Goto, TypeOK, Drop
  <1>4. ASSUME NEW f \in Fetchers, NEW p \in Packs, Ensure(f, p) PROVE Vouched(g)'
    BY <1>0, Constancy, AltSame, <1>4 DEF Ensure, Vouched, shared, Goto, TypeOK
  <1>4a. ASSUME NEW f \in Fetchers, NEW p \in Packs, Show(f, p) PROVE Vouched(g)'
    BY <1>0, Constancy, AltSame, <1>4a DEF Show, Vouched, shared, Goto, TypeOK
  <1>5. ASSUME NEW f \in Fetchers, NEW p \in Packs, Evict(f, p) PROVE Vouched(g)'
    <2>1. pc'[g] = pc[g] \/ pc'[g] \notin {"check", "install", "keep", "uptodate", "done"}
      <3>1. \E ph \in {"badget", "healget", "pairget"} : Goto(f, ph)
        BY <1>5 DEF Evict, Refreshing
      <3>2. QED
        BY <1>0, <3>1 DEF Goto
    <2>2. hit[g] \subseteq hit'[g]
      <3>1. CASE Drop(f, {p})
        BY <3>1 DEF Drop, TypeOK
      <3>2. QED
        BY <1>5, <3>1 DEF Evict
    <2>3. UNCHANGED <<local, alt, kept>>
      BY <1>5 DEF Evict
    <2>4. QED
      BY <2>1, <2>2, <2>3, Constancy, AltSame DEF Vouched
  <1>6. ASSUME NEW f \in Fetchers, NEW p \in Packs, Refresh(f, p) PROVE Vouched(g)'
    BY <1>0, Constancy, AltSame, <1>6 DEF Refresh, Vouched, shared, Goto, TypeOK
  <1>7. ASSUME NEW f \in Fetchers, Rebuild(f) PROVE Vouched(g)'
    BY <1>0, Constancy, AltSame, <1>7 DEF Rebuild, Vouched, shared, Goto, TypeOK
  <1>7a. ASSUME NEW f \in Fetchers, NEW p \in Packs, ReadIndex(f, p) PROVE Vouched(g)'
    BY <1>0, Constancy, AltSame, <1>7a DEF ReadIndex, Vouched, shared, Goto, TypeOK
  <1>7b. ASSUME NEW f \in Fetchers, MapDone(f) PROVE Vouched(g)'
    BY <1>0, Constancy, AltSame, <1>7b DEF MapDone, Vouched, shared, Goto, TypeOK
  <1>8. ASSUME NEW f \in Fetchers, Plan(f) PROVE Vouched(g)'
    <2>1. UNCHANGED <<local, alt, hit, kept>>
      BY <1>8 DEF Plan, shared
    <2>2. pc'[g] = pc[g] \/ pc'[g] \notin {"check", "install", "keep", "uptodate", "done"} \/ (g = f /\ pc'[g] = "check")
      BY <1>0, <1>8 DEF Plan, Suspect, Goto
    <2>3. pc'[f] = "check" => Complete(f, local \cup AltObjects(f))
      BY <1>0, <1>8 DEF Plan, Suspect, Goto, Complete
    <2>4. pc'[f] = "check" => Closure(f) \subseteq local \cup AltObjects(f)
      BY <2>3, CompleteHolds DEF TypeOK
    <2>5. QED
      BY <2>1, <2>2, <2>4, Constancy, AltSame DEF Vouched
  <1>9. ASSUME NEW f \in Fetchers, HealList(f) PROVE Vouched(g)'
    BY <1>0, Constancy, AltSame, <1>9 DEF HealList, Vouched, shared, Goto, TypeOK
  <1>10. ASSUME NEW f \in Fetchers, NEW p \in Packs, Download(f, p) PROVE Vouched(g)'
    <2>1. g = f => pc'[g] \notin {"check", "install", "keep", "uptodate", "done"}
      BY <1>0, <1>10 DEF Download, Repair, Suspect, Publish, Goto
    <2>2. g # f => alt'[g] = alt[g] /\ pc'[g] = pc[g] /\ hit'[g] = hit[g]
      BY <1>0, <1>10 DEF Download, Repair, Suspect, Publish, Goto, TypeOK
    <2>3. local' = local /\ kept' = kept
      BY <1>10 DEF Download, Repair, shared
    <2>4. QED
      BY <2>1, <2>2, <2>3, Constancy, AltSame DEF Vouched
  <1>11. ASSUME NEW f \in Fetchers, NEW p \in Packs, Repair(f, p) PROVE Vouched(g)'
    <2>1. g = f => pc'[g] \notin {"check", "install", "keep", "uptodate", "done"}
      BY <1>0, <1>11 DEF Download, Repair, Suspect, Publish, Goto
    <2>2. g # f => alt'[g] = alt[g] /\ pc'[g] = pc[g] /\ hit'[g] = hit[g]
      BY <1>0, <1>11 DEF Download, Repair, Suspect, Publish, Goto, TypeOK
    <2>3. local' = local /\ kept' = kept
      BY <1>11 DEF Download, Repair, shared
    <2>4. QED
      BY <2>1, <2>2, <2>3, Constancy, AltSame DEF Vouched
  <1>12. ASSUME NEW f \in Fetchers, Check(f) PROVE Vouched(g)'
    BY <1>0, Constancy, AltSame, <1>12 DEF Check, Vouched, shared, Goto, TypeOK
  <1>13. ASSUME NEW f \in Fetchers, Install(f) PROVE Vouched(g)'
    BY <1>0, Constancy, AltSame, <1>13 DEF Install, CanPack, NewObjects, Vouched, shared, Goto, TypeOK
  <1>14. ASSUME NEW f \in Fetchers, Keep(f) PROVE Vouched(g)'
    BY <1>0, Constancy, AltSame, <1>14 DEF Keep, Vouched, shared, Goto, TypeOK
  <1>15. ASSUME NEW f \in Fetchers, Trouble(f) PROVE Vouched(g)'
    BY <1>0, Constancy, AltSame, <1>15 DEF Trouble, Vouched, shared, Goto, TypeOK
  <1>16. ASSUME NEW f \in Fetchers, Die(f) PROVE Vouched(g)'
    BY <1>0, Constancy, AltSame, <1>16 DEF Die, Vouched, shared, Goto, TypeOK
  <1>17. ASSUME NEW f \in Fetchers, GitUpdates(f) PROVE Vouched(g)'
    BY <1>0, Constancy, AltSame, <1>17 DEF GitUpdates, Vouched, shared, Goto, TypeOK
  <1>18. ASSUME NEW p \in Packs, PairLands(p) PROVE Vouched(g)'
    BY <1>0, Constancy, AltSame, <1>18 DEF PairLands, Vouched, shared, Goto, TypeOK
  <1>19. CASE Gc
    <2> DEFINE left == local \cap (refd \cup UNION {Closure(f) : f \in {h \in Fetchers : kept[h]}})
    <2>1. local' = left /\ UNCHANGED <<pc, alt, kept, remote>>
      BY <1>19 DEF Gc
    <2>2. hit[g] \subseteq hit'[g] /\ ((local \ left) \cap Closure(g) # {} => Loss(g) \subseteq hit'[g])
      BY <1>19 DEF Gc, TypeOK
    <2>3. kept[g] => Closure(g) \cap local \subseteq left
      OBVIOUS
    <2> HIDE DEF left
    <2>4. (local \ left) \cap Closure(g) = {} => Closure(g) \cap local \subseteq left
      OBVIOUS
    <2>5. Closure(g)' = Closure(g) /\ AltObjects(g)' = AltObjects(g)
      BY <2>1, Constancy, AltSame
    <2>6. CASE pc[g] \in {"check", "install"}
      <3>1. Loss(g) = {"gc"}
        BY <2>6 DEF Loss
      <3>2. QED
        BY <2>1, <2>2, <2>4, <2>5, <2>6, <3>1 DEF Vouched
    <2>7. CASE pc[g] \in {"keep", "uptodate"}
      <3>1. Loss(g) = {"gap"}
        BY <2>7 DEF Loss
      <3>2. QED
        BY <2>1, <2>2, <2>4, <2>5, <2>7, <3>1 DEF Vouched
    <2>8. CASE pc[g] = "done"
      BY <2>1, <2>2, <2>3, <2>5, <2>8 DEF Vouched
    <2>9. CASE pc[g] \notin {"check", "install", "keep", "uptodate", "done"}
      BY <2>1, <2>9 DEF Vouched
    <2>10. QED
      BY <2>6, <2>7, <2>8, <2>9
  <1>20. CASE UNCHANGED vars
    BY <1>0, Constancy, AltSame, <1>20 DEF vars, shared, Vouched, shared, Goto, TypeOK
  <1>21. QED
    BY <1>1, <1>2, <1>3, <1>4, <1>4a, <1>5, <1>6, <1>7, <1>7a, <1>7b, <1>8, <1>9, <1>10, <1>11, <1>12,
       <1>13, <1>14, <1>15, <1>16, <1>17, <1>18, <1>19, <1>20 DEF Next, Step

\* A remote that serves f tells the truth about every pair it listed.
LEMMA ServesTruth ==
  ASSUME NEW f \in Fetchers, Listing, Stemmed(f), Serves(f)
  PROVE  \A p \in stems[f] : remote.pack[p] = p /\ remote.idx[p] = p
  BY DEF Listing, Stemmed, Serves

LEMMA CountingStep ==
  ASSUME NEW g \in Fetchers, TypeOK, remote' = remote, Listing', Stemmed(g)', Phased(g), Counting(g),
         Serves(g), hit'[g] = {}, ~Over(g)', NEW q \in stems'[g] \ todo'[g], side'[g][q] = "cache", [Next]_vars
  PROVE  OnHand(g, q)'
  <1>0. pc \in [Fetchers -> Phases]
    BY DEF TypeOK
  <1>t. q \in Packs /\ remote.idx[q] = q
    <2>1. q \in remote.first \cup remote.coming
      BY DEF Stemmed, Listing
    <2>2. q \in Packs
      BY <2>1, StartType DEF TypeOK
    <2>3. QED
      BY <2>1, <2>2 DEF Serves
  <1>1. ASSUME NEW f \in Fetchers, Begin(f) PROVE OnHand(g, q)'
    BY <1>0, <1>1 DEF Begin, Counting, OnHand, Over, shared, Goto, TypeOK
  <1>2. ASSUME NEW f \in Fetchers, List(f) PROVE OnHand(g, q)'
    BY <1>0, <1>2 DEF List, Counting, OnHand, Over, shared, Goto, TypeOK
  <1>3. ASSUME NEW f \in Fetchers, Prune(f) PROVE OnHand(g, q)'
    <2>1. PICK lost \in SUBSET (Packs \ stems[f]) : Drop(f, lost)
      BY <1>3 DEF Prune
    <2>2. UNCHANGED <<stems, side, todo, plan>> /\ q \in stems[g] \ todo[g]
      BY <1>3 DEF Prune
    <2>p. ~Over(g) /\ (pc[g] = "pairget" => pc'[g] = "pairget")
      BY <1>0, <1>3 DEF Prune, Goto, Over
    <2>3. hit[g] = {} /\ g \notin Robbed(f, lost)
      BY <2>1 DEF Drop, TypeOK
    <2>4. q \notin lost
      BY <1>t, <2>1, <2>2, <2>p, <2>3 DEF Robbed
    <2>5. cache'[q] = cache[q]
      BY <1>t, <2>1, <2>4 DEF Drop
    <2>6. QED
      BY <2>2, <2>p, <2>3, <2>5 DEF Counting, OnHand
  <1>4. ASSUME NEW f \in Fetchers, NEW p \in Packs, Ensure(f, p) PROVE OnHand(g, q)'
    BY <1>0, <1>4, <1>t DEF Ensure, Counting, OnHand, Over, shared, Goto, TypeOK, Downloaded, Installed
  <1>4a. ASSUME NEW f \in Fetchers, NEW p \in Packs, Show(f, p) PROVE OnHand(g, q)'
    BY <1>0, <1>4a, <1>t DEF Show, Counting, OnHand, Over, shared, Goto, TypeOK, Downloaded, Installed
  <1>5. ASSUME NEW f \in Fetchers, NEW p \in Packs, Evict(f, p) PROVE OnHand(g, q)'
    <2>1. UNCHANGED <<stems, side, todo, plan>>
      BY <1>5 DEF Evict
    <2>2. pc[f] \in {"bad", "heal", "pair"} /\ pc' = [pc EXCEPT ![f] = Refreshing[pc[f]]]
      BY <1>5 DEF Evict, Refreshing, Goto
    <2>3. ~Over(g) /\ pc[f] # "pairget" /\ (f # g => pc'[g] = pc[g])
      BY <1>0, <2>2 DEF Over
    <2>4. hit[g] = {}
      <3>1. CASE Drop(f, {p})
        BY <3>1 DEF Drop, TypeOK
      <3>2. QED
        BY <1>5, <3>1 DEF Evict
    <2>5. cache[q] \in Packs \/ (f # g /\ pc'[g] = "pairget" /\ First(q, plan'[g]))
      BY <2>1, <2>3, <2>4 DEF Counting, OnHand
    <2>6. CASE cache'[q] = cache[q]
      BY <2>5, <2>6 DEF OnHand
    <2>7. CASE Drop(f, {p}) /\ q = p
      <3>1. f = g
        BY <2>1, <2>3, <2>4, <2>7 DEF Drop, Robbed, TypeOK
      <3>2. pc[f] = "pair" /\ First(p, plan[f])
        BY <1>5, <2>1, <2>7, <3>1 DEF Evict, First, Refreshing
      <3>3. QED
        BY <1>0, <2>1, <2>2, <2>7, <3>1, <3>2 DEF Refreshing, OnHand
    <2>8. QED
      <3>1. CASE Drop(f, {p})
        BY <1>t, <2>6, <2>7, <3>1 DEF Drop
      <3>2. QED
        BY <1>5, <2>6, <3>1 DEF Evict
  <1>6. ASSUME NEW f \in Fetchers, NEW p \in Packs, Refresh(f, p) PROVE OnHand(g, q)'
    <2>1. UNCHANGED <<stems, plan, hit>> /\ Downloaded(f, p)
      BY <1>6 DEF Refresh
    <2>2. ~Over(g)
      BY <1>0, <1>6 DEF Refresh, Goto, Over
    <2>3. f = g => q # p
      BY <2>1 DEF Downloaded, Installed, TypeOK
    <2>4. q \in stems[g] \ todo[g] /\ side[g][q] = "cache"
      <3>1. todo'[g] = todo[g] \/ (g = f /\ todo'[g] = todo[g] \ {p})
        BY <1>6 DEF Refresh, TypeOK
      <3>2. side'[g][q] = side[g][q]
        BY <1>t, <2>1, <2>3 DEF Downloaded, Installed, TypeOK
      <3>3. QED
        BY <2>1, <2>3, <3>1, <3>2
    <2>5. cache[q] \in Packs \/ (pc[g] = "pairget" /\ First(q, plan[g]))
      BY <2>1, <2>2, <2>4 DEF Counting, OnHand
    <2>6. cache'[q] = cache[q] \/ cache'[q] = q
      BY <1>t, <2>1 DEF Downloaded, Installed, TypeOK
    <2>7. f # g => pc'[g] = pc[g]
      BY <1>0, <1>6 DEF Refresh, Goto
    <2>8. f = g => ~(pc[g] = "pairget" /\ First(q, plan[g]))
      BY <1>6, <2>3, OneFirst DEF Refresh, TypeOK
    <2>9. QED
      BY <1>t, <2>1, <2>5, <2>6, <2>7, <2>8 DEF OnHand
  <1>7. ASSUME NEW f \in Fetchers, Rebuild(f) PROVE OnHand(g, q)'
    BY <1>0, <1>7 DEF Rebuild, Counting, OnHand, Over, shared, Goto, TypeOK
  <1>7a. ASSUME NEW f \in Fetchers, NEW p \in Packs, ReadIndex(f, p) PROVE OnHand(g, q)'
    BY <1>0, <1>7a DEF ReadIndex, Counting, OnHand, Over, shared, Goto, TypeOK
  <1>7b. ASSUME NEW f \in Fetchers, MapDone(f) PROVE OnHand(g, q)'
    BY <1>0, <1>7b DEF MapDone, Counting, OnHand, Over, shared, Goto, TypeOK
  <1>8. ASSUME NEW f \in Fetchers, Plan(f) PROVE OnHand(g, q)'
    BY <1>0, <1>8 DEF Plan, Counting, OnHand, Over, shared, Goto, TypeOK, Suspect
  <1>9. ASSUME NEW f \in Fetchers, HealList(f) PROVE OnHand(g, q)'
    BY <1>0, <1>9 DEF HealList, Counting, OnHand, Over, shared, Goto, TypeOK
  <1>10. ASSUME NEW f \in Fetchers, NEW p \in Packs, Download(f, p) PROVE OnHand(g, q)'
    BY <1>0, <1>10 DEF Download, Counting, OnHand, Over, shared, Goto, TypeOK, Suspect, Publish
  <1>11. ASSUME NEW f \in Fetchers, NEW p \in Packs, Repair(f, p) PROVE OnHand(g, q)'
    BY <1>0, <1>11 DEF Repair, Counting, OnHand, Over, shared, Goto, TypeOK, Publish
  <1>12. ASSUME NEW f \in Fetchers, Check(f) PROVE OnHand(g, q)'
    BY <1>0, <1>12 DEF Check, Counting, OnHand, Over, shared, Goto, TypeOK
  <1>13. ASSUME NEW f \in Fetchers, Install(f) PROVE OnHand(g, q)'
    BY <1>0, <1>13 DEF Install, Counting, OnHand, Over, shared, Goto, TypeOK
  <1>14. ASSUME NEW f \in Fetchers, Keep(f) PROVE OnHand(g, q)'
    BY <1>0, <1>14 DEF Keep, Counting, OnHand, Over, shared, Goto, TypeOK
  <1>15. ASSUME NEW f \in Fetchers, Trouble(f) PROVE OnHand(g, q)'
    <2>1. f # g
      BY <1>0, <1>15 DEF Trouble, Goto, Over
    <2>2. pc'[g] = pc[g] /\ stems'[g] = stems[g] /\ side'[g] = side[g] /\ todo'[g] = todo[g] /\ plan'[g] = plan[g]
      BY <1>0, <1>15, <2>1 DEF Trouble, Goto, Forget, TypeOK
    <2>3. cache' = cache /\ hit[g] = {}
      BY <1>15, <2>1 DEF Trouble, shared, TypeOK
    <2>4. QED
      BY <2>2, <2>3 DEF Counting, OnHand, Over
  <1>16. ASSUME NEW f \in Fetchers, Die(f) PROVE OnHand(g, q)'
    <2>1. f # g
      BY <1>0, <1>16 DEF Die, Goto, Over
    <2>2. pc'[g] = pc[g] /\ stems'[g] = stems[g] /\ side'[g] = side[g] /\ todo'[g] = todo[g] /\ plan'[g] = plan[g]
      BY <1>0, <1>16, <2>1 DEF Die, Goto, Forget, TypeOK
    <2>3. cache' = cache /\ hit[g] = {}
      BY <1>16, <2>1 DEF Die, shared, TypeOK
    <2>4. QED
      BY <2>2, <2>3 DEF Counting, OnHand, Over
  <1>17. ASSUME NEW f \in Fetchers, GitUpdates(f) PROVE OnHand(g, q)'
    BY <1>0, <1>17 DEF GitUpdates, Counting, OnHand, Over, shared, Goto, TypeOK
  <1>18. ASSUME NEW p \in Packs, PairLands(p) PROVE OnHand(g, q)'
    BY <1>0, <1>18 DEF PairLands, Counting, OnHand, Over, shared, Goto, TypeOK
  <1>19. CASE Gc
    BY <1>0, <1>19 DEF Gc, Counting, OnHand, Over, shared, Goto, TypeOK
  <1>20. CASE UNCHANGED vars
    BY <1>0, <1>20 DEF vars, shared, Counting, OnHand, Over, shared, Goto, TypeOK
  <1>21. QED
    BY <1>1, <1>2, <1>3, <1>4, <1>4a, <1>5, <1>6, <1>7, <1>7a, <1>7b, <1>8, <1>9, <1>10, <1>11, <1>12,
       <1>13, <1>14, <1>15, <1>16, <1>17, <1>18, <1>19, <1>20 DEF Next, Step

LEMMA HealingStep ==
  ASSUME NEW g \in Fetchers, TypeOK, remote' = remote, Listing, Stemmed(g), Phased(g), Healing(g),
         Serves(g), ~Over(g)', [Next]_vars
  PROVE  Healing(g)'
  <1>0. pc \in [Fetchers -> Phases]
    BY DEF TypeOK
  <1>t. \A q \in stems[g] : remote.idx[q] = q
    BY ServesTruth
  <1>1. ASSUME NEW f \in Fetchers, Begin(f) PROVE Healing(g)'
    BY <1>0, <1>1 DEF Begin, Healing, Over, shared, Goto, TypeOK
  <1>2. ASSUME NEW f \in Fetchers, List(f) PROVE Healing(g)'
    BY <1>0, <1>2 DEF List, Healing, Over, shared, Goto, TypeOK
  <1>3. ASSUME NEW f \in Fetchers, Prune(f) PROVE Healing(g)'
    BY <1>0, <1>3 DEF Prune, Healing, Over, shared, Goto, TypeOK
  <1>4. ASSUME NEW f \in Fetchers, NEW p \in Packs, Ensure(f, p) PROVE Healing(g)'
    <2>1. UNCHANGED <<remote, stems, claims, plan, healed>>
      BY <1>4 DEF Ensure
    <2>2. f # g => pc'[g] = pc[g] /\ todo'[g] = todo[g] /\ side'[g] = side[g]
      BY <1>0, <1>4 DEF Ensure, Goto, Downloaded, TypeOK
    <2>3. CASE f # g
      BY <2>1, <2>2, <2>3 DEF Healing, Over
    <2>4. CASE f = g
      <3>1. pc'[g] \in {"ensure", "show"}
        BY <1>0, <1>4, <2>4 DEF Ensure, Goto
      <3>2. QED
        BY <3>1 DEF Healing
    <2>5. QED
      BY <2>3, <2>4
  <1>4a. ASSUME NEW f \in Fetchers, NEW p \in Packs, Show(f, p) PROVE Healing(g)'
    BY <1>0, <1>4a DEF Show, Healing, Over, shared, Goto, TypeOK, Downloaded, Installed
  <1>5. ASSUME NEW f \in Fetchers, NEW p \in Packs, Evict(f, p) PROVE Healing(g)'
    BY <1>0, <1>5 DEF Evict, Healing, Over, shared, Goto, TypeOK, Refreshing
  <1>6. ASSUME NEW f \in Fetchers, NEW p \in Packs, Refresh(f, p) PROVE Healing(g)'
    BY <1>0, <1>6, OneFirst DEF Refresh, Healing, Over, shared, Goto, TypeOK, Downloaded, Installed, Unmapped
  <1>7. ASSUME NEW f \in Fetchers, Rebuild(f) PROVE Healing(g)'
    <2>1. UNCHANGED <<stems, side, todo, healed, plan>>
      BY <1>7 DEF Rebuild
    <2>2. f # g => pc'[g] = pc[g] /\ claims'[g] = claims[g]
      BY <1>0, <1>7 DEF Rebuild, Goto, Unmapped, TypeOK
    <2>3. CASE f # g
      BY <2>1, <2>2, <2>3 DEF Healing, Over
    <2>4. CASE f = g
      <3>1. pc'[g] = "map" /\ pc[g] \in {"ensure", "heal"} /\ todo[g] = {}
        BY <1>0, <1>7, <2>4 DEF Rebuild, Goto
      <3>2. healed[g] => \A q \in stems[g] : side[g][q] = "own"
        BY <3>1 DEF Phased, Healing, Over
      <3>3. \A q \in stems[g] : claims'[g][q] = NoFile
        BY <1>7, <2>4 DEF Rebuild, Unmapped, TypeOK
      <3>4. QED
        BY <2>1, <3>1, <3>2, <3>3 DEF Healing
    <2>5. QED
      BY <2>3, <2>4
  <1>7a. ASSUME NEW f \in Fetchers, NEW p \in Packs, ReadIndex(f, p) PROVE Healing(g)'
    <2>1. UNCHANGED <<stems, side, todo, healed, plan>>
      BY <1>7a DEF ReadIndex
    <2>2. pc'[g] = pc[g] /\ ~Over(g)
      BY <1>0, <1>7a DEF ReadIndex, Goto, Over
    <2>3. CASE claims'[g] = claims[g]
      BY <2>1, <2>2, <2>3 DEF Healing
    <2>4. CASE claims'[g] # claims[g]
      <3>1. f = g /\ claims'[g] = [claims[g] EXCEPT ![p] = Read(g, p)] /\ pc[g] \in {"map", "repair"}
        BY <1>7a, <2>4 DEF ReadIndex, TypeOK
      <3>2. \A q \in stems[g] : claims'[g][q] = claims[g][q] \/ (q = p /\ claims'[g][q] = Read(g, q))
        BY <3>1 DEF TypeOK
      <3>3. \A q \in stems[g] : side[g][q] = "own" => Read(g, q) = q
        BY <1>t DEF Read
      <3>4. QED
        BY <2>1, <2>2, <3>1, <3>2, <3>3 DEF Healing
    <2>5. QED
      BY <2>3, <2>4
  <1>7b. ASSUME NEW f \in Fetchers, MapDone(f) PROVE Healing(g)'
    <2>1. UNCHANGED <<stems, side, todo, healed, plan, claims>>
      BY <1>7b DEF MapDone
    <2>2. f # g => pc'[g] = pc[g]
      BY <1>0, <1>7b DEF MapDone, Goto
    <2>3. CASE f # g
      BY <2>1, <2>2, <2>3 DEF Healing, Over
    <2>4. CASE f = g
      <3>1. pc'[g] = "plan" /\ pc[g] = "map" /\ \A q \in stems[g] : claims[g][q] # NoFile
        BY <1>0, <1>7b, <2>4 DEF MapDone, Goto, Unread
      <3>2. QED
        BY <2>1, <2>4, <3>1 DEF Healing, Over
    <2>5. QED
      BY <2>3, <2>4
  <1>8. ASSUME NEW f \in Fetchers, Plan(f) PROVE Healing(g)'
    BY <1>0, <1>8 DEF Plan, Healing, Over, shared, Goto, TypeOK, Suspect
  <1>9. ASSUME NEW f \in Fetchers, HealList(f) PROVE Healing(g)'
    BY <1>0, <1>9 DEF HealList, Healing, Over, shared, Goto, TypeOK
  <1>10. ASSUME NEW f \in Fetchers, NEW p \in Packs, Download(f, p) PROVE Healing(g)'
    <2>1. UNCHANGED <<stems, side, claims>>
      BY <1>10 DEF Download
    <2>2. healed'[g] /\ pc'[g] \in {"plan", "download", "pair", "pairget"} =>
              healed[g] /\ pc[g] \in {"plan", "download", "pair", "pairget"}
      BY <1>0, <1>10 DEF Download, Suspect, Publish, Goto, TypeOK
    <2>3. pc'[g] \in {"heal", "healget", "map", "repair"} => f # g
      BY <1>0, <1>10 DEF Download, Suspect, Publish, Goto
    <2>4. f # g => pc'[g] = pc[g] /\ plan'[g] = plan[g]
      BY <1>0, <1>10 DEF Download, Suspect, Publish, Goto, TypeOK
    <2>5. todo' = todo /\ ~Over(g)
      BY <1>0, <2>4, <1>10 DEF Download, Over
    <2>6. f # g => healed'[g] = healed[g]
      BY <1>10 DEF Download, Suspect, TypeOK
    <2>7. QED
      BY <2>1, <2>2, <2>3, <2>4, <2>5, <2>6 DEF Healing
  <1>11. ASSUME NEW f \in Fetchers, NEW p \in Packs, Repair(f, p) PROVE Healing(g)'
    <2>1. UNCHANGED <<stems, side, claims, todo, healed>>
      BY <1>11 DEF Repair
    <2>2. f # g => pc'[g] = pc[g] /\ plan'[g] = plan[g]
      BY <1>0, <1>11 DEF Repair, Goto, Publish, TypeOK
    <2>3. CASE f # g
      BY <2>1, <2>2, <2>3 DEF Healing, Over
    <2>4. CASE f = g
      <3>1. pc'[g] = "plan" /\ pc[g] = "repair" /\ \A q \in stems[g] : claims[g][q] # NoFile
        BY <1>0, <1>11, <2>4 DEF Repair, Publish, Goto, Over, Unread
      <3>2. QED
        BY <2>1, <3>1 DEF Healing, Over
    <2>5. QED
      BY <2>3, <2>4
  <1>12. ASSUME NEW f \in Fetchers, Check(f) PROVE Healing(g)'
    BY <1>0, <1>12 DEF Check, Healing, Over, shared, Goto, TypeOK
  <1>13. ASSUME NEW f \in Fetchers, Install(f) PROVE Healing(g)'
    BY <1>0, <1>13 DEF Install, Healing, Over, shared, Goto, TypeOK
  <1>14. ASSUME NEW f \in Fetchers, Keep(f) PROVE Healing(g)'
    BY <1>0, <1>14 DEF Keep, Healing, Over, shared, Goto, TypeOK
  <1>15. ASSUME NEW f \in Fetchers, Trouble(f) PROVE Healing(g)'
    BY <1>0, <1>15 DEF Trouble, Healing, Over, shared, Goto, TypeOK, Forget, Unmapped
  <1>16. ASSUME NEW f \in Fetchers, Die(f) PROVE Healing(g)'
    BY <1>0, <1>16 DEF Die, Healing, Over, shared, Goto, TypeOK, Forget, Unmapped
  <1>17. ASSUME NEW f \in Fetchers, GitUpdates(f) PROVE Healing(g)'
    BY <1>0, <1>17 DEF GitUpdates, Healing, Over, shared, Goto, TypeOK
  <1>18. ASSUME NEW p \in Packs, PairLands(p) PROVE Healing(g)'
    BY <1>0, <1>18 DEF PairLands, Healing, Over, shared, Goto, TypeOK
  <1>19. CASE Gc
    BY <1>0, <1>19 DEF Gc, Healing, Over, shared, Goto, TypeOK
  <1>20. CASE UNCHANGED vars
    BY <1>0, <1>20 DEF vars, shared, Healing, Over, shared, Goto, TypeOK
  <1>21. QED
    BY <1>1, <1>2, <1>3, <1>4, <1>4a, <1>5, <1>6, <1>7, <1>7a, <1>7b, <1>8, <1>9, <1>10, <1>11, <1>12,
       <1>13, <1>14, <1>15, <1>16, <1>17, <1>18, <1>19, <1>20 DEF Next, Step

LEMMA HitGrows ==
  ASSUME NEW g \in Fetchers, TypeOK, [Next]_vars
  PROVE  hit[g] \subseteq hit'[g]
  <1>1. ASSUME NEW f \in Fetchers, Begin(f) PROVE hit[g] \subseteq hit'[g]
    BY <1>1 DEF Begin, TypeOK, shared
  <1>2. ASSUME NEW f \in Fetchers, List(f) PROVE hit[g] \subseteq hit'[g]
    BY <1>2 DEF List, TypeOK, shared
  <1>3. ASSUME NEW f \in Fetchers, Prune(f) PROVE hit[g] \subseteq hit'[g]
    BY <1>3 DEF Prune, TypeOK, shared, Drop
  <1>4. ASSUME NEW f \in Fetchers, NEW p \in Packs, Ensure(f, p) PROVE hit[g] \subseteq hit'[g]
    BY <1>4 DEF Ensure, TypeOK, shared
  <1>4a. ASSUME NEW f \in Fetchers, NEW p \in Packs, Show(f, p) PROVE hit[g] \subseteq hit'[g]
    BY <1>4a DEF Show, TypeOK, shared
  <1>5. ASSUME NEW f \in Fetchers, NEW p \in Packs, Evict(f, p) PROVE hit[g] \subseteq hit'[g]
    <2>1. CASE Drop(f, {p})
      BY <2>1 DEF Drop, TypeOK
    <2>2. QED
      BY <1>5, <2>1 DEF Evict
  <1>6. ASSUME NEW f \in Fetchers, NEW p \in Packs, Refresh(f, p) PROVE hit[g] \subseteq hit'[g]
    BY <1>6 DEF Refresh, TypeOK, shared
  <1>7. ASSUME NEW f \in Fetchers, Rebuild(f) PROVE hit[g] \subseteq hit'[g]
    BY <1>7 DEF Rebuild, TypeOK, shared
  <1>7a. ASSUME NEW f \in Fetchers, NEW p \in Packs, ReadIndex(f, p) PROVE hit[g] \subseteq hit'[g]
    BY <1>7a DEF ReadIndex, TypeOK, shared
  <1>7b. ASSUME NEW f \in Fetchers, MapDone(f) PROVE hit[g] \subseteq hit'[g]
    BY <1>7b DEF MapDone, TypeOK, shared
  <1>8. ASSUME NEW f \in Fetchers, Plan(f) PROVE hit[g] \subseteq hit'[g]
    BY <1>8 DEF Plan, TypeOK, shared
  <1>9. ASSUME NEW f \in Fetchers, HealList(f) PROVE hit[g] \subseteq hit'[g]
    BY <1>9 DEF HealList, TypeOK, shared
  <1>10. ASSUME NEW f \in Fetchers, NEW p \in Packs, Download(f, p) PROVE hit[g] \subseteq hit'[g]
    BY <1>10 DEF Download, TypeOK, shared
  <1>11. ASSUME NEW f \in Fetchers, NEW p \in Packs, Repair(f, p) PROVE hit[g] \subseteq hit'[g]
    BY <1>11 DEF Repair, TypeOK, shared
  <1>12. ASSUME NEW f \in Fetchers, Check(f) PROVE hit[g] \subseteq hit'[g]
    BY <1>12 DEF Check, TypeOK, shared
  <1>13. ASSUME NEW f \in Fetchers, Install(f) PROVE hit[g] \subseteq hit'[g]
    BY <1>13 DEF Install, TypeOK, shared
  <1>14. ASSUME NEW f \in Fetchers, Keep(f) PROVE hit[g] \subseteq hit'[g]
    BY <1>14 DEF Keep, TypeOK, shared
  <1>15. ASSUME NEW f \in Fetchers, Trouble(f) PROVE hit[g] \subseteq hit'[g]
    BY <1>15 DEF Trouble, TypeOK, shared
  <1>16. ASSUME NEW f \in Fetchers, Die(f) PROVE hit[g] \subseteq hit'[g]
    BY <1>16 DEF Die, TypeOK, shared
  <1>17. ASSUME NEW f \in Fetchers, GitUpdates(f) PROVE hit[g] \subseteq hit'[g]
    BY <1>17 DEF GitUpdates, TypeOK, shared
  <1>18. ASSUME NEW p \in Packs, PairLands(p) PROVE hit[g] \subseteq hit'[g]
    BY <1>18 DEF PairLands, TypeOK, shared
  <1>19. CASE Gc
    BY <1>19 DEF Gc, TypeOK, shared
  <1>20. CASE UNCHANGED vars
    BY <1>20 DEF vars, shared, TypeOK, shared
  <1>21. QED
    BY <1>1, <1>2, <1>3, <1>4, <1>4a, <1>5, <1>6, <1>7, <1>7a, <1>7b, <1>8, <1>9, <1>10, <1>11, <1>12,
       <1>13, <1>14, <1>15, <1>16, <1>17, <1>18, <1>19, <1>20 DEF Next, Step

LEMMA FailsStep ==
  ASSUME NEW g \in Fetchers, TypeOK, Listing, Stemmed(g), Wanting(g), Phased(g), Quarantined(g), Vouched(g),
         Counting(g), Healing(g), pc[g] = "failed" => hit[g] # {},
         pc'[g] = "failed", Serves(g), hit'[g] = {}, [Next]_vars
  PROVE  FALSE
  <1>0. pc \in [Fetchers -> Phases]
    BY DEF TypeOK
  <1>h. hit[g] = {} /\ pc[g] # "failed"
    BY HitGrows
  <1>t. \A q \in stems[g] : remote.idx[q] = q /\ remote.pack[q] = q
    BY ServesTruth
  <1>1. ASSUME NEW f \in Fetchers, Begin(f) PROVE FALSE
    BY <1>0, <1>h, <1>1 DEF Begin, Goto
  <1>2. ASSUME NEW f \in Fetchers, List(f) PROVE FALSE
    <2>1. f = g /\ listed = {}
      BY <1>0, <1>2 DEF List, Goto
    <2>2. Closure(g) = {}
      BY <2>1 DEF Serves, Listing
    <2>3. QED
      BY <1>2, <2>1, <2>2 DEF List, Wanting, Over
  <1>3. ASSUME NEW f \in Fetchers, Prune(f) PROVE FALSE
    BY <1>0, <1>h, <1>3 DEF Prune, Goto
  <1>4. ASSUME NEW f \in Fetchers, NEW p \in Packs, Ensure(f, p) PROVE FALSE
    BY <1>0, <1>h, <1>4 DEF Ensure, Goto
  <1>4a. ASSUME NEW f \in Fetchers, NEW p \in Packs, Show(f, p) PROVE FALSE
    BY <1>0, <1>h, <1>4a DEF Show, Goto
  <1>5. ASSUME NEW f \in Fetchers, NEW p \in Packs, Evict(f, p) PROVE FALSE
    BY <1>0, <1>h, <1>5 DEF Evict, Goto, Refreshing
  <1>6. ASSUME NEW f \in Fetchers, NEW p \in Packs, Refresh(f, p) PROVE FALSE
    BY <1>0, <1>h, <1>6 DEF Refresh, Goto
  <1>7. ASSUME NEW f \in Fetchers, Rebuild(f) PROVE FALSE
    BY <1>0, <1>h, <1>7 DEF Rebuild, Goto
  <1>7a. ASSUME NEW f \in Fetchers, NEW p \in Packs, ReadIndex(f, p) PROVE FALSE
    <2>1. f = g /\ Read(g, p) \notin Packs /\ pc[g] \in {"map", "repair"} /\ p \in stems[g]
      BY <1>0, <1>h, <1>7a DEF ReadIndex, Goto, Unread
    <2>2. side[g][p] = "cache"
      BY <1>t, <2>1 DEF Read, TypeOK
    <2>3. todo[g] = {}
      BY <2>1 DEF Phased
    <2>4. cache[p] \in Packs
      BY <1>h, <2>1, <2>2, <2>3 DEF Counting, OnHand, Over
    <2>5. QED
      BY <2>1, <2>2, <2>4 DEF Read
  <1>7b. ASSUME NEW f \in Fetchers, MapDone(f) PROVE FALSE
    BY <1>0, <1>h, <1>7b DEF MapDone, Goto
  <1>8. ASSUME NEW f \in Fetchers, Plan(f) PROVE FALSE
    <2>1. f = g /\ pc[g] = "plan" /\ Suspect(g) /\ healed[g]
      BY <1>0, <1>8 DEF Plan, Suspect, Goto
    <2>2. PICK o \in Missing(g, local \cup AltObjects(g)) : Fresh(g, o) = {}
      BY <1>0, <1>8, <2>1 DEF Plan, Goto
    <2>3. o \in Closure(g) /\ o \notin AltObjects(g)
      BY <2>2, MissingInClosure DEF TypeOK
    <2>4. PICK p \in remote.first : o \in Holds[p]
      BY <2>3 DEF Serves
    <2>5. p \in Packs /\ p \in stems[g]
      BY <2>1, <2>4 DEF Stemmed, Over, TypeOK
    <2>6. claims[g][p] = p
      BY <2>1, <2>5 DEF Healing, Over
    <2>7. p \in Candidates(g, o)
      BY <2>4, <2>5, <2>6, FetchConstants DEF Candidates, Bytes
    <2>8. alt[g][p] = [pack |-> p, idx |-> p]
      BY <2>2, <2>5, <2>7 DEF Fresh, Published, Quarantined, NoPair
    <2>9. o \in AltObjects(g)
      BY <2>4, <2>5, <2>8 DEF AltObjects, Readable
    <2>10. QED
      BY <2>3, <2>9
  <1>9. ASSUME NEW f \in Fetchers, HealList(f) PROVE FALSE
    <2>1. f = g /\ listed = {}
      BY <1>0, <1>9 DEF HealList, Goto
    <2>2. Closure(g) = {}
      BY <2>1 DEF Serves, Listing
    <2>3. QED
      BY <1>9, <2>1, <2>2 DEF HealList, Wanting, Over
  <1>10. ASSUME NEW f \in Fetchers, NEW p \in Packs, Download(f, p) PROVE FALSE
    <2>1. f = g /\ pc[g] = "download" /\ p \in plan[g]
      <3>1. pc[f] = "download" /\ p \in plan[f]
        BY <1>10 DEF Download, First
      <3>2. f # g => pc'[g] = pc[g]
        BY <1>0, <1>10 DEF Download, Suspect, Publish, Goto
      <3>3. QED
        BY <1>h, <3>1, <3>2
    <2>2. Suspect(g) /\ healed[g]
      BY <1>0, <1>10, <2>1 DEF Download, Suspect, Publish, Goto
    <2>3. p \in stems[g] /\ side[g][p] = "own"
      BY <2>1, <2>2 DEF Stemmed, Healing, Over
    <2>4. Named(p) /\ Read(g, p) = p
      BY <1>t, <2>3 DEF Named, Read
    <2>5. Read(g, p) # NoFile
      BY <2>4, FetchConstants DEF Bytes
    <2>6. hit'[g] # {}
      <3>1. ~Goto(f, "pair") /\ ~Publish(f, p, plan[f] \ {p})
        BY <1>0, <2>1 DEF Publish, Goto
      <3>2. hit' = [hit EXCEPT ![f] = @ \cup {"call"}]
        BY <1>10, <2>1, <2>4, <2>5, <3>1 DEF Download
      <3>3. QED
        BY <2>1, <3>2 DEF TypeOK
    <2>7. QED
      BY <2>6
  <1>11. ASSUME NEW f \in Fetchers, NEW p \in Packs, Repair(f, p) PROVE FALSE
    <2>1. f = g /\ pc[g] = "repair" /\ First(p, plan[g]) /\ ~Verified(p, Read(g, p))
      BY <1>0, <1>h, <1>11 DEF Repair, Publish, Goto
    <2>2. p \in stems[g] /\ side[g][p] = "own"
      BY <2>1 DEF Stemmed, Healing, Over, First
    <2>3. QED
      BY <1>t, <2>1, <2>2 DEF Verified, Read
  <1>12. ASSUME NEW f \in Fetchers, Check(f) PROVE FALSE
    <2>1. f = g /\ pc[g] = "check" /\ ~Complete(g, local \cup AltObjects(g))
      BY <1>0, <1>12 DEF Check, Goto
    <2>2. Closure(g) \subseteq local \cup AltObjects(g)
      BY <1>h, <2>1 DEF Vouched
    <2>3. QED
      BY <2>1, <2>2, CompleteIf DEF TypeOK
  <1>13. ASSUME NEW f \in Fetchers, Install(f) PROVE FALSE
    <2>1. f = g /\ pc[g] = "install" /\ ~((Closure(g) \ refd) \subseteq local \cup AltObjects(g))
      BY <1>0, <1>13 DEF Install, CanPack, NewObjects, Goto
    <2>2. Closure(g) \subseteq local \cup AltObjects(g)
      BY <1>h, <2>1 DEF Vouched
    <2>3. QED
      BY <2>1, <2>2
  <1>14. ASSUME NEW f \in Fetchers, Keep(f) PROVE FALSE
    BY <1>0, <1>h, <1>14 DEF Keep, Goto
  <1>15. ASSUME NEW f \in Fetchers, Trouble(f) PROVE FALSE
    BY <1>0, <1>h, <1>15 DEF Trouble, Goto, TypeOK
  <1>16. ASSUME NEW f \in Fetchers, Die(f) PROVE FALSE
    BY <1>0, <1>h, <1>16 DEF Die, Goto
  <1>17. ASSUME NEW f \in Fetchers, GitUpdates(f) PROVE FALSE
    BY <1>0, <1>h, <1>17 DEF GitUpdates, Goto
  <1>18. ASSUME NEW p \in Packs, PairLands(p) PROVE FALSE
    BY <1>0, <1>h, <1>18 DEF PairLands, Goto
  <1>19. CASE Gc
    BY <1>0, <1>h, <1>19 DEF Gc, Goto
  <1>20. CASE UNCHANGED vars
    BY <1>0, <1>h, <1>20 DEF vars, shared, Goto
  <1>21. QED
    BY <1>1, <1>2, <1>3, <1>4, <1>4a, <1>5, <1>6, <1>7, <1>7a, <1>7b, <1>8, <1>9, <1>10, <1>11, <1>12,
       <1>13, <1>14, <1>15, <1>16, <1>17, <1>18, <1>19, <1>20 DEF Next, Step

-----------------------------------------------------------------------------
(* The invariant, and what follows from it. *)

LEMMA InvInit == Init => IInv
  <1> SUFFICES ASSUME Init PROVE IInv
    OBVIOUS
  <1> USE DEF Init
  <1>1. Listing
    BY StartType DEF Listing
  <1>2. ASSUME NEW f \in Fetchers PROVE Stemmed(f) /\ Wanting(f) /\ Phased(f) /\ Paired(f)
    <2>1. remote.wants[f] = {} => Over(f)
      BY DEF Over
    <2>2. Wanting(f)
      BY <2>1, WantsInClosure DEF Wanting
    <2>3. Stemmed(f)
      <3>1. \A p \in Packs : claims[f][p] = NoFile
        OBVIOUS
      <3>2. pc[f] \notin {"start", "list"} => Over(f)
        BY DEF Over
      <3>3. QED
        BY <3>1, <3>2 DEF Stemmed
    <2>4. Phased(f) /\ Paired(f)
      BY DEF Phased, Paired
    <2>5. QED
      BY <2>2, <2>3, <2>4
  <1>3. ASSUME NEW f \in Fetchers PROVE Quarantined(f) /\ Vouched(f) /\ Counting(f) /\ Healing(f)
    BY DEF Quarantined, Vouched, Counting, Healing
  <1>4. FailsOnlyForCause
    BY DEF FailsOnlyForCause
  <1>5. QED
    BY <1>1, <1>2, <1>3, <1>4 DEF IInv

LEMMA InvStep == TypeOK /\ TypeOK' /\ IInv /\ [Next]_vars => IInv'
  <1> SUFFICES ASSUME TypeOK, TypeOK', IInv, [Next]_vars PROVE IInv'
    OBVIOUS
  <1>1. remote' = remote
    BY RemoteStays
  <1>2. Listing /\ Listing'
    BY ListingStep DEF IInv
  <1>3. ASSUME NEW g \in Fetchers
        PROVE  Stemmed(g)' /\ Wanting(g)' /\ Phased(g)' /\ Paired(g)' /\ Quarantined(g)' /\ Vouched(g)'
    <2>1. Stemmed(g) /\ Wanting(g) /\ Phased(g) /\ Paired(g) /\ Quarantined(g) /\ Vouched(g)
      BY DEF IInv
    <2>2. Stemmed(g)' /\ Wanting(g)' /\ Phased(g)'
      BY <1>1, <1>2, <2>1, StemmedStep, WantingStep, PhasedStep
    <2>3. Paired(g)' /\ Quarantined(g)' /\ Vouched(g)'
      BY <1>1, <2>1, PairedStep, QuarantinedStep, VouchedStep
    <2>4. QED
      BY <2>2, <2>3
  <1>4. ASSUME NEW g \in Fetchers PROVE Counting(g)'
    <2>1. SUFFICES ASSUME Serves(g)', hit'[g] = {}, ~Over(g)',
                          NEW q \in stems'[g] \ todo'[g], side'[g][q] = "cache"
                   PROVE  OnHand(g, q)'
      BY DEF Counting, OnHand
    <2>2. Serves(g)
      BY <1>1, <2>1, Constancy
    <2>3. QED
      BY <1>1, <1>2, <1>3, <2>1, <2>2, CountingStep DEF IInv
  <1>5. ASSUME NEW g \in Fetchers PROVE Healing(g)'
    <2>1. CASE Serves(g)' /\ ~Over(g)'
      <3>1. Serves(g)
        BY <1>1, <2>1, Constancy
      <3>2. QED
        BY <1>1, <1>2, <2>1, <3>1, HealingStep DEF IInv
    <2>2. CASE ~(Serves(g)' /\ ~Over(g)')
      BY <2>2 DEF Healing
    <2>3. QED
      BY <2>1, <2>2
  <1>6. FailsOnlyForCause'
    <2>1. SUFFICES ASSUME NEW g \in Fetchers, pc'[g] = "failed", Serves(g)', hit'[g] = {}
                   PROVE  FALSE
      BY DEF FailsOnlyForCause
    <2>2. Serves(g)
      BY <1>1, <2>1, Constancy
    <2>3. QED
      BY <1>2, <2>1, <2>2, FailsStep DEF IInv, FailsOnlyForCause
  <1>7. QED
    BY <1>2, <1>3, <1>4, <1>5, <1>6 DEF IInv

LEMMA Invariant == Spec => []IInv
  <1>1. TypeOK /\ TypeOK' /\ IInv /\ [Next]_vars => IInv'
    BY InvStep
  <1>2. QED
    BY <1>1, InvInit, TypeCorrect, PTL DEF Spec

\* From a remote that has what is wanted, in sound pairs, a fetch fails only if
\* a call failed, if objects it had found were collected, or if another fetch
\* took an index away from it: a stale or false cache alone never fails it.
THEOREM FailsOnlyForCauseHolds == Spec => []FailsOnlyForCause
  <1>1. IInv => FailsOnlyForCause
    BY DEF IInv
  <1>2. QED
    BY <1>1, Invariant, PTL

\* What Fetch vouches for is in the local store until git has updated its
\* refs, but for what a collection takes while no .keep protects it yet.
THEOREM VouchedIsThereHolds == Spec => []VouchedIsThere
  <1>1. IInv => VouchedIsThere
    BY DEF IInv, Vouched, VouchedIsThere
  <1>2. QED
    BY <1>1, Invariant, PTL

\* Only packs that are what their names say leave the quarantine, each with
\* the index that is its own.
THEOREM OnlyVerifiedPublishedHolds == Spec => []OnlyVerifiedPublished
  <1>1. IInv => OnlyVerifiedPublished
    BY DEF IInv, Quarantined, OnlyVerifiedPublished
  <1>2. QED
    BY <1>1, Invariant, PTL

=============================================================================
