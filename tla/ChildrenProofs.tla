--------------------------- MODULE ChildrenProofs ---------------------------
(***************************************************************************)
(* The programs that are a parent with its children, and the file reader   *)
(* with threads, for any number of each.                                   *)
(*                                                                         *)
(* First the records that three of the programs keep of their children,    *)
(* whichever forks fail.  Then what the other three pass on: the bytes of  *)
(* a pipeline, a baton, and the chunks of a file.                          *)
(***************************************************************************)
EXTENDS Families, CommonFacts

Children == 1 .. MaxForks
States == {"none", "running", "stopped", "zombie", "collected"}

\* cv1-fork: nothing is counted before the pool begins; until the first fork
\* there is no child, which matters to the parent that leaves without waiting
\* when it was asked for none.
PoolInv ==
  /\ child \in [Children -> States]
  /\ failed \in Nat /\ i \in Nat /\ process_count \in Nat
  /\ pc \in {"fork all", "wait", "count", "fork", "poll", "ended"}
  /\ pc \in {"fork all", "wait"} => failed = 0
  /\ pc = "fork all" /\ i = 0 => pool!Uncollected = {}
  /\ pool!Counted

\* child_party: while main is about to store what it has loaded, the handler can
\* only have made the count smaller.
PartyInv ==
  /\ child \in [Children -> States]
  /\ running_childs \in Int /\ register \in Int /\ failed \in Nat /\ lost \in Int
  /\ pc \in {"load", "store", "fork"}
  /\ pc = "store" => register >= running_childs
  /\ party!Counted

\* stopping: a child that was forked runs until a key stops it; the loop of 'q'
\* leaves no child behind it that runs or is stopped.
StoppingInv ==
  /\ child \in [Children -> States]
  /\ child_pids \in [Children -> {"unset", "child", "error"}]
  /\ stopped \subseteq Children
  /\ i \in 0 .. MaxForks
  /\ pc \in {"fork", "keys", "kill", "wait", "ended"}
  /\ pc = "fork" => \A k \in 1 .. i : child_pids[k] # "unset"
  /\ pc = "keys" => \A k \in Children : child_pids[k] # "unset"
  /\ pc = "fork" =>
       /\ stopped = {}
       /\ \A k \in Children : child_pids[k] = "child" => child[k] = "running"
       /\ \A k \in Children : child[k] # "stopped"
  /\ pc = "keys" /\ (\A k \in Children : child_pids[k] = "child") =>
       \A k \in Children : child[k] = IF k \in stopped THEN "stopped" ELSE "running"
  /\ pc = "keys" /\ (\A k \in stopped : child_pids[k] = "child") =>
       \A k \in Children : child[k] = "stopped" => k \in stopped
  /\ pc = "kill" => \A k \in 1 .. i : child[k] \notin {"running", "stopped"}
  /\ pc \in {"wait", "ended"} => \A k \in Children : child[k] \notin {"running", "stopped"}

RecordsInv ==
  /\ program = "pool" => PoolInv
  /\ program = "party" => PartyInv
  /\ program = "stopping" => StoppingInv

-----------------------------------------------------------------------------
(* The children not yet collected, by what is done to them.                *)

Alive == {"running", "zombie"}
Living == Cardinality(Among(Children, child, Alive))

\* Each INSTANCE has a Cardinality of its own, which is the same.
LEMMA SameCount ==
  ASSUME NEW s
  PROVE  pool!Cardinality(s) = Cardinality(s) /\ party!Cardinality(s) = Cardinality(s)
<1>1. pool!Cardinality(s) = Cardinality(s)
  BY DEF pool!Cardinality, Cardinality
<1>2. party!Cardinality(s) = Cardinality(s)
  BY DEF party!Cardinality, Cardinality
<1> QED BY <1>1, <1>2

\* The count of the two programs that count is this one.
LEMMA LivingIs ==
  /\ pool!Uncollected = Among(Children, child, Alive)
  /\ Living = pool!Cardinality(pool!Uncollected)
  /\ Living = party!Cardinality(party!Uncollected)
  /\ Living \in Nat
<1>1. /\ pool!Uncollected = Among(Children, child, Alive)
      /\ party!Uncollected = Among(Children, child, Alive)
  BY DEF pool!Uncollected, pool!In, pool!Children, party!Uncollected, party!In,
         party!Children, Among, Alive, Children
<1>2. Living \in Nat
  <2>1. IsFiniteSet(Children)
    BY ChildrenAssumption, FS_Interval DEF Children
  <2> QED BY <2>1, AmongCount DEF Living
<1> QED BY <1>1, <1>2, SameCount DEF Living

\* What a change of one child does to the number.
LEMMA ChildMoves ==
  ASSUME child \in [Children -> States], NEW c \in Children, NEW s \in States,
         child' = [child EXCEPT ![c] = s]
  PROVE  /\ child' \in [Children -> States]
         /\ Living' = Living + (IF s \in Alive THEN 1 ELSE 0)
                             - (IF child[c] \in Alive THEN 1 ELSE 0)
<1>1. child' \in [Children -> States]
  OBVIOUS
<1>2. child'[c] = s /\ \A d \in Children \ {c} : child'[d] = child[d]
  OBVIOUS
<1>3. IsFiniteSet(Children)
  BY ChildrenAssumption, FS_Interval DEF Children
<1>4. Cardinality(Among(Children, child', Alive))
        = Cardinality(Among(Children, child, Alive))
            + (IF child'[c] \in Alive THEN 1 ELSE 0) - (IF child[c] \in Alive THEN 1 ELSE 0)
  BY ONLY <1>2, <1>3, c \in Children, CountMove
<1> QED BY <1>1, <1>2, <1>4 DEF Living

\* A fork adds a child,
LEMMA ForkAdds ==
  ASSUME child \in [Children -> States], pool!Forked \/ party!Forked
  PROVE  child' \in [Children -> States] /\ Living' = Living + 1
<1>1. PICK c \in Children : child[c] = "none" /\ child' = [child EXCEPT ![c] = "running"]
  BY DEF pool!Forked, pool!In, pool!Children, party!Forked, party!In, party!Children, Children
<1>2. "running" \in States /\ "running" \in Alive /\ "none" \notin Alive
  BY DEF States, Alive
<1>3. /\ child' \in [Children -> States]
      /\ Living' = Living + (IF "running" \in Alive THEN 1 ELSE 0)
                          - (IF child[c] \in Alive THEN 1 ELSE 0)
  BY <1>1, <1>2, ChildMoves
<1> QED BY <1>1, <1>2, <1>3, LivingIs

\* its end does not change the number,
LEMMA DeathKeeps ==
  ASSUME child \in [Children -> States], NEW c \in Children, pool!Dies(c) \/ party!Dies(c)
  PROVE  child' \in [Children -> States] /\ Living' = Living
<1>1. child[c] = "running" /\ child' = [child EXCEPT ![c] = "zombie"]
  BY DEF pool!Dies, party!Dies
<1>2. "zombie" \in States /\ "running" \in Alive /\ "zombie" \in Alive
  BY DEF States, Alive
<1>3. /\ child' \in [Children -> States]
      /\ Living' = Living + (IF "zombie" \in Alive THEN 1 ELSE 0)
                          - (IF child[c] \in Alive THEN 1 ELSE 0)
  BY <1>1, <1>2, ChildMoves
<1> QED BY <1>1, <1>2, <1>3, LivingIs

\* and waitpid takes it away.
LEMMA CollectTakes ==
  ASSUME child \in [Children -> States], pool!Collected \/ party!Collected
  PROVE  child' \in [Children -> States] /\ Living' = Living - 1
<1>1. PICK c \in Children : child[c] = "zombie" /\ child' = [child EXCEPT ![c] = "collected"]
  BY DEF pool!Collected, pool!In, pool!Children, party!Collected, party!In, party!Children,
         Children
<1>2. "collected" \in States /\ "zombie" \in Alive /\ "collected" \notin Alive
  BY DEF States, Alive
<1>3. /\ child' \in [Children -> States]
      /\ Living' = Living + (IF "collected" \in Alive THEN 1 ELSE 0)
                          - (IF child[c] \in Alive THEN 1 ELSE 0)
  BY <1>1, <1>2, ChildMoves
<1> QED BY <1>1, <1>2, <1>3, LivingIs

\* No number of children not yet collected but 0 goes with an empty set of them.
LEMMA NoneLiving ==
  /\ pool!Uncollected = {} <=> Living = 0
  /\ (pool!Uncollected = {} <=> Living = 0)'
<1>1. pool!Uncollected = {} <=> Living = 0
  <2>1. IsFiniteSet(pool!Uncollected)
    <3>1. IsFiniteSet(Children)
      BY ChildrenAssumption, FS_Interval DEF Children
    <3> QED BY <3>1, LivingIs, FS_Subset DEF Among
  <2> QED BY <2>1, LivingIs, SameCount, FS_EmptySet
<1> QED BY <1>1, PTL

-----------------------------------------------------------------------------
(* cv1-fork.                                                               *)

\* What PoolInv says, with the number in the place of the set.
PoolFacts ==
  /\ child \in [Children -> States]
  /\ failed \in Nat /\ i \in Nat /\ process_count \in Nat
  /\ pc \in {"fork all", "wait", "count", "fork", "poll", "ended"}
  /\ pc \in {"fork all", "wait"} => failed = 0 /\ running_childs = 0
  /\ pc = "fork all" /\ i = 0 => Living = 0
  /\ pc \notin {"fork all", "wait"} =>
       running_childs = Living + failed + (IF pc = "fork" THEN 1 ELSE 0)

\* They are the same, in this state and in the next.
LEMMA PoolIs == (PoolInv <=> PoolFacts) /\ (PoolInv <=> PoolFacts)'
<1>1. PoolInv <=> PoolFacts
  BY LivingIs, NoneLiving DEF PoolInv, PoolFacts, pool!Counted
<1> QED BY <1>1, PTL

\* The steps of the first job, in which nothing is counted.
LEMMA FirstJobKeeps ==
  ASSUME PoolInv,
         pool!ForkOne \/ pool!ForkedAll \/ pool!WaitForOne \/ pool!WaitedForAll
  PROVE  PoolInv'
<1>1. PoolFacts /\ Living \in Nat
  BY PoolIs, LivingIs
<1>2. CASE pool!ForkOne
  <2>1. child' \in [Children -> States]
    BY <1>1, <1>2, ForkAdds DEF PoolFacts, pool!ForkOne
  <2>2. /\ pc = "fork all" /\ i' = i + 1 /\ i \in Nat
        /\ running_childs' = running_childs /\ failed' = failed
        /\ process_count' = process_count /\ pc' = pc
    BY <1>1, <1>2 DEF PoolFacts, pool!ForkOne
  <2>3. i' \in Nat /\ i' # 0
    <3>1. i \in Nat /\ i' = i + 1
      BY <2>2
    <3> QED BY ONLY <3>1
  <2>4. PoolFacts'
    BY <1>1, <2>1, <2>2, <2>3 DEF PoolFacts
  <2> QED BY <2>4, PoolIs
<1>3. CASE pool!ForkedAll
  <2>1. Living' = Living
    BY <1>3 DEF pool!ForkedAll, Living
  <2>2. /\ failed = 0 /\ running_childs = 0 /\ failed' = failed
        /\ child' = child /\ running_childs' = running_childs
        /\ process_count' = process_count /\ i' = i
    BY <1>1, <1>3 DEF PoolFacts, pool!ForkedAll, pool!Go
  <2>3. pc' = "wait" \/ (pc' = "ended" /\ Living = 0)
    BY <1>1, <1>3 DEF PoolFacts, pool!ForkedAll, pool!Go
  <2>4. CASE pc' = "wait"
    BY <1>1, <2>1, <2>2, <2>4, PoolIs DEF PoolFacts
  <2>5. CASE pc' = "ended" /\ Living = 0
    <3>1. running_childs' = Living' + failed' + 0
      BY <2>1, <2>2, <2>5
    <3> QED BY <1>1, <2>2, <2>5, <3>1, PoolIs DEF PoolFacts
  <2> QED BY <2>3, <2>4, <2>5
<1>4. CASE pool!WaitForOne
  <2>1. child' \in [Children -> States]
    BY <1>1, <1>4, CollectTakes DEF PoolFacts, pool!WaitForOne
  <2>2. PoolFacts'
    BY <1>1, <1>4, <2>1 DEF PoolFacts, pool!WaitForOne
  <2> QED BY <2>2, PoolIs
<1>5. CASE pool!WaitedForAll
  <2>1. Living' = Living /\ Living = 0
    BY <1>5, NoneLiving DEF pool!WaitedForAll, Living
  <2>2. PoolFacts'
    BY <1>1, <1>5, <2>1 DEF PoolFacts, pool!WaitedForAll, pool!Go
  <2> QED BY <2>2, PoolIs
<1> QED BY <1>2, <1>3, <1>4, <1>5

\* The steps of the pool.
LEMMA PoolKeeps ==
  ASSUME PoolInv,
         \/ pool!Count \/ pool!CountAtBound \/ pool!Fork
         \/ pool!CollectOne \/ pool!NoneEnded \/ pool!NoneLeft
  PROVE  PoolInv'
<1>1. PoolFacts /\ Living \in Nat
  BY PoolIs, LivingIs
<1>2. CASE pool!Fork
  <2>1. CASE pool!Forked /\ UNCHANGED failed
    <3>1. child' \in [Children -> States] /\ Living' = Living + 1
      BY <1>1, <2>1, ForkAdds DEF PoolFacts
    <3>2. PoolFacts'
      BY <1>1, <1>2, <2>1, <3>1 DEF PoolFacts, pool!Fork, pool!Go
    <3> QED BY <3>2, PoolIs
  <2>2. CASE failed' = failed + 1 /\ UNCHANGED child
    <3>1. Living' = Living
      BY <2>2 DEF Living
    <3>2. PoolFacts'
      BY <1>1, <1>2, <2>2, <3>1 DEF PoolFacts, pool!Fork, pool!Go
    <3> QED BY <3>2, PoolIs
  <2> QED BY <1>2, <2>1, <2>2 DEF pool!Fork
<1>3. CASE pool!CollectOne
  <2>1. child' \in [Children -> States] /\ Living' = Living - 1
    BY <1>1, <1>3, CollectTakes DEF PoolFacts, pool!CollectOne
  <2>2. PoolFacts'
    BY <1>1, <1>3, <2>1 DEF PoolFacts, pool!CollectOne
  <2> QED BY <2>2, PoolIs
<1>4. CASE pool!Count
  <2>1. Living' = Living
    BY <1>4 DEF pool!Count, Living
  <2>2. PoolFacts'
    BY <1>1, <1>4, <2>1 DEF PoolFacts, pool!Count, pool!Go
  <2> QED BY <2>2, PoolIs
<1>5. CASE pool!CountAtBound \/ pool!NoneEnded \/ pool!NoneLeft
  <2>1. Living' = Living
    BY <1>5 DEF pool!CountAtBound, pool!NoneEnded, pool!NoneLeft, Living
  <2>2. /\ UNCHANGED <<child, running_childs, failed, process_count, i>>
        /\ pc \in {"count", "poll"} /\ pc' \in {"count", "poll", "ended"}
    BY <1>5 DEF pool!CountAtBound, pool!NoneEnded, pool!NoneLeft, pool!Go
  <2>3. PoolFacts'
    BY <1>1, <2>1, <2>2 DEF PoolFacts
  <2> QED BY <2>3, PoolIs
<1> QED BY <1>2, <1>3, <1>4, <1>5

\* A child that ends, at any time.
LEMMA PoolDieKeeps ==
  ASSUME PoolInv, NEW c \in Children, pool!Die(c)
  PROVE  PoolInv'
<1>1. PoolFacts
  BY PoolIs
<1>2. child' \in [Children -> States] /\ Living' = Living
  BY <1>1, DeathKeeps DEF PoolFacts, pool!Die
<1>3. PoolFacts'
  BY <1>1, <1>2 DEF PoolFacts, pool!Die
<1> QED BY <1>3, PoolIs

-----------------------------------------------------------------------------
(* child_party.                                                            *)

\* What PartyInv says, with the number in the place of the set.
PartyFacts ==
  /\ child \in [Children -> States]
  /\ running_childs \in Int /\ register \in Int /\ failed \in Nat /\ lost \in Int
  /\ pc \in {"load", "store", "fork"}
  /\ pc = "store" => register >= running_childs
  /\ lost >= 0
  /\ running_childs = Living + failed + lost + (IF pc = "fork" THEN 1 ELSE 0)

\* They are the same, in this state and in the next.
LEMMA PartyIs == (PartyInv <=> PartyFacts) /\ (PartyInv <=> PartyFacts)'
<1>1. PartyInv <=> PartyFacts
  BY LivingIs DEF PartyInv, PartyFacts, party!Counted
<1> QED BY <1>1, PTL

\* main: what the handler took off between the load and the store is lost.
LEMMA PartyMainKeeps ==
  ASSUME PartyInv, party!Main
  PROVE  PartyInv'
<1>1. PartyFacts /\ Living \in Nat
  BY PartyIs, LivingIs
<1>2. CASE party!Load
  <2>1. Living' = Living
    BY <1>2 DEF party!Load, Living
  <2>2. PartyFacts'
    BY <1>1, <1>2, <2>1 DEF PartyFacts, party!Load, party!Go
  <2> QED BY <2>2, PartyIs
<1>3. CASE party!Store
  <2>1. Living' = Living
    BY <1>3 DEF party!Store, Living
  <2>2. PartyFacts'
    BY <1>1, <1>3, <2>1 DEF PartyFacts, party!Store, party!Go
  <2> QED BY <2>2, PartyIs
<1>4. CASE party!Fork
  <2>1. CASE party!Forked /\ UNCHANGED failed
    <3>1. child' \in [Children -> States] /\ Living' = Living + 1
      BY <1>1, <2>1, ForkAdds DEF PartyFacts
    <3>2. PartyFacts'
      BY <1>1, <1>4, <2>1, <3>1 DEF PartyFacts, party!Fork, party!Go
    <3> QED BY <3>2, PartyIs
  <2>2. CASE failed' = failed + 1 /\ UNCHANGED child
    <3>1. Living' = Living
      BY <2>2 DEF Living
    <3>2. PartyFacts'
      BY <1>1, <1>4, <2>2, <3>1 DEF PartyFacts, party!Fork, party!Go
    <3> QED BY <3>2, PartyIs
  <2> QED BY <1>4, <2>1, <2>2 DEF party!Fork
<1> QED BY <1>2, <1>3, <1>4 DEF party!Main

\* The handler, and a child that ends.
LEMMA PartyHandlerKeeps ==
  ASSUME PartyInv, party!Handler
  PROVE  PartyInv'
<1>1. PartyFacts /\ Living \in Nat
  BY PartyIs, LivingIs
<1>2. CASE party!Collect
  <2>1. child' \in [Children -> States] /\ Living' = Living - 1
    BY <1>1, <1>2, CollectTakes DEF PartyFacts, party!Collect
  <2>2. PartyFacts'
    BY <1>1, <1>2, <2>1 DEF PartyFacts, party!Collect
  <2> QED BY <2>2, PartyIs
<1>3. CASE party!Interrupt \/ party!Return
  <2>1. Living' = Living
    BY <1>3 DEF party!Interrupt, party!Return, Living
  <2>2. PartyFacts'
    BY <1>1, <1>3, <2>1 DEF PartyFacts, party!Interrupt, party!Return
  <2> QED BY <2>2, PartyIs
<1> QED BY <1>2, <1>3 DEF party!Handler

\* A child that dies is a zombie, and so counted as before; its signal counts nothing.
LEMMA PartyDieKeeps ==
  ASSUME PartyInv, NEW c \in Children, party!Die(c)
  PROVE  PartyInv'
<1>1. PartyFacts
  BY PartyIs
<1>2. child' \in [Children -> States] /\ Living' = Living
  BY <1>1, DeathKeeps DEF PartyFacts, party!Die
<1>3. PartyFacts'
  BY <1>1, <1>2 DEF PartyFacts, party!Die
<1> QED BY <1>3, PartyIs

-----------------------------------------------------------------------------
(* stopping.                                                               *)

\* The loop that forks, the loop of 'q' that kills, and the waiting.
LEMMA StoppingMainKeeps ==
  ASSUME StoppingInv, stopping!Main
  PROVE  StoppingInv'
<1>0. stopping!Children = Children /\ MaxForks \in Nat
  BY ChildrenAssumption DEF stopping!Children, Children
<1>1. CASE stopping!Fork
  BY <1>0, <1>1 DEF StoppingInv, stopping!Fork, States, Children
<1>2. CASE stopping!ForkedAll
  BY <1>0, <1>2 DEF StoppingInv, stopping!ForkedAll, Children
<1>3. CASE stopping!KillNext
  <2>1. /\ pc = "kill" /\ i \in 0 .. MaxForks /\ i' = i + 1 /\ i' \in Children
        /\ \A k \in 1 .. i : child[k] \notin {"running", "stopped"}
    BY <1>0, <1>3 DEF StoppingInv, stopping!KillNext, Children
  <2>2. /\ child' \in [Children -> States]
        /\ child'[i'] \notin {"running", "stopped"}
        /\ \A k \in Children : child'[k] = child[k] \/ child'[k] = "zombie"
    BY <1>0, <1>3, <2>1 DEF StoppingInv, stopping!KillNext, stopping!Signal, States
  <2>3. \A k \in 1 .. i' : child'[k] \notin {"running", "stopped"}
    BY <1>0, <2>1, <2>2 DEF Children
  <2> QED BY <1>0, <1>3, <2>1, <2>2, <2>3 DEF StoppingInv, stopping!KillNext, Children
<1>4. CASE stopping!KilledAll
  BY <1>0, <1>4 DEF StoppingInv, stopping!KilledAll, Children
<1>5. CASE stopping!Wait
  <2>1. CASE UNCHANGED child
    BY <1>0, <1>5, <2>1 DEF StoppingInv, stopping!Wait
  <2>2. CASE stopping!Collected /\ UNCHANGED pc
    BY <1>0, <1>5, <2>2 DEF StoppingInv, stopping!Wait, stopping!Collected, stopping!In, States
  <2> QED BY <1>5, <2>1, <2>2 DEF stopping!Wait
<1> QED BY <1>1, <1>2, <1>3, <1>4, <1>5 DEF stopping!Main

\* A key stops or continues the child in its place, as long as every place has
\* a child.
LEMMA StoppingKeyKeeps ==
  ASSUME StoppingInv, stopping!Key
  PROVE  StoppingInv'
<1>0. stopping!Children = Children /\ MaxForks \in Nat
  BY ChildrenAssumption DEF stopping!Children, Children
<1>1. CASE stopping!Quit
  BY <1>0, <1>1 DEF StoppingInv, stopping!Quit
<1>2. ASSUME NEW k \in Children, stopping!Stop(k) PROVE StoppingInv'
  <2>1. child' \in [Children -> States] /\ stopped' \subseteq Children
    BY <1>0, <1>2 DEF StoppingInv, stopping!Stop, stopping!Signal, States
  <2>2. ASSUME \A l \in Children : child_pids[l] = "child"
        PROVE  \A l \in Children : child'[l] = IF l \in stopped' THEN "stopped" ELSE "running"
    BY <1>0, <1>2, <2>2 DEF StoppingInv, stopping!Stop, stopping!Signal
  <2>3. ASSUME \A l \in stopped' : child_pids[l] = "child"
        PROVE  \A l \in Children : child'[l] = "stopped" => l \in stopped'
    BY <1>0, <1>2, <2>3 DEF StoppingInv, stopping!Stop, stopping!Signal
  <2> QED BY <1>2, <2>1, <2>2, <2>3 DEF StoppingInv, stopping!Stop
<1>3. ASSUME NEW k \in Children, stopping!Continue(k) PROVE StoppingInv'
  <2>1. child' \in [Children -> States] /\ stopped' \subseteq Children
    BY <1>0, <1>3 DEF StoppingInv, stopping!Continue, stopping!Signal, States
  <2>2. ASSUME \A l \in Children : child_pids[l] = "child"
        PROVE  \A l \in Children : child'[l] = IF l \in stopped' THEN "stopped" ELSE "running"
    BY <1>0, <1>3, <2>2 DEF StoppingInv, stopping!Continue, stopping!Signal
  <2>3. ASSUME \A l \in stopped' : child_pids[l] = "child"
        PROVE  \A l \in Children : child'[l] = "stopped" => l \in stopped'
    BY <1>0, <1>3, <2>3 DEF StoppingInv, stopping!Continue, stopping!Signal
  <2> QED BY <1>3, <2>1, <2>2, <2>3 DEF StoppingInv, stopping!Continue
<1> QED BY <1>0, <1>1, <1>2, <1>3 DEF stopping!Key

-----------------------------------------------------------------------------

\* The beginning of each of the programs.
LEMMA Initially ==
  ASSUME Init
  PROVE  RecordsInv
<1>1. ASSUME child = [c \in Children |-> "none"]
      PROVE  child \in [Children -> States] /\ Living = 0
  <2>1. Among(Children, child, Alive) = {}
    BY <1>1 DEF Among, Alive
  <2> QED BY <1>1, <2>1, FS_EmptySet DEF Living, States
<1>2. CASE program = "pool"
  <2>1. PoolFacts
    <3>1. /\ child = [c \in Children |-> "none"]
          /\ running_childs = 0 /\ failed = 0 /\ i = 0 /\ pc = "fork all"
      BY <1>2 DEF Init, pool!Init, pool!NoChildren, pool!Children, Children
    <3>2. process_count \in 0 .. MaxArgument => process_count \in Nat
      BY ChildrenAssumption
    <3>3. process_count \in Nat
      BY <1>2, <3>2 DEF Init
    <3>4. child \in [Children -> States] /\ Living = 0
      BY <1>1, <3>1
    <3> QED BY <3>1, <3>3, <3>4 DEF PoolFacts
  <2> QED BY <1>2, <2>1, PoolIs DEF RecordsInv
<1>3. CASE program = "party"
  <2>1. PartyFacts
    BY <1>1, <1>3 DEF Init, PartyFacts, party!Init, party!NoChildren, party!Children, Children
  <2> QED BY <1>3, <2>1, PartyIs DEF RecordsInv
<1>4. CASE program = "stopping"
  <2>1. StoppingInv
    BY <1>4, ChildrenAssumption
       DEF Init, StoppingInv, stopping!Init, stopping!NoChildren, stopping!Children,
           Children, States
  <2> QED BY <1>4, <2>1 DEF RecordsInv
<1>5. CASE program \in {"pipeline", "baton", "threads"}
  BY <1>5 DEF RecordsInv
<1> QED BY <1>2, <1>3, <1>4, <1>5 DEF Init

\* Every step of each keeps what it records.
LEMMA Inductive ==
  ASSUME RecordsInv, [Next]_vars
  PROVE  RecordsInv'
<1>1. ASSUME NEW c \in Children, Die(c) PROVE RecordsInv'
  BY <1>1, PoolDieKeeps, PartyDieKeeps DEF RecordsInv, Die, Pool, Party
<1>2. CASE Pool(pool!Main)
  BY <1>2, FirstJobKeeps, PoolKeeps DEF RecordsInv, Pool, pool!Main
<1>3. CASE Party(party!Main)
  BY <1>3, PartyMainKeeps DEF RecordsInv, Party
<1>4. CASE Stop(stopping!Main)
  BY <1>4, StoppingMainKeeps DEF RecordsInv, Stop
<1>5. CASE Handler
  BY <1>5, PartyHandlerKeeps DEF RecordsInv, Handler, Party
<1>6. CASE Key
  BY <1>6, StoppingKeyKeeps DEF RecordsInv, Key, Stop
<1>7. CASE UNCHANGED vars
  <2>1. Living' = Living
    BY <1>7 DEF vars, childvars, Living
  <2>2. PoolFacts => PoolFacts'
    BY <1>7, <2>1 DEF vars, childvars, PoolFacts
  <2>3. PartyFacts => PartyFacts'
    BY <1>7, <2>1 DEF vars, childvars, partyvars, PartyFacts
  <2>4. StoppingInv => StoppingInv'
    BY <1>7 DEF vars, childvars, stoppingvars, StoppingInv
  <2> QED BY <1>7, <2>2, <2>3, <2>4, PoolIs, PartyIs DEF RecordsInv, vars
<1>8. ASSUME \/ \E p \in pipeline!Family : PipelineStep(p)
             \/ \E p \in 0 .. Files : BatonStep(p)
             \/ ThreadStep
      PROVE  RecordsInv'
  BY <1>8 DEF PipelineStep, BatonStep, ThreadStep, RecordsInv
<1> QED BY <1>1, <1>2, <1>3, <1>4, <1>5, <1>6, <1>7, <1>8 DEF Next, Main, Children

\* The inductive invariant holds of every behaviour of the three programs.
THEOREM Invariance == Spec => []RecordsInv
<1>1. Init => RecordsInv
  BY Initially
<1>2. RecordsInv /\ [Next]_vars => RecordsInv'
  BY Inductive
<1> QED BY <1>1, <1>2, PTL DEF Spec

\* The parent's count is never too low, and too high only by the forks that
\* failed and the decrements main overwrote; children are stopped as main takes
\* them to be, and at the end none is left.
THEOREM Records == Spec => []RecordsExact
<1>1. RecordsInv => RecordsExact
  <2> SUFFICES ASSUME RecordsInv PROVE RecordsExact
    OBVIOUS
  <2>1. program = "pool" => pool!Counted
    BY DEF RecordsInv, PoolInv
  <2>2. program = "party" => party!Counted
    BY DEF RecordsInv, PartyInv
  <2>3. ASSUME program = "stopping" PROVE stopping!Recorded
    BY <2>3 DEF RecordsInv, StoppingInv, stopping!Recorded, stopping!In, stopping!Children, Children
  <2> QED BY <2>1, <2>2, <2>3 DEF RecordsExact
<1> QED BY <1>1, Invariance, PTL

-----------------------------------------------------------------------------
(* The programs on a pipe.                                                 *)

\* The statements of the three processes.
PipelinePc == {"none", "fork ls", "fork tr", "close", "wait", "ended", "start", "exec", "list",
               "complain", "exit", "killed", "translate", "failed"}

\* What is in the pipe comes after what is printed.
Numbered ==
  /\ listed \in Nat /\ output \in Seq(Nat) /\ bytes \in Seq(Nat)
  /\ Len(output) + Len(bytes) = listed
  /\ \A k \in 1 .. Len(output) : output[k] = k
  /\ \A k \in 1 .. Len(bytes) : bytes[k] = Len(output) + k

\* Whatever ls has still to write is announced by a write end that is open.
Announced ==
  /\ pc["parent"] \in {"fork ls", "fork tr"} => <<"parent", "pipes">> \in writers
  /\ pc["parent"] = "fork ls" => pc["ls"] = "none"
  /\ pc["parent"] \in {"fork ls", "fork tr"} => pc["tr"] = "none"
  /\ pc["ls"] \in {"none", "start", "exec", "list", "complain", "exit", "ended", "killed"}
  /\ pc["ls"] = "start" => <<"ls", "pipes">> \in writers
  /\ pc["ls"] \in {"exec", "list", "complain", "exit"} => <<"ls", "std">> \in writers
  /\ pc["tr"] = "ended" => pc["ls"] \in pipeline!Ended /\ bytes = <<>>

PipelineInv ==
  /\ pc \in [pipeline!Family -> PipelinePc]
  /\ Numbered /\ Announced

BatonPc == {"none", "fork", "close read", "write", "close write", "wait", "ended", "killed",
            "failed", "read", "open", "print", "pass", "exit"}

\* The children that have the baton or have kept it from the others.
Carriers == {c \in baton!Children :
               pc[c] \in {"close read", "open", "print", "pass", "failed", "killed"}}

BatonTypes ==
  /\ pc \in [0 .. Files -> BatonPc]
  /\ i \in 1 .. Files + 1
  /\ terminal \in BOOLEAN
  /\ bytes \in Seq({"baton"}) /\ Len(bytes) <= 1
  /\ turns \in Seq(baton!Children)
  /\ lines \in [baton!Children -> Nat]
  /\ rest \subseteq baton!Children /\ unflushed \subseteq baton!Children
  /\ output \in Seq(baton!Children \X Nat \X BOOLEAN)

\* Nobody has the baton before the parent has written it, and nobody can wait
\* for it who has no read end.
BatonStart ==
  /\ pc[0] \in {"fork", "close read", "write"} =>
       /\ bytes = <<>>
       /\ \A c \in baton!Children : pc[c] \in {"none", "read"}
  /\ pc[0] = "fork" => <<0, "pipes">> \in readers
  /\ \A c \in baton!Children : pc[c] = "read" => <<c, "pipes">> \in readers

\* The baton is in the pipe, with one child, or gone.
BatonOnce ==
  /\ \A c, d \in Carriers : c = d
  /\ bytes # <<>> => Carriers = {}
  /\ \A c \in Carriers : turns # <<>> /\ c = turns[Len(turns)]
  /\ \A c \in baton!Children :
       pc[c] = "killed" => \A d \in baton!Children : pc[d] # "read"

\* Where a child has not printed anything.
SilentPc == {"none", "read", "close read", "open", "failed"}

\* The lines a child has printed are on the terminal; elsewhere, and on a terminal
\* if they are the rest of a file, they are in its buffer until it ends.
Accounted(c) ==
  /\ pc[c] \in SilentPc => lines[c] = 0 /\ c \notin unflushed
  /\ pc[c] \in SilentPc \cup {"print"} => c \notin rest
  /\ terminal => /\ baton!Written(c, lines[c], FALSE)
                 /\ c \in unflushed => c \in rest
  /\ ~terminal /\ pc[c] # "ended" =>
       /\ \A k \in 1 .. Len(output) : output[k][1] # c
       /\ lines[c] > 0 => c \in unflushed
  /\ pc[c] # "ended" /\ c \in rest => c \in unflushed
  /\ pc[c] = "ended" => baton!Written(c, lines[c], c \in rest)

BatonPrinted == \A c \in baton!Children : Accounted(c)

HadTurn(c) == \E a \in 1 .. Len(turns) : turns[a] = c

BatonOrder ==
  /\ \A c \in baton!Children : pc[c] \in {"none", "read"} \/ HadTurn(c)
  /\ \A k \in 1 .. Len(output) : HadTurn(output[k][1])
  /\ terminal =>
       \A k \in 1 .. Len(output) :
         ~output[k][3] => \A j \in 1 .. k : baton!NotAfter(j, k)

BatonInv == BatonTypes /\ BatonStart /\ BatonOnce /\ BatonPrinted /\ BatonOrder

\* The buffer is Initial places long, or it was tripled because the file needed
\* more than a third of it.
Needed(n) == n <= content_size /\ (content_size = Initial \/ content_size < 3 * n)

ThreadInv ==
  /\ size \in Sizes /\ total_read \in 0 .. size /\ bytes_read \in Int
  /\ at \in {"open", "no file", "read", "crashed", "grow", "copy", "terminate", "returned"}
  /\ content_size \in {Initial, 3 * Initial, 9 * Initial, 27 * Initial}
  /\ at \in {"open", "read", "grow"} => Needed(total_read)
  /\ at = "grow" => bytes_read = IF size - total_read > Chunk THEN Chunk ELSE size - total_read
  /\ at = "copy" => /\ bytes_read \in 0 .. size - total_read
                    /\ Needed(total_read + bytes_read)
                    /\ bytes_read = 0 => total_read = size
  /\ at = "terminate" => total_read = size /\ Needed(size)

PipesInv ==
  /\ program = "pipeline" => PipelineInv
  /\ program = "baton" => BatonInv
  /\ program = "threads" => ThreadInv

-----------------------------------------------------------------------------
(* The ends of a pipe.                                                     *)

\* A child has what its parent has, and whoever exits closes only his own.
LEMMA PipelineEnds ==
  ASSUME NEW ends, NEW p, NEW c
  PROVE  /\ ends \subseteq pipeline!Inherited(ends, p, c)
         /\ \A n : <<p, n>> \in ends => <<c, n>> \in pipeline!Inherited(ends, p, c)
         /\ \A q, n : q # p /\ <<q, n>> \in ends => <<q, n>> \in pipeline!Without(ends, p)
<1>1. ASSUME NEW n, <<p, n>> \in ends
      PROVE  <<c, n>> \in pipeline!Inherited(ends, p, c)
  <2>1. <<p, n>> \in {d \in ends : d[1] = p}
    BY <1>1
  <2> QED BY <2>1 DEF pipeline!Inherited
<1> QED BY <1>1 DEF pipeline!Inherited, pipeline!Without

\* The same of the other program.
LEMMA BatonEnds ==
  ASSUME NEW ends, NEW p, NEW c
  PROVE  /\ ends \subseteq baton!Inherited(ends, p, c)
         /\ \A n : <<p, n>> \in ends => <<c, n>> \in baton!Inherited(ends, p, c)
         /\ \A q, n : q # p /\ <<q, n>> \in ends => <<q, n>> \in baton!Without(ends, p)
<1>1. ASSUME NEW n, <<p, n>> \in ends
      PROVE  <<c, n>> \in baton!Inherited(ends, p, c)
  <2>1. <<p, n>> \in {d \in ends : d[1] = p}
    BY <1>1
  <2> QED BY <2>1 DEF baton!Inherited
<1> QED BY <1>1 DEF baton!Inherited, baton!Without

-----------------------------------------------------------------------------
(* The pipeline.                                                           *)

\* ls writes the next number.
LEMMA NumberWritten ==
  ASSUME Numbered, output' = output, listed' = listed + 1, bytes' = Append(bytes, listed + 1)
  PROVE  Numbered'
<1>1. /\ listed \in Nat /\ output \in Seq(Nat) /\ bytes \in Seq(Nat)
      /\ Len(bytes) \in Nat /\ Len(output) \in Nat /\ listed + 1 \in Nat
      /\ Len(output) + Len(bytes) = listed
  BY LenProperties DEF Numbered
<1>2. /\ bytes' \in Seq(Nat) /\ Len(bytes') = Len(bytes) + 1
      /\ bytes'[Len(bytes) + 1] = listed + 1
      /\ \A k \in 1 .. Len(bytes) : bytes'[k] = bytes[k]
  BY <1>1, AppendProperties
<1>3. \A k \in 1 .. Len(bytes) : bytes[k] = Len(output) + k
  BY DEF Numbered
<1>4. \A k \in 1 .. Len(bytes') : bytes'[k] = Len(output) + k
  BY <1>1, <1>2, <1>3
<1> QED BY <1>1, <1>2, <1>4 DEF Numbered

\* tr prints the number that comes first.
LEMMA NumberPrinted ==
  ASSUME Numbered, bytes # <<>>, listed' = listed,
         output' = Append(output, Head(bytes)), bytes' = Tail(bytes)
  PROVE  Numbered'
<1>1. /\ listed \in Nat /\ output \in Seq(Nat) /\ bytes \in Seq(Nat)
      /\ Len(bytes) \in Nat \ {0} /\ Len(output) \in Nat
      /\ Len(output) + Len(bytes) = listed
  BY LenProperties, EmptySeq DEF Numbered
<1>2. /\ bytes' \in Seq(Nat) /\ Len(bytes') = Len(bytes) - 1
      /\ \A k \in 1 .. Len(bytes) - 1 : bytes'[k] = bytes[k + 1]
      /\ Head(bytes) = bytes[1]
  BY <1>1, HeadTailProperties
<1>3. \A k \in 1 .. Len(bytes) : bytes[k] = Len(output) + k
  BY DEF Numbered
<1>4. bytes[1] = Len(output) + 1
  BY <1>1, <1>3
<1>5. /\ output' \in Seq(Nat) /\ Len(output') = Len(output) + 1
      /\ \A k \in 1 .. Len(output) : output'[k] = output[k]
      /\ output'[Len(output) + 1] = Len(output) + 1
  BY <1>1, <1>2, <1>4, AppendProperties
<1>6. \A k \in 1 .. Len(output') : output'[k] = k
  BY <1>1, <1>5 DEF Numbered
<1>7. ASSUME NEW k \in 1 .. Len(bytes') PROVE bytes'[k] = Len(output') + k
  <2>1. k + 1 \in 1 .. Len(bytes) /\ k \in 1 .. Len(bytes) - 1 /\ k \in Nat
    BY <1>1, <1>2
  <2>2. bytes[k + 1] = Len(output) + (k + 1)
    BY <1>3, <2>1
  <2> QED BY <1>1, <1>2, <1>5, <2>1, <2>2
<1>8. Len(output') + Len(bytes') = listed
  <2>1. \A a, b \in Nat : (a + 1) + (b - 1) = a + b
    OBVIOUS
  <2>2. (Len(output) + 1) + (Len(bytes) - 1) = Len(output) + Len(bytes)
    BY <1>1, <2>1, Zenon
  <2>4. (Len(output) + 1) + (Len(bytes) - 1) = listed
    BY ONLY <1>1, <2>2, Zenon
  <2>3. Len(output') = Len(output) + 1 /\ Len(bytes') = Len(bytes) - 1
    BY <1>2, <1>5
  <2> QED BY ONLY <2>3, <2>4, Zenon
<1> QED BY <1>1, <1>2, <1>5, <1>6, <1>7, <1>8 DEF Numbered

\* The parent gives ls an end to write to before it closes its own.
LEMMA PipelineParentKeeps ==
  ASSUME PipelineInv, pipeline!Parent
  PROVE  PipelineInv'
<1> USE DEF pipeline!Family
<1>1. UNCHANGED <<bytes, output, listed>>
  BY DEF pipeline!Parent, pipeline!Fork, pipeline!ParentCloses,
     pipeline!ParentWaits, pipeline!CloseEnds, pipeline!ExitCloses
<1>2. Numbered'
  BY <1>1 DEF PipelineInv, Numbered
<1>3. CASE pipeline!Fork("ls", "fork ls", "fork tr")
  <2>1. /\ pc["parent"] = "fork ls" /\ pc["ls"] = "none" /\ pc["tr"] = "none"
        /\ <<"parent", "pipes">> \in writers
    BY <1>3 DEF pipeline!Fork, PipelineInv, Announced
  <2>2. CASE pc' = [pc EXCEPT !["parent"] = "fork tr", !["ls"] = "start"]
             /\ writers' = pipeline!Inherited(writers, "parent", "ls")
    <3>1. writers \subseteq writers' /\ <<"ls", "pipes">> \in writers'
      BY <2>1, <2>2, PipelineEnds
    <3>2. /\ pc' \in [pipeline!Family -> PipelinePc]
          /\ pc'["parent"] = "fork tr" /\ pc'["tr"] = "none" /\ pc'["ls"] = "start"
      BY <2>1, <2>2 DEF PipelineInv, PipelinePc
    <3> QED BY <1>2, <2>1, <3>1, <3>2 DEF PipelineInv, Announced
  <2>3. CASE pc' = [pc EXCEPT !["parent"] = "fork tr"] /\ writers' = writers
    <3>1. /\ pc' \in [pipeline!Family -> PipelinePc]
          /\ pc'["parent"] = "fork tr" /\ pc'["tr"] = "none" /\ pc'["ls"] = "none"
      BY <2>1, <2>3 DEF PipelineInv, PipelinePc
    <3> QED BY <1>2, <2>1, <2>3, <3>1 DEF PipelineInv, Announced
  <2> QED BY <1>3, <2>2, <2>3 DEF pipeline!Fork
<1>4. CASE pipeline!Fork("tr", "fork tr", "close")
  <2>1. pc["parent"] = "fork tr" /\ pc["tr"] = "none"
    BY <1>4 DEF pipeline!Fork, PipelineInv, Announced
  <2>2. writers \subseteq writers'
    <3>1. CASE writers' = pipeline!Inherited(writers, "parent", "tr")
      BY <3>1, PipelineEnds
    <3>2. CASE writers' = writers
      BY <3>2
    <3> QED BY <1>4, <3>1, <3>2 DEF pipeline!Fork
  <2>3. /\ pc' \in [pipeline!Family -> PipelinePc]
        /\ pc'["parent"] = "close" /\ pc'["tr"] \in {"none", "start"} /\ pc'["ls"] = pc["ls"]
    BY <1>4, <2>1 DEF pipeline!Fork, PipelineInv, PipelinePc
  <2> QED BY <1>2, <2>2, <2>3 DEF PipelineInv, Announced
<1>5. CASE pipeline!ParentCloses \/ pipeline!ParentWaits
  <2>1. /\ pc' \in [pipeline!Family -> PipelinePc]
        /\ pc'["parent"] \in {"wait", "ended"} /\ pc'["tr"] = pc["tr"] /\ pc'["ls"] = pc["ls"]
    <3>1. PICK to \in {"wait", "ended"} : pc' = [pc EXCEPT !["parent"] = to]
      BY <1>5 DEF pipeline!ParentCloses, pipeline!ParentWaits, pipeline!Go
    <3> QED BY <3>1 DEF PipelineInv, PipelinePc
  <2>2. \A n : <<"ls", n>> \in writers => <<"ls", n>> \in writers'
    BY <1>5, PipelineEnds DEF pipeline!ParentCloses, pipeline!ParentWaits,
       pipeline!CloseEnds, pipeline!ExitCloses
  <2> QED BY <1>1, <1>2, <2>1, <2>2 DEF PipelineInv, Announced
<1> QED BY <1>3, <1>4, <1>5 DEF pipeline!Parent

\* ls has an end to write to until it ends.
LEMMA LsKeeps ==
  ASSUME PipelineInv, pipeline!Ls
  PROVE  PipelineInv'
<1> USE DEF pipeline!Family
<1>1. \E to \in {"exec", "list", "complain", "exit", "ended", "killed"} :
        pc' = [pc EXCEPT !["ls"] = to]
  <2>1. CASE pipeline!LsWrites
    <3>1. CASE pc["ls"] = "list" /\ pc' = pc
      <4>1. pc' = [pc EXCEPT !["ls"] = "list"]
        BY <3>1 DEF PipelineInv
      <4> QED BY <4>1
    <3> QED BY <2>1, <3>1 DEF pipeline!LsWrites, pipeline!Go
  <2> QED BY <2>1 DEF pipeline!Ls, pipeline!LsRedirects, pipeline!LsExec,
        pipeline!LsKilled, pipeline!LsExits, pipeline!Go
<1>2. pc["ls"] \in {"start", "exec", "list", "complain", "exit"}
  BY DEF pipeline!Ls, pipeline!LsRedirects, pipeline!LsExec,
     pipeline!LsWrites, pipeline!LsKilled, pipeline!LsExits, pipeline!Go
<1>3. /\ pc' \in [pipeline!Family -> PipelinePc]
      /\ pc'["parent"] = pc["parent"] /\ pc'["tr"] = pc["tr"]
      /\ pc'["ls"] \in {"exec", "list", "complain", "exit", "ended", "killed"}
  <2>1. PICK to \in {"exec", "list", "complain", "exit", "ended", "killed"} :
          pc' = [pc EXCEPT !["ls"] = to]
    BY <1>1
  <2> QED BY <2>1 DEF PipelineInv, PipelinePc
<1>4. pc["tr"] # "ended" /\ pc["parent"] # "fork ls"
  BY <1>2 DEF PipelineInv, Announced, pipeline!Ended
<1>5. /\ <<"parent", "pipes">> \in writers => <<"parent", "pipes">> \in writers'
      /\ pc'["ls"] \in {"exec", "list", "complain", "exit"} => <<"ls", "std">> \in writers'
  <2>1. CASE pipeline!LsRedirects
    BY <2>1 DEF pipeline!LsRedirects
  <2>2. CASE pipeline!LsExec \/ pipeline!LsWrites
    BY <2>2 DEF pipeline!LsExec, pipeline!LsWrites, pipeline!WriteTo,
       pipeline!Go, pipeline!pipe, PipelineInv, Announced
  <2>3. CASE pipeline!LsKilled \/ pipeline!LsExits
    <3>1. pc'["ls"] \in {"ended", "killed"}
      BY <2>3 DEF pipeline!LsKilled, pipeline!LsExits, PipelineInv
    <3> QED BY <2>3, <3>1, PipelineEnds
          DEF pipeline!LsKilled, pipeline!LsExits, pipeline!ExitCloses
  <2> QED BY <2>1, <2>2, <2>3 DEF pipeline!Ls
<1>6. Announced'
  BY <1>3, <1>4, <1>5 DEF PipelineInv, Announced
<1>7. Numbered'
  <2>1. CASE pipeline!LsWrites
    <3>1. output' = output /\ listed' = listed + 1 /\ bytes' = Append(bytes, listed + 1)
      BY <2>1 DEF pipeline!LsWrites, pipeline!WriteTo
    <3> QED BY <3>1, NumberWritten DEF PipelineInv
  <2>2. CASE ~pipeline!LsWrites
    <3>1. UNCHANGED <<bytes, output, listed>>
      BY <2>2 DEF pipeline!Ls, pipeline!LsRedirects, pipeline!LsExec,
         pipeline!LsKilled, pipeline!LsExits, pipeline!ExitCloses,
         pipeline!pipe
    <3> QED BY <3>1 DEF PipelineInv, Numbered
  <2> QED BY <2>1, <2>2
<1> QED BY <1>3, <1>6, <1>7 DEF PipelineInv

\* tr ends when nobody can write any more.
LEMMA TrKeeps ==
  ASSUME PipelineInv, pipeline!Tr
  PROVE  PipelineInv'
<1> USE DEF pipeline!Family
<1>1. \E to \in {"exec", "translate", "failed", "ended"} :
        /\ pc' = [pc EXCEPT !["tr"] = to]
        /\ to = "ended" => bytes = <<>> /\ writers = {} /\ bytes' = bytes
  <2>1. CASE pipeline!TrTranslates
    <3>1. pc' = [pc EXCEPT !["tr"] = "translate"]
      BY <2>1 DEF pipeline!TrTranslates, PipelineInv
    <3> QED BY <3>1
  <2> QED BY <2>1 DEF pipeline!Tr, pipeline!TrRedirects, pipeline!TrExec,
        pipeline!TrExecFails, pipeline!TrEnds, pipeline!EndOfPipe,
        pipeline!ExitCloses, pipeline!Go
<1>2. pc["tr"] \in {"start", "exec", "translate"} /\ listed' = listed
  BY DEF pipeline!Tr, pipeline!TrRedirects, pipeline!TrExec,
     pipeline!TrExecFails, pipeline!TrTranslates, pipeline!TrEnds, pipeline!Go
<1>3. /\ pc' \in [pipeline!Family -> PipelinePc]
      /\ pc'["parent"] = pc["parent"] /\ pc'["ls"] = pc["ls"]
      /\ pc'["tr"] = "ended" => bytes = <<>> /\ writers = {} /\ bytes' = bytes
  <2>1. PICK to \in {"exec", "translate", "failed", "ended"} :
          /\ pc' = [pc EXCEPT !["tr"] = to]
          /\ to = "ended" => bytes = <<>> /\ writers = {} /\ bytes' = bytes
    BY <1>1
  <2> QED BY <2>1 DEF PipelineInv, PipelinePc
<1>4. pc["parent"] \notin {"fork ls", "fork tr"}
  BY <1>2 DEF PipelineInv, Announced
<1>5. \A n : <<"ls", n>> \in writers => <<"ls", n>> \in writers'
  BY PipelineEnds DEF pipeline!Tr, pipeline!TrRedirects, pipeline!TrExec,
     pipeline!TrExecFails, pipeline!TrTranslates, pipeline!TrEnds,
     pipeline!ExitCloses, pipeline!ReadPipe, pipeline!pipe
<1>6. pc["ls"] \in pipeline!Ended \/ writers # {}
  BY DEF PipelineInv, Announced, pipeline!Ended
<1>7. Announced'
  BY <1>3, <1>4, <1>5, <1>6 DEF PipelineInv, Announced
<1>8. Numbered'
  <2>1. CASE pipeline!TrTranslates
    <3>1. bytes # <<>> /\ output' = Append(output, Head(bytes)) /\ bytes' = Tail(bytes)
      BY <2>1 DEF pipeline!TrTranslates, pipeline!ReadPipe
    <3> QED BY <1>2, <3>1, NumberPrinted DEF PipelineInv
  <2>2. CASE ~pipeline!TrTranslates
    <3>1. UNCHANGED <<bytes, output, listed>>
      BY <2>2 DEF pipeline!Tr, pipeline!TrRedirects, pipeline!TrExec,
         pipeline!TrExecFails, pipeline!TrEnds, pipeline!ExitCloses,
         pipeline!pipe
    <3> QED BY <3>1 DEF PipelineInv, Numbered
  <2> QED BY <2>1, <2>2
<1> QED BY <1>3, <1>7, <1>8 DEF PipelineInv
-----------------------------------------------------------------------------
(* The thread that reads a file.                                           *)

\* What the code's constants are, and the sizes of the files.
LEMMA Sized ==
  ASSUME ThreadInv
  PROVE  /\ Chunk \in Nat /\ Chunk > 0 /\ Initial \in Nat /\ Chunk <= Initial /\ Files \in Nat
         /\ size \in Nat /\ size <= 27 * Initial - 2
         /\ content_size \in Nat /\ content_size >= Initial /\ total_read \in Nat
<1>1. /\ Chunk \in Nat \ {0} /\ Initial \in Nat \ {0} /\ Chunk <= Initial /\ Files \in Nat \ {0}
      /\ Sizes \subseteq 0 .. 27 * Initial - 2
  BY PipesAssumption
<1>2. size \in 0 .. 27 * Initial - 2
  BY <1>1 DEF ThreadInv
<1>3. content_size \in {Initial, 3 * Initial, 9 * Initial, 27 * Initial} /\ total_read \in 0 .. size
  BY DEF ThreadInv
<1> QED BY <1>1, <1>2, <1>3

\* A chunk that does not fit makes the buffer three times as long, and then it
\* fits and the file needs more than a third of it.
LEMMA GrowKeeps ==
  ASSUME ThreadInv, threads!Grow
  PROVE  ThreadInv'
<1>1. /\ at = "grow" /\ at' = "copy" /\ size' = size /\ total_read' = total_read
      /\ bytes_read' = bytes_read
      /\ content_size' = IF total_read + bytes_read > content_size THEN 3 * content_size
                         ELSE content_size
  BY DEF threads!Grow
<1>2. /\ Chunk \in Nat /\ Chunk > 0 /\ Initial \in Nat /\ Chunk <= Initial
      /\ size \in Nat /\ size <= 27 * Initial - 2
      /\ content_size \in Nat /\ content_size >= Initial /\ total_read \in Nat
  BY Sized
<1>3. /\ total_read <= size /\ total_read <= content_size
      /\ content_size = Initial \/ content_size < 3 * total_read
      /\ bytes_read = IF size - total_read > Chunk THEN Chunk ELSE size - total_read
      /\ content_size \in {Initial, 3 * Initial, 9 * Initial, 27 * Initial}
  BY <1>1, <1>2 DEF ThreadInv, Needed
<1>4. /\ bytes_read \in Nat /\ bytes_read <= Chunk /\ total_read + bytes_read <= size
      /\ bytes_read = 0 => total_read = size
  BY <1>2, <1>3
<1>5. /\ total_read + bytes_read <= content_size'
      /\ content_size' = Initial \/ content_size' < 3 * (total_read + bytes_read)
      /\ content_size' \in {Initial, 3 * Initial, 9 * Initial, 27 * Initial}
  <2>1. CASE total_read + bytes_read > content_size
    <3>1. content_size' = 3 * content_size
      BY <1>1, <2>1
    <3>2. content_size \in {Initial, 3 * Initial, 9 * Initial}
      BY <1>2, <1>3, <1>4, <2>1
    <3> QED BY <1>2, <1>3, <1>4, <2>1, <3>1, <3>2
  <2>2. CASE ~(total_read + bytes_read > content_size)
    BY <1>1, <1>2, <1>3, <1>4, <2>2
  <2> QED BY <2>1, <2>2
<1>6. bytes_read' \in 0 .. size' - total_read'
  BY <1>1, <1>2, <1>3, <1>4
<1> QED BY <1>1, <1>4, <1>5, <1>6 DEF ThreadInv, Needed

\* The other steps of the thread.
LEMMA ThreadKeeps ==
  ASSUME ThreadInv, threads!Thread
  PROVE  ThreadInv'
<1>1. CASE threads!OpenFile
  BY <1>1 DEF threads!OpenFile, ThreadInv, Needed
<1>2. CASE threads!Read
  <2>1. bytes_read' \in Int
    BY <1>2, Sized DEF threads!Read
  <2> QED BY <1>2, <2>1 DEF threads!Read, ThreadInv, Needed
<1>3. CASE threads!ReadFails
  BY <1>3 DEF threads!ReadFails, ThreadInv
<1>4. CASE threads!Copy
  <2>1. /\ total_read' = total_read + bytes_read
        /\ size' = size /\ content_size' = content_size /\ bytes_read' = bytes_read
        /\ at' = IF bytes_read > 0 THEN "read" ELSE "terminate"
    BY <1>4 DEF threads!Copy
  <2>2. /\ bytes_read \in 0 .. size - total_read /\ Needed(total_read + bytes_read)
        /\ bytes_read = 0 => total_read = size
    BY <1>4 DEF threads!Copy, ThreadInv
  <2>3. total_read' \in 0 .. size /\ (at' = "terminate" => total_read' = size)
    BY <2>1, <2>2, Sized
  <2>4. Needed(total_read)'
    BY <2>1, <2>2 DEF Needed
  <2>5. at' = "terminate" => Needed(size)'
    BY <2>1, <2>3, <2>4 DEF Needed
  <2> QED BY <2>1, <2>3, <2>4, <2>5 DEF ThreadInv
<1>5. CASE threads!Terminate
  BY <1>5 DEF threads!Terminate, ThreadInv
<1> QED BY <1>1, <1>2, <1>3, <1>4, <1>5, GrowKeeps DEF threads!Thread

\* The zero lies outside the buffer for just the files that fill it, or all but
\* one place of it.
LEMMA ThreadWhole ==
  ASSUME ThreadInv
  PROVE  threads!NothingLost
<1> DEFINE c == content_size
<1>1. /\ Initial \in Nat /\ Initial > 0 /\ size \in Nat /\ size <= 27 * Initial - 2
      /\ c \in {Initial, 3 * Initial, 9 * Initial, 27 * Initial}
  <2>1. c \in {Initial, 3 * Initial, 9 * Initial, 27 * Initial}
    BY DEF ThreadInv
  <2>2. Initial > 0
    BY Sized
  <2> QED BY <2>1, <2>2, Sized
<1>2. ASSUME at = "terminate"
      PROVE  total_read = size /\ (threads!Terminator >= c <=> size \in threads!Brim)
  <2>1. total_read = size /\ size <= c /\ (c = Initial \/ c < 3 * size)
    BY <1>2 DEF ThreadInv, Needed
  <2>2. threads!Terminator = size + 1
    BY <2>1 DEF threads!Terminator
  <2>3. size \in threads!Brim <=> size \in {Initial, 3 * Initial, 9 * Initial,
                                                  Initial - 1, 3 * Initial - 1, 9 * Initial - 1}
    BY DEF threads!Brim
  <2> HIDE DEF c
  <2>4. size + 1 >= c <=> size \in {Initial, 3 * Initial, 9 * Initial,
                                    Initial - 1, 3 * Initial - 1, 9 * Initial - 1}
    BY <1>1, <2>1
  <2> QED BY <2>1, <2>2, <2>3, <2>4
<1>3. at = "copy" => total_read + bytes_read <= content_size
  BY DEF ThreadInv, Needed
<1> QED BY <1>2, <1>3 DEF threads!NothingLost
-----------------------------------------------------------------------------
(* The baton.                                                              *)

CarrierPc == {"close read", "open", "print", "pass", "failed", "killed"}

\* The same parent and children in the words of both modules.
LEMMA Kids ==
  /\ baton!Children = 1 .. Files
  /\ \A c \in 1 .. Files : (c \in Carriers <=> pc[c] \in CarrierPc)
  /\ Carriers \subseteq 1 .. Files
BY DEF baton!Children, Carriers, CarrierPc

\* A child makes a step: it may become, stay or no longer be a carrier.
LEMMA ChildSteps ==
  ASSUME Files \in Nat, pc \in [0 .. Files -> BatonPc], NEW c \in 1 .. Files, NEW to \in BatonPc,
         pc' = [pc EXCEPT ![c] = to]
  PROVE  /\ pc' \in [0 .. Files -> BatonPc] /\ pc'[0] = pc[0] /\ pc'[c] = to
         /\ \A d \in 1 .. Files : d # c => pc'[d] = pc[d]
         /\ Carriers' = IF to \in CarrierPc THEN Carriers \cup {c} ELSE Carriers \ {c}
<1>1. c \in 0 .. Files /\ 0 \in 0 .. Files /\ c # 0 /\ 1 .. Files \subseteq 0 .. Files
  OBVIOUS
<1>2. /\ pc' \in [0 .. Files -> BatonPc] /\ pc'[0] = pc[0] /\ pc'[c] = to
      /\ \A d \in 1 .. Files : d # c => pc'[d] = pc[d]
  BY <1>1
<1>3. /\ \A d \in 1 .. Files : (d \in Carriers' <=> pc'[d] \in CarrierPc)
      /\ Carriers' \subseteq 1 .. Files
  BY DEF baton!Children, Carriers, CarrierPc
<1>4. Carriers' = IF to \in CarrierPc THEN Carriers \cup {c} ELSE Carriers \ {c}
  <2>1. \A d \in 1 .. Files :
          (d \in Carriers' <=> (d = c /\ to \in CarrierPc) \/ (d # c /\ d \in Carriers))
    BY <1>2, <1>3, Kids
  <2>2. \A d : d \in Carriers' \/ d \in Carriers => d \in 1 .. Files
    BY <1>3, Kids
  <2> QED BY <2>1, <2>2
<1> QED BY <1>2, <1>4

\* The parent makes a step and no child does.
LEMMA ParentSteps ==
  ASSUME Files \in Nat, pc \in [0 .. Files -> BatonPc], NEW to \in BatonPc, pc' = [pc EXCEPT ![0] = to]
  PROVE  /\ pc' \in [0 .. Files -> BatonPc] /\ pc'[0] = to
         /\ \A d \in 1 .. Files : pc'[d] = pc[d]
         /\ Carriers' = Carriers
<1>1. 0 \in 0 .. Files /\ 1 .. Files \subseteq 0 .. Files /\ 0 \notin 1 .. Files
  OBVIOUS
<1>2. /\ pc' \in [0 .. Files -> BatonPc] /\ pc'[0] = to
      /\ \A d \in 1 .. Files : pc'[d] = pc[d]
  BY <1>1
<1> QED BY <1>2 DEF baton!Children, Carriers

\* What the invariant says of the state's types.
LEMMA BatonTyped ==
  ASSUME BatonInv
  PROVE  /\ pc \in [0 .. Files -> BatonPc] /\ bytes \in Seq({"baton"}) /\ Len(bytes) <= 1
         /\ turns \in Seq(1 .. Files) /\ lines \in [1 .. Files -> Nat]
         /\ rest \subseteq 1 .. Files /\ unflushed \subseteq 1 .. Files
         /\ output \in Seq((1 .. Files) \X Nat \X BOOLEAN)
         /\ terminal \in BOOLEAN /\ i \in 1 .. Files + 1
         /\ Len(turns) \in Nat /\ Len(output) \in Nat
<1>1. turns \in Seq(1 .. Files) /\ output \in Seq((1 .. Files) \X Nat \X BOOLEAN)
  BY DEF BatonInv, BatonTypes, baton!Children
<1>2. Len(turns) \in Nat /\ Len(output) \in Nat
  BY <1>1, LenProperties
<1> QED BY <1>1, <1>2 DEF BatonInv, BatonTypes, baton!Children

\* One turn more takes nobody's turn away.
LEMMA TurnsStay ==
  ASSUME BatonInv, output' = output,
         turns' = turns \/ \E c \in 1 .. Files : turns' = Append(turns, c)
  PROVE  /\ \A c : HadTurn(c) => HadTurn(c)'
         /\ \A j, k : baton!NotAfter(j, k) => baton!NotAfter(j, k)'
<1>1. CASE turns' = turns
  BY <1>1 DEF HadTurn, baton!NotAfter
<1>2. CASE \E c \in 1 .. Files : turns' = Append(turns, c)
  <2>1. PICK c \in 1 .. Files : turns' = Append(turns, c)
    BY <1>2
  <2>2. Len(turns') = Len(turns) + 1 /\ \A a \in 1 .. Len(turns) : turns'[a] = turns[a]
    BY <2>1, BatonTyped, AppendProperties
  <2>3. \A a \in 1 .. Len(turns) : a \in 1 .. Len(turns')
    BY <2>2, BatonTyped
  <2> QED BY <2>2, <2>3 DEF HadTurn, baton!NotAfter
<1> QED BY <1>1, <1>2

\* A step of processes that print nothing and flush nothing: none of them ends
\* that way, or begins to print without having had the baton.
LEMMA NothingPrinted ==
  ASSUME BatonInv, terminal' = terminal, baton!printed' = baton!printed,
         turns' = turns \/ \E c \in 1 .. Files : turns' = Append(turns, c),
         \A c \in 1 .. Files :
           \/ pc'[c] = pc[c]
           \/ /\ pc[c] # "ended" /\ pc'[c] # "ended"
              /\ pc'[c] \in SilentPc \cup {"print"} => pc[c] \in SilentPc
              /\ \/ pc'[c] = "read" \/ pc[c] \notin {"none", "read"}
                 \/ turns' = Append(turns, c)
  PROVE  BatonPrinted' /\ BatonOrder'
<1>1. lines' = lines /\ rest' = rest /\ unflushed' = unflushed /\ output' = output
  BY DEF baton!printed
<1>2. \A c, n, r : baton!Written(c, n, r)' <=> baton!Written(c, n, r)
  BY <1>1 DEF baton!Written
<1>3. BatonPrinted'
  <2> SUFFICES ASSUME NEW c \in 1 .. Files PROVE Accounted(c)'
    BY DEF BatonPrinted, baton!Children
  <2>1. Accounted(c)
    BY DEF BatonInv, BatonPrinted, baton!Children
  <2>2. pc'[c] = "ended" => pc[c] = "ended"
    OBVIOUS
  <2>3. /\ pc'[c] \in SilentPc => pc[c] \in SilentPc
        /\ pc'[c] \in SilentPc \cup {"print"} => pc[c] \in SilentPc \cup {"print"}
    OBVIOUS
  <2>4. pc'[c] # "ended" => pc[c] # "ended"
    OBVIOUS
  <2> QED BY <1>1, <1>2, <2>1, <2>2, <2>3, <2>4 DEF Accounted
<1>4. BatonOrder'
  <2>1. \A c \in 1 .. Files : pc'[c] \in {"none", "read"} \/ HadTurn(c)'
    <3> SUFFICES ASSUME NEW c \in 1 .. Files, pc'[c] \notin {"none", "read"}
                 PROVE  HadTurn(c)'
      OBVIOUS
    <3>1. pc[c] \notin {"none", "read"} => HadTurn(c)
      BY DEF BatonInv, BatonOrder, baton!Children
    <3>2. CASE turns' = Append(turns, c)
      <4>1. Len(turns') = Len(turns) + 1 /\ turns'[Len(turns) + 1] = c
        BY <3>2, BatonTyped, AppendProperties
      <4>2. Len(turns) + 1 \in 1 .. Len(turns')
        BY <4>1, BatonTyped
      <4> QED BY <4>1, <4>2 DEF HadTurn
    <3> QED BY <1>1, <3>1, <3>2, TurnsStay
  <2>2. \A k \in 1 .. Len(output) : HadTurn(output[k][1])'
    BY <1>1, TurnsStay DEF BatonInv, BatonOrder
  <2>3. terminal => \A k \in 1 .. Len(output) :
                      ~output[k][3] => \A j \in 1 .. k : baton!NotAfter(j, k)'
    BY <1>1, TurnsStay DEF BatonInv, BatonOrder
  <2> QED BY <1>1, <2>1, <2>2, <2>3 DEF BatonOrder, HadTurn, baton!Children
<1> QED BY <1>3, <1>4

\* Before the parent writes the baton every child waits for it or is not there yet.
LEMMA NobodyYet ==
  ASSUME BatonInv, pc[0] \in {"fork", "close read", "write"}
  PROVE  Carriers = {} /\ bytes = <<>>
<1>1. bytes = <<>> /\ \A c \in 1 .. Files : pc[c] \in {"none", "read"}
  BY Kids DEF BatonInv, BatonStart
<1> QED BY <1>1, Kids DEF CarrierPc

\* fork gives the child the read end it waits at.
LEMMA ForkKeeps ==
  ASSUME Files \in Nat, BatonInv, baton!Fork
  PROVE  BatonInv'
<1>1. /\ i \in 1 .. Files /\ pc[0] = "fork" /\ i' = i + 1 /\ pc \in [0 .. Files -> BatonPc]
      /\ bytes' = bytes /\ terminal' = terminal /\ baton!printed' = baton!printed
      /\ turns' = turns
  BY DEF baton!Fork, BatonInv, BatonTypes
<1>2. /\ Carriers = {} /\ bytes = <<>>
      /\ \A c \in 1 .. Files : pc[c] \in {"none", "read"}
      /\ <<0, "pipes">> \in readers
      /\ \A c \in 1 .. Files : pc[c] = "read" => <<c, "pipes">> \in readers
  BY <1>1, NobodyYet, Kids DEF BatonInv, BatonStart
<1>3. /\ pc' \in [0 .. Files -> BatonPc] /\ pc'[0] = "fork"
      /\ \A c \in 1 .. Files : pc'[c] = pc[c] \/ pc'[c] = "read"
      /\ <<0, "pipes">> \in readers'
      /\ \A c \in 1 .. Files : pc'[c] = "read" => <<c, "pipes">> \in readers'
  <2>1. CASE pc' = [pc EXCEPT ![i] = "read"] /\ readers' = baton!Inherited(readers, 0, i)
    <3>1. "read" \in BatonPc
      BY DEF BatonPc
    <3>2. /\ pc' \in [0 .. Files -> BatonPc] /\ pc'[0] = pc[0] /\ pc'[i] = "read"
          /\ \A d \in 1 .. Files : d # i => pc'[d] = pc[d]
      BY <1>1, <2>1, <3>1, ChildSteps
    <3>3. readers \subseteq readers' /\ <<i, "pipes">> \in readers'
      BY <1>2, <2>1, BatonEnds
    <3> QED BY <1>1, <1>2, <3>2, <3>3
  <2>2. CASE pc' = pc /\ readers' = readers
    BY <1>1, <1>2, <2>2
  <2> QED BY <2>1, <2>2 DEF baton!Fork
<1>4. Carriers' = {}
  BY <1>2, <1>3 DEF Carriers, baton!Children
<1>5. BatonTypes'
  <2>1. i' \in 1 .. Files + 1
    BY <1>1
  <2> QED BY <1>1, <1>3, <2>1 DEF BatonInv, BatonTypes, baton!printed, baton!Children
<1>6. BatonStart'
  BY <1>1, <1>2, <1>3, Kids DEF BatonStart
<1>7. BatonOnce'
  BY <1>1, <1>2, <1>3, <1>4, Kids DEF BatonOnce, baton!Children
<1>8. BatonPrinted' /\ BatonOrder'
  <2>1. \A c \in 1 .. Files : pc[c] \in SilentPc
    BY <1>2 DEF SilentPc
  <2> QED BY <1>1, <1>3, <2>1, NothingPrinted
<1> QED BY <1>5, <1>6, <1>7, <1>8 DEF BatonInv

\* The parent closes what it has open, waits, or goes on to the next: the
\* children keep their ends.
LEMMA ParentGoes ==
  ASSUME Files \in Nat, BatonInv, NEW to \in BatonPc, pc' = [pc EXCEPT ![0] = to],
         to # "fork", to \in {"close read", "write"} => pc[0] \in {"fork", "close read"},
         \A c \in 1 .. Files : <<c, "pipes">> \in readers => <<c, "pipes">> \in readers',
         i' = i, bytes' = bytes, terminal' = terminal, baton!printed' = baton!printed, turns' = turns
  PROVE  BatonInv'
<1>1. /\ pc' \in [0 .. Files -> BatonPc] /\ pc'[0] = to
      /\ \A d \in 1 .. Files : pc'[d] = pc[d]
      /\ Carriers' = Carriers
  BY BatonTyped, ParentSteps
<1>2. BatonTypes'
  BY <1>1 DEF BatonInv, BatonTypes, baton!printed
<1>3. BatonStart'
  BY <1>1, Kids DEF BatonInv, BatonStart, baton!Children
<1>4. BatonOnce'
  BY <1>1, Kids DEF BatonInv, BatonOnce, baton!Children
<1>5. BatonPrinted' /\ BatonOrder'
  BY <1>1, NothingPrinted
<1> QED BY <1>2, <1>3, <1>4, <1>5 DEF BatonInv

\* The baton is written when nobody has it.
LEMMA ParentWritesKeeps ==
  ASSUME Files \in Nat, BatonInv, baton!ParentWrites
  PROVE  BatonInv'
<1>1. /\ pc[0] = "write" /\ pc' = [pc EXCEPT ![0] = "close write"]
      /\ pc \in [0 .. Files -> BatonPc] /\ readers' = readers /\ i' = i
      /\ bytes' = Append(bytes, "baton") /\ terminal' = terminal
      /\ baton!printed' = baton!printed /\ turns' = turns
  BY DEF baton!ParentWrites, baton!Go, baton!WriteTo, BatonInv, BatonTypes
<1>2. Carriers = {} /\ bytes = <<>>
  BY <1>1, NobodyYet
<1>3. "close write" \in BatonPc
  BY DEF BatonPc
<1>4. /\ pc' \in [0 .. Files -> BatonPc] /\ pc'[0] = "close write"
      /\ \A d \in 1 .. Files : pc'[d] = pc[d]
      /\ Carriers' = Carriers
  BY <1>1, <1>3, ParentSteps
<1>5. bytes' \in Seq({"baton"}) /\ Len(bytes') = 1 /\ Len(bytes') <= 1
  <2>1. bytes \in Seq({"baton"}) /\ Len(bytes) = 0
    BY <1>2 DEF BatonInv, BatonTypes
  <2>2. bytes' \in Seq({"baton"}) /\ Len(bytes') = Len(bytes) + 1
    BY <1>1, <2>1, AppendProperties
  <2> QED BY <2>1, <2>2
<1>6. BatonTypes'
  BY <1>1, <1>4, <1>5 DEF BatonInv, BatonTypes, baton!printed, baton!Children
<1>7. BatonStart'
  BY <1>1, <1>4, Kids DEF BatonInv, BatonStart, baton!Children
<1>8. BatonOnce'
  BY <1>1, <1>2, <1>4, Kids DEF BatonInv, BatonOnce, baton!Children
<1>9. BatonPrinted' /\ BatonOrder'
  BY <1>1, <1>4, NothingPrinted
<1> QED BY <1>6, <1>7, <1>8, <1>9 DEF BatonInv

\* All that the parent does.
LEMMA BatonParentKeeps ==
  ASSUME Files \in Nat, BatonInv, baton!Parent
  PROVE  BatonInv'
<1>1. CASE baton!ForksMade
  <2>1. PICK to \in {"close read", "wait"} : pc' = [pc EXCEPT ![0] = to]
    BY <1>1 DEF baton!ForksMade, baton!Go
  <2>2. to \in BatonPc /\ to # "fork"
    BY DEF BatonPc
  <2>3. /\ pc[0] = "fork" /\ readers' = readers /\ i' = i /\ bytes' = bytes
        /\ terminal' = terminal /\ baton!printed' = baton!printed /\ turns' = turns
    BY <1>1 DEF baton!ForksMade, baton!Go, baton!pipe
  <2> QED BY <2>1, <2>2, <2>3, ParentGoes
<1>2. CASE baton!ParentClosesRead
  <2>1. "write" \in BatonPc
    BY DEF BatonPc
  <2>2. /\ pc[0] = "close read" /\ pc' = [pc EXCEPT ![0] = "write"] /\ i' = i /\ bytes' = bytes
        /\ terminal' = terminal /\ baton!printed' = baton!printed /\ turns' = turns
        /\ readers' = readers \ {<<0, "pipes">>}
    BY <1>2 DEF baton!ParentClosesRead, baton!Go
  <2>3. ASSUME NEW c \in 1 .. Files, <<c, "pipes">> \in readers
        PROVE  <<c, "pipes">> \in readers'
    <3>1. c # 0
      OBVIOUS
    <3>2. <<c, "pipes">> # <<0, "pipes">>
      BY <3>1
    <3> QED BY <2>2, <2>3, <3>2
  <2> QED BY <2>1, <2>2, <2>3, ParentGoes
<1>3. CASE baton!ParentClosesWrite
  <2>1. "wait" \in BatonPc
    BY DEF BatonPc
  <2>2. /\ pc' = [pc EXCEPT ![0] = "wait"] /\ i' = i /\ bytes' = bytes /\ readers' = readers
        /\ terminal' = terminal /\ baton!printed' = baton!printed /\ turns' = turns
    BY <1>3 DEF baton!ParentClosesWrite, baton!Go
  <2> QED BY <2>1, <2>2, ParentGoes
<1>4. CASE baton!ParentWaits
  <2>1. "ended" \in BatonPc
    BY DEF BatonPc
  <2>2. /\ pc' = [pc EXCEPT ![0] = "ended"] /\ i' = i /\ bytes' = bytes
        /\ terminal' = terminal /\ baton!printed' = baton!printed /\ turns' = turns
        /\ readers' = baton!Without(readers, 0)
    BY <1>4 DEF baton!ParentWaits, baton!Go, baton!ExitCloses
  <2>3. ASSUME NEW c \in 1 .. Files, <<c, "pipes">> \in readers
        PROVE  <<c, "pipes">> \in readers'
    <3>1. c # 0
      OBVIOUS
    <3>2. <<c, "pipes">> \in baton!Without(readers, 0)
      BY <2>3, <3>1, BatonEnds
    <3> QED BY <2>2, <3>2
  <2> QED BY <2>1, <2>2, <2>3, ParentGoes
<1> QED BY <1>1, <1>2, <1>3, <1>4, ForkKeeps, ParentWritesKeeps DEF baton!Parent
\* Whoever has the baton, or has kept it, is alone with it, and is the last
\* whose turn it was.
LEMMA OneCarrier ==
  ASSUME BatonInv, NEW c \in 1 .. Files, pc[c] \in CarrierPc
  PROVE  /\ Carriers = {c} /\ bytes = <<>> /\ turns # <<>> /\ c = turns[Len(turns)]
         /\ pc[0] \notin {"fork", "close read", "write"}
<1>1. c \in Carriers
  BY Kids
<1>2. /\ \A d, e \in Carriers : d = e
      /\ bytes # <<>> => Carriers = {}
      /\ \A d \in Carriers : turns # <<>> /\ d = turns[Len(turns)]
  BY DEF BatonInv, BatonOnce
<1>3. Carriers = {c}
  BY <1>1, <1>2
<1>4. pc[0] \notin {"fork", "close read", "write"}
  BY <1>1, NobodyYet
<1> QED BY <1>1, <1>2, <1>3, <1>4

\* A carrier makes a step and stays one: the baton does not move.
LEMMA CarrierGoes ==
  ASSUME Files \in Nat, BatonInv, NEW c \in 1 .. Files, pc[c] \in CarrierPc,
         NEW to \in CarrierPc, pc' = [pc EXCEPT ![c] = to],
         pc[c] # "killed", to = "killed" => \A d \in 1 .. Files : pc[d] # "read",
         \A d \in 1 .. Files : d # c /\ <<d, "pipes">> \in readers => <<d, "pipes">> \in readers',
         bytes' = bytes, turns' = turns
  PROVE  BatonStart' /\ BatonOnce'
<1>1. to \in BatonPc /\ pc \in [0 .. Files -> BatonPc]
  BY DEF BatonPc, CarrierPc, BatonInv, BatonTypes
<1>2. /\ Carriers = {c} /\ bytes = <<>> /\ turns # <<>> /\ c = turns[Len(turns)]
      /\ pc[0] \notin {"fork", "close read", "write"}
  BY OneCarrier
<1>3. /\ pc'[0] = pc[0] /\ pc'[c] = to /\ Carriers' = {c}
      /\ \A d \in 1 .. Files : d # c => pc'[d] = pc[d]
  BY <1>1, <1>2, ChildSteps
<1>4. to # "read"
  BY DEF CarrierPc
<1>5. BatonStart'
  BY <1>2, <1>3, <1>4 DEF BatonInv, BatonStart, baton!Children
<1>6. \A d \in 1 .. Files : pc'[d] = "killed" => \A e \in 1 .. Files : pc'[e] # "read"
  <2> SUFFICES ASSUME NEW d \in 1 .. Files, pc'[d] = "killed", NEW e \in 1 .. Files
               PROVE  pc'[e] # "read"
    OBVIOUS
  <2>1. CASE d = c
    BY <1>3, <1>4, <2>1
  <2>2. CASE d # c
    <3>1. d \in Carriers
      BY <1>3, <2>2, Kids DEF CarrierPc
    <3> QED BY <1>2, <2>2, <3>1
  <2> QED BY <2>1, <2>2
<1>7. BatonOnce'
  BY <1>2, <1>3, <1>6 DEF BatonOnce, baton!Children
<1> QED BY <1>5, <1>7

\* The types, when a child has moved and printed nothing.
LEMMA ChildTypes ==
  ASSUME Files \in Nat, BatonInv, NEW c \in 1 .. Files, NEW to \in BatonPc,
         pc' = [pc EXCEPT ![c] = to], i' = i, terminal' = terminal,
         bytes' \in Seq({"baton"}), Len(bytes') <= 1, turns' \in Seq(1 .. Files),
         baton!printed' = baton!printed
  PROVE  BatonTypes'
<1>1. pc' \in [0 .. Files -> BatonPc]
  BY BatonTyped, ChildSteps
<1> QED BY <1>1 DEF BatonInv, BatonTypes, baton!printed, baton!Children

\* A child takes the baton out of the pipe: it is the only carrier.
LEMMA TakeBatonKeeps ==
  ASSUME Files \in Nat, BatonInv, NEW c \in 1 .. Files, baton!TakeBaton(c)
  PROVE  BatonInv'
<1>1. /\ pc[c] = "read" /\ pc' = [pc EXCEPT ![c] = "close read"] /\ bytes # <<>>
      /\ bytes' = Tail(bytes) /\ readers' = readers /\ turns' = Append(turns, c)
      /\ terminal' = terminal /\ i' = i /\ baton!printed' = baton!printed
  BY DEF baton!TakeBaton, baton!Go, baton!ReadPipe
<1>2. "close read" \in BatonPc /\ "close read" \in CarrierPc
  BY DEF BatonPc, CarrierPc
<1>3. Carriers = {} /\ pc[0] \notin {"fork", "close read", "write"}
  BY <1>1, NobodyYet DEF BatonInv, BatonOnce
<1>4. /\ pc'[0] = pc[0] /\ pc'[c] = "close read" /\ Carriers' = {c}
      /\ \A d \in 1 .. Files : d # c => pc'[d] = pc[d]
  BY <1>1, <1>2, <1>3, BatonTyped, ChildSteps
<1>5. bytes' \in Seq({"baton"}) /\ Len(bytes') <= 1 /\ bytes' = <<>>
  <2>1. bytes \in Seq({"baton"}) /\ Len(bytes) = 1
    <3>1. bytes \in Seq({"baton"}) /\ Len(bytes) <= 1
      BY BatonTyped
    <3>2. Len(bytes) \in Nat /\ Len(bytes) # 0
      BY <1>1, <3>1, EmptySeq, LenProperties
    <3>3. \A n \in Nat : n <= 1 /\ n # 0 => n = 1
      OBVIOUS
    <3>4. Len(bytes) = 1
      BY ONLY <3>1, <3>2, <3>3, Zenon
    <3> QED BY <3>1, <3>4
  <2>2. bytes' \in Seq({"baton"}) /\ Len(bytes') = Len(bytes) - 1
    BY <1>1, <2>1, HeadTailProperties
  <2>3. Len(bytes') = 0 /\ Len(bytes') <= 1
    BY <2>1, <2>2
  <2> QED BY <2>2, <2>3, EmptySeq
<1>6. /\ turns' \in Seq(1 .. Files) /\ Len(turns') = Len(turns) + 1
      /\ turns'[Len(turns) + 1] = c /\ turns' # <<>>
  <2>1. turns \in Seq(1 .. Files) /\ Len(turns) \in Nat /\ turns' = Append(turns, c)
    BY <1>1, BatonTyped
  <2>2. /\ turns' \in Seq(1 .. Files) /\ Len(turns') = Len(turns) + 1
        /\ turns'[Len(turns) + 1] = c
    BY <2>1, AppendProperties
  <2>3. Len(turns') # 0
    BY <2>1, <2>2
  <2> QED BY <2>2, <2>3, EmptySeq
<1>7. BatonTypes'
  BY <1>1, <1>2, <1>5, <1>6, BatonTyped, ChildTypes
<1>8. BatonStart'
  BY <1>1, <1>3, <1>4 DEF BatonInv, BatonStart, baton!Children
<1>9. BatonOnce'
  <2>1. \A d \in 1 .. Files : pc'[d] # "killed"
    <3>1. \A d \in 1 .. Files : pc[d] # "killed"
      BY <1>3, Kids DEF CarrierPc
    <3> QED BY <1>4, <3>1
  <2>2. \A d \in Carriers' : turns' # <<>> /\ d = turns'[Len(turns')]
    BY <1>4, <1>6
  <2> QED BY <1>4, <1>5, <2>1, <2>2 DEF BatonOnce, baton!Children
<1>10. BatonPrinted' /\ BatonOrder'
  <2>1. pc[c] \in SilentPc
    BY <1>1 DEF SilentPc
  <2> QED BY <1>1, <1>4, <2>1, NothingPrinted
<1> QED BY <1>7, <1>8, <1>9, <1>10 DEF BatonInv

\* A child that has the baton and keeps it, and prints nothing: it closes its
\* end, opens its file or fails to, or is killed with what it has printed.
LEMMA CarrierKeeps ==
  ASSUME Files \in Nat, BatonInv, NEW c \in 1 .. Files, pc[c] \in CarrierPc,
         NEW to \in CarrierPc, pc' = [pc EXCEPT ![c] = to], pc[c] # "killed",
         to \in SilentPc \cup {"print"} => pc[c] \in SilentPc,
         to = "killed" => \A d \in 1 .. Files : pc[d] # "read",
         \A d \in 1 .. Files : d # c /\ <<d, "pipes">> \in readers => <<d, "pipes">> \in readers',
         bytes' = bytes, turns' = turns, terminal' = terminal, i' = i,
         baton!printed' = baton!printed
  PROVE  BatonInv'
<1>1. /\ to \in BatonPc /\ to \notin {"none", "read", "ended"}
      /\ pc[c] \notin {"none", "read", "ended"}
  BY DEF BatonPc, CarrierPc
<1>2. BatonStart' /\ BatonOnce'
  BY CarrierGoes
<1>3. BatonTypes'
  BY <1>1, BatonTyped, ChildTypes
<1>4. pc'[c] = to /\ \A d \in 1 .. Files : d # c => pc'[d] = pc[d]
  BY <1>1, BatonTyped, ChildSteps
<1>5. BatonPrinted' /\ BatonOrder'
  BY <1>1, <1>4, NothingPrinted
<1> QED BY <1>2, <1>3, <1>5 DEF BatonInv

-----------------------------------------------------------------------------
(* What the children print.                                                *)

\* One text more is written out.
LEMMA OutputGrows ==
  ASSUME BatonInv, NEW c \in 1 .. Files, NEW n \in Nat, NEW r \in BOOLEAN,
         output' = Append(output, baton!Text(c, n, r))
  PROVE  /\ output' \in Seq((1 .. Files) \X Nat \X BOOLEAN)
         /\ Len(output') = Len(output) + 1
         /\ output'[Len(output) + 1][1] = c /\ output'[Len(output) + 1][3] = r
         /\ \A k \in 1 .. Len(output) : output'[k] = output[k]
         /\ baton!Written(c, n, r)'
         /\ \A d, m, q : baton!Written(d, m, q) => baton!Written(d, m, q)'
         /\ \A d : d # c /\ (\A k \in 1 .. Len(output) : output[k][1] # d) =>
                     \A k \in 1 .. Len(output') : output'[k][1] # d
<1>1. baton!Text(c, n, r) \in (1 .. Files) \X Nat \X BOOLEAN
  BY DEF baton!Text
<1>2. /\ output' \in Seq((1 .. Files) \X Nat \X BOOLEAN)
      /\ Len(output') = Len(output) + 1 /\ Len(output) \in Nat
      /\ output'[Len(output) + 1] = baton!Text(c, n, r)
      /\ \A k \in 1 .. Len(output) : output'[k] = output[k]
  BY <1>1, BatonTyped, AppendProperties
<1>3. output'[Len(output) + 1][1] = c /\ output'[Len(output) + 1][3] = r
  BY <1>2 DEF baton!Text
<1>4. /\ \A k \in 1 .. Len(output') : k \in 1 .. Len(output) \/ k = Len(output) + 1
      /\ \A k \in 1 .. Len(output) : k \in 1 .. Len(output')
      /\ Len(output) + 1 \in 1 .. Len(output')
  BY <1>2
<1>5. baton!Written(c, n, r)'
  BY <1>2, <1>4 DEF baton!Written, baton!Text
<1>6. \A d, m, q : baton!Written(d, m, q) => baton!Written(d, m, q)'
  BY <1>2, <1>4 DEF baton!Written, baton!Text
<1>7. \A d : d # c /\ (\A k \in 1 .. Len(output) : output[k][1] # d) =>
               \A k \in 1 .. Len(output') : output'[k][1] # d
  BY <1>2, <1>3, <1>4
<1> QED BY <1>2, <1>3, <1>5, <1>6, <1>7

\* What others have printed a child's step leaves alone.
LEMMA OthersPrinted ==
  ASSUME BatonInv, NEW c \in 1 .. Files, terminal' = terminal,
         \A d \in 1 .. Files : d # c =>
           /\ pc'[d] = pc[d] /\ lines'[d] = lines[d]
           /\ (d \in rest' <=> d \in rest) /\ (d \in unflushed' <=> d \in unflushed),
         \/ output' = output
         \/ \E n \in Nat, r \in BOOLEAN : output' = Append(output, baton!Text(c, n, r)),
         Accounted(c)'
  PROVE  BatonPrinted'
<1>1. SUFFICES ASSUME NEW d \in 1 .. Files, d # c PROVE Accounted(d)'
  BY DEF BatonPrinted, baton!Children
<1>2. /\ \A m, q : baton!Written(d, m, q) => baton!Written(d, m, q)'
      /\ (\A k \in 1 .. Len(output) : output[k][1] # d) =>
           \A k \in 1 .. Len(output') : output'[k][1] # d
  <2>1. CASE output' = output
    BY <2>1 DEF baton!Written
  <2>2. CASE \E n \in Nat, r \in BOOLEAN : output' = Append(output, baton!Text(c, n, r))
    BY <1>1, <2>2, OutputGrows
  <2> QED BY <2>1, <2>2
<1>3. Accounted(d)
  BY DEF BatonInv, BatonPrinted, baton!Children
<1>4. (d \in rest') = (d \in rest)
  BY <1>1
<1> QED BY <1>1, <1>2, <1>3, <1>4 DEF Accounted

\* A line is written out in the turn of the child that prints it; the rest of a
\* file may be at any time after that turn has begun.
LEMMA OrderGrows ==
  ASSUME BatonInv, NEW c \in 1 .. Files, NEW n \in Nat, NEW r \in BOOLEAN,
         output' = Append(output, baton!Text(c, n, r)),
         HadTurn(c), r \/ ~terminal \/ (turns # <<>> /\ c = turns[Len(turns)]),
         terminal' = terminal, turns' = turns,
         \A d \in 1 .. Files : d # c => pc'[d] = pc[d]
  PROVE  BatonOrder'
<1>1. /\ Len(output') = Len(output) + 1
      /\ output'[Len(output) + 1][1] = c /\ output'[Len(output) + 1][3] = r
      /\ \A k \in 1 .. Len(output) : output'[k] = output[k]
  BY OutputGrows
<1>2. /\ \A k \in 1 .. Len(output') : k \in 1 .. Len(output) \/ k = Len(output) + 1
      /\ Len(output) \in Nat /\ Len(turns) \in Nat
  BY <1>1, BatonTyped
<1>3. \A d : HadTurn(d)' <=> HadTurn(d)
  BY DEF HadTurn
<1>4. \A d \in 1 .. Files : pc'[d] \in {"none", "read"} \/ HadTurn(d)'
  BY <1>3 DEF BatonInv, BatonOrder, baton!Children
<1>5. \A k \in 1 .. Len(output') : \E a \in 1 .. Len(turns) : turns[a] = output'[k][1]
  <2>1. /\ \A k \in 1 .. Len(output) : \E a \in 1 .. Len(turns) : turns[a] = output[k][1]
        /\ \E a \in 1 .. Len(turns) : turns[a] = c
    BY DEF BatonInv, BatonOrder, HadTurn
  <2> QED BY <1>1, <1>2, <2>1
<1>6. ASSUME terminal, NEW k \in 1 .. Len(output'), ~output'[k][3], NEW j \in 1 .. k
      PROVE  baton!NotAfter(j, k)'
  <2>1. CASE k \in 1 .. Len(output)
    <3>1. j \in 1 .. Len(output)
      BY <1>2, <2>1
    <3>2. baton!NotAfter(j, k)
      BY <1>1, <1>6, <2>1 DEF BatonInv, BatonOrder
    <3> QED BY <1>1, <2>1, <3>1, <3>2 DEF baton!NotAfter
  <2>2. CASE k = Len(output) + 1
    <3>1. /\ turns # <<>> /\ c = turns[Len(turns)] /\ output'[k][1] = c
          /\ Len(turns) \in 1 .. Len(turns)
      <4>1. turns # <<>> /\ c = turns[Len(turns)] /\ output'[k][1] = c
        BY <1>1, <1>6, <2>2
      <4>2. Len(turns) # 0
        BY <4>1, BatonTyped, EmptySeq
      <4> QED BY <1>2, <4>1, <4>2
    <3>2. j \in 1 .. Len(output')
      BY <1>1, <1>2, <2>2
    <3>3. PICK a \in 1 .. Len(turns) : turns[a] = output'[j][1]
      BY <1>5, <3>2
    <3>4. a <= Len(turns)
      BY <1>2
    <3> QED BY <3>1, <3>3, <3>4 DEF baton!NotAfter
  <2> QED BY <1>2, <2>1, <2>2
<1>7. \A k \in 1 .. Len(output') : \E a \in 1 .. Len(turns') : turns'[a] = output'[k][1]
  BY <1>5
<1> QED BY <1>4, <1>6, <1>7 DEF BatonOrder, HadTurn, baton!Children

\* A child that has not written anything has not changed the order either.
LEMMA OrderStays ==
  ASSUME BatonInv, NEW c \in 1 .. Files, output' = output, terminal' = terminal, turns' = turns,
         HadTurn(c), \A d \in 1 .. Files : d # c => pc'[d] = pc[d]
  PROVE  BatonOrder'
<1>1. \A d : HadTurn(d)' <=> HadTurn(d)
  BY DEF HadTurn
<1>2. \A j, k : baton!NotAfter(j, k)' <=> baton!NotAfter(j, k)
  BY DEF baton!NotAfter
<1> QED BY <1>1, <1>2 DEF BatonInv, BatonOrder, baton!Children

\* A line more, on the terminal or in the buffer.
LEMMA PrintLineKeeps ==
  ASSUME Files \in Nat, BatonInv, NEW c \in 1 .. Files, baton!PrintLine(c)
  PROVE  BatonInv'
<1>1. /\ pc[c] = "print" /\ lines' = [lines EXCEPT ![c] = @ + 1] /\ rest' = rest
      /\ bytes' = bytes /\ readers' = readers /\ turns' = turns /\ terminal' = terminal
      /\ i' = i /\ pc' = pc
      /\ terminal => output' = Append(output, baton!Text(c, lines'[c], FALSE))
                       /\ unflushed' = unflushed
      /\ ~terminal => output' = output /\ unflushed' = unflushed \cup {c}
  BY DEF baton!PrintLine, baton!pipe
<1>2. /\ lines' \in [1 .. Files -> Nat] /\ lines'[c] = lines[c] + 1 /\ lines'[c] \in Nat
      /\ \A d \in 1 .. Files : d # c => lines'[d] = lines[d]
  BY <1>1, BatonTyped
<1>3. BatonStart' /\ BatonOnce'
  BY <1>1 DEF BatonInv, BatonStart, BatonOnce, Carriers
<1>4. HadTurn(c) /\ turns # <<>> /\ c = turns[Len(turns)]
  <2>1. pc[c] \in CarrierPc
    BY <1>1 DEF CarrierPc
  <2>2. HadTurn(c)
    BY <1>1 DEF BatonInv, BatonOrder, baton!Children
  <2> QED BY <2>1, <2>2, OneCarrier
<1>5. /\ output' \in Seq((1 .. Files) \X Nat \X BOOLEAN)
      /\ terminal => baton!Written(c, lines[c], FALSE)'
      /\ ~terminal => \A k \in 1 .. Len(output') : output'[k][1] # c
  <2>1. CASE terminal
    BY <1>1, <1>2, <2>1, OutputGrows
  <2>2. CASE ~terminal
    BY <1>1, <2>2, BatonTyped DEF BatonInv, BatonPrinted, Accounted, baton!Children
  <2> QED BY <2>1, <2>2
<1>6. BatonTypes'
  <2>1. unflushed' \subseteq 1 .. Files
    BY <1>1, BatonTyped
  <2> QED BY <1>1, <1>2, <1>5, <2>1 DEF BatonInv, BatonTypes, baton!Children
<1>7. Accounted(c)'
  <2>1. Accounted(c) /\ pc'[c] = "print" /\ "print" \notin SilentPc
    BY <1>1 DEF BatonInv, BatonPrinted, baton!Children, SilentPc
  <2> QED BY <1>1, <1>5, <2>1 DEF Accounted
<1>8. BatonPrinted'
  BY <1>1, <1>2, <1>7, OthersPrinted
<1>9. BatonOrder'
  <2>1. CASE terminal
    BY <1>1, <1>2, <1>4, <2>1, OrderGrows
  <2>2. CASE ~terminal
    BY <1>1, <1>4, <2>2, OrderStays
  <2> QED BY <2>1, <2>2
<1> QED BY <1>3, <1>6, <1>8, <1>9 DEF BatonInv

\* The end of the file: its rest waits in the buffer, on a terminal too.
LEMMA PrintRestKeeps ==
  ASSUME Files \in Nat, BatonInv, NEW c \in 1 .. Files, baton!PrintRest(c)
  PROVE  BatonInv'
<1>1. /\ pc[c] = "print" /\ pc' = [pc EXCEPT ![c] = "pass"] /\ lines' = lines
      /\ bytes' = bytes /\ readers' = readers /\ turns' = turns /\ terminal' = terminal
      /\ i' = i /\ output' = output
      /\ \/ rest' = rest \cup {c} /\ unflushed' = unflushed \cup {c}
         \/ rest' = rest /\ unflushed' = unflushed
  BY DEF baton!PrintRest, baton!Go, baton!pipe
<1>2. "pass" \in BatonPc /\ "pass" \in CarrierPc /\ "print" \in CarrierPc
  BY DEF BatonPc, CarrierPc
<1>3. BatonStart' /\ BatonOnce'
  BY <1>1, <1>2, CarrierGoes
<1>4. /\ pc' \in [0 .. Files -> BatonPc] /\ pc'[c] = "pass"
      /\ \A d \in 1 .. Files : d # c => pc'[d] = pc[d]
  BY <1>1, <1>2, BatonTyped, ChildSteps
<1>5. BatonTypes'
  <2>1. rest' \subseteq 1 .. Files /\ unflushed' \subseteq 1 .. Files
    BY <1>1, BatonTyped
  <2> QED BY <1>1, <1>4, <2>1 DEF BatonInv, BatonTypes, baton!Children
<1>6. Accounted(c)'
  <2>1. Accounted(c) /\ "pass" \notin SilentPc \cup {"print"} /\ c \notin rest
    BY <1>1 DEF BatonInv, BatonPrinted, Accounted, baton!Children, SilentPc
  <2>2. \A m, q : baton!Written(c, m, q)' <=> baton!Written(c, m, q)
    BY <1>1 DEF baton!Written
  <2> QED BY <1>1, <1>4, <2>1, <2>2 DEF Accounted
<1>7. BatonPrinted'
  BY <1>1, <1>4, <1>6, OthersPrinted
<1>8. BatonOrder'
  <2>1. HadTurn(c)
    BY <1>1 DEF BatonInv, BatonOrder, baton!Children
  <2> QED BY <1>1, <1>4, <2>1, OrderStays
<1> QED BY <1>3, <1>5, <1>7, <1>8 DEF BatonInv

\* The baton goes back into the pipe.
LEMMA PassBatonKeeps ==
  ASSUME Files \in Nat, BatonInv, NEW c \in 1 .. Files, baton!PassBaton(c)
  PROVE  BatonInv'
<1>1. /\ pc[c] = "pass" /\ pc' = [pc EXCEPT ![c] = "exit"]
      /\ bytes' = Append(bytes, "baton") /\ readers' = readers
      /\ turns' = turns /\ terminal' = terminal /\ i' = i /\ baton!printed' = baton!printed
  BY DEF baton!PassBaton, baton!Go, baton!WriteTo
<1>2. "exit" \in BatonPc /\ "exit" \notin CarrierPc /\ "pass" \in CarrierPc
  BY DEF BatonPc, CarrierPc
<1>3. Carriers = {c} /\ bytes = <<>> /\ pc[0] \notin {"fork", "close read", "write"}
  BY <1>1, <1>2, OneCarrier
<1>4. /\ pc'[0] = pc[0] /\ pc'[c] = "exit" /\ \A d \in 1 .. Files : d # c => pc'[d] = pc[d]
      /\ Carriers' = {}
  BY <1>1, <1>2, <1>3, BatonTyped, ChildSteps
<1>5. bytes' \in Seq({"baton"}) /\ Len(bytes') = 1 /\ Len(bytes') <= 1
  <2>1. bytes \in Seq({"baton"}) /\ Len(bytes) = 0
    BY <1>3, BatonTyped
  <2>2. bytes' \in Seq({"baton"}) /\ Len(bytes') = Len(bytes) + 1
    BY <1>1, <2>1, AppendProperties
  <2> QED BY <2>1, <2>2
<1>6. BatonTypes'
  BY <1>1, <1>2, <1>5, BatonTyped, ChildTypes
<1>7. BatonStart'
  BY <1>1, <1>3, <1>4 DEF BatonInv, BatonStart, baton!Children
<1>8. BatonOnce'
  <2>1. \A d \in 1 .. Files : pc'[d] # "killed"
    <3>1. \A d \in 1 .. Files : d # c => pc[d] # "killed"
      BY <1>3, Kids DEF CarrierPc
    <3> QED BY <1>4, <3>1
  <2> QED BY <1>4, <2>1 DEF BatonOnce, baton!Children
<1>9. BatonPrinted' /\ BatonOrder'
  <2>1. "exit" \notin SilentPc \cup {"print"}
    BY DEF SilentPc
  <2> QED BY <1>1, <1>4, <2>1, NothingPrinted
<1> QED BY <1>6, <1>7, <1>8, <1>9 DEF BatonInv

\* What is still in the buffer of a child is written out when it exits.
LEMMA ExitKeeps ==
  ASSUME Files \in Nat, BatonInv, NEW c \in 1 .. Files, baton!Exit(c)
  PROVE  BatonInv'
<1>1. /\ pc[c] = "exit" /\ pc' = [pc EXCEPT ![c] = "ended"]
      /\ bytes' = bytes /\ readers' = baton!Without(readers, c)
      /\ turns' = turns /\ terminal' = terminal /\ i' = i /\ lines' = lines /\ rest' = rest
      /\ output' = IF c \in unflushed THEN Append(output, baton!Text(c, lines[c], c \in rest))
                   ELSE output
      /\ unflushed' = unflushed \ {c}
  BY DEF baton!Exit, baton!Go, baton!ExitCloses
<1>2. "ended" \in BatonPc /\ "ended" \notin CarrierPc /\ "exit" \notin CarrierPc
  BY DEF BatonPc, CarrierPc
<1>3. /\ pc' \in [0 .. Files -> BatonPc] /\ pc'[0] = pc[0] /\ pc'[c] = "ended"
      /\ \A d \in 1 .. Files : d # c => pc'[d] = pc[d]
      /\ Carriers' = Carriers
  <2>1. c \notin Carriers
    BY <1>1, <1>2, Kids
  <2>2. /\ pc' \in [0 .. Files -> BatonPc] /\ pc'[0] = pc[0] /\ pc'[c] = "ended"
        /\ \A d \in 1 .. Files : d # c => pc'[d] = pc[d]
        /\ Carriers' = Carriers \ {c}
    BY <1>1, <1>2, BatonTyped, ChildSteps
  <2> QED BY <2>1, <2>2
<1>4. lines[c] \in Nat /\ (c \in rest) \in BOOLEAN
  BY BatonTyped
<1>5. /\ output' \in Seq((1 .. Files) \X Nat \X BOOLEAN)
      /\ \A m, q : baton!Written(c, m, q) => baton!Written(c, m, q)'
      /\ baton!Written(c, lines[c], c \in rest)'
  <2>1. CASE c \in unflushed
    <3> DEFINE r == c \in rest
    <3>1. output' = Append(output, baton!Text(c, lines[c], r)) /\ r \in BOOLEAN
      BY <1>1, <2>1
    <3>2. (c \in rest') = r /\ lines'[c] = lines[c]
      BY <1>1
    <3> HIDE DEF r
    <3>3. /\ output' \in Seq((1 .. Files) \X Nat \X BOOLEAN)
          /\ \A m, q : baton!Written(c, m, q) => baton!Written(c, m, q)'
      BY <1>4, <3>1, OutputGrows
    <3>4. \E k \in 1 .. Len(output') : output'[k] = baton!Text(c, lines[c], r)
      <4>1. /\ Len(output') = Len(output) + 1 /\ output'[Len(output) + 1] = baton!Text(c, lines[c], r)
        <5>1. baton!Text(c, lines[c], r) \in (1 .. Files) \X Nat \X BOOLEAN
          BY <1>4, <3>1 DEF baton!Text
        <5> QED BY <3>1, <5>1, BatonTyped, AppendProperties
      <4>2. Len(output) + 1 \in 1 .. Len(output')
        BY <4>1, BatonTyped
      <4> QED BY <4>1, <4>2
    <3> QED BY <3>2, <3>3, <3>4 DEF baton!Written, baton!Text
  <2>2. CASE c \notin unflushed
    <3>1. output' = output
      BY <1>1, <2>2
    <3>2. Accounted(c)
      BY DEF BatonInv, BatonPrinted, baton!Children
    <3>3. c \notin rest /\ baton!Written(c, lines[c], FALSE)
      <4>1. CASE terminal
        BY <1>1, <2>2, <3>2, <4>1 DEF Accounted
      <4>2. CASE ~terminal
        <5>1. c \notin rest /\ ~(lines[c] > 0)
          BY <1>1, <2>2, <3>2, <4>2 DEF Accounted
        <5>2. lines[c] = 0
          BY <1>4, <5>1
        <5> QED BY <5>1, <5>2 DEF baton!Written
      <4> QED BY <4>1, <4>2
    <3>4. \A m, q : baton!Written(c, m, q) => baton!Written(c, m, q)'
      BY <3>1 DEF baton!Written
    <3>5. lines'[c] = lines[c] /\ (c \in rest') = FALSE
      <4>1. rest' = rest /\ lines' = lines /\ c \notin rest
        BY <1>1, <3>3
      <4> QED BY ONLY <4>1
    <3>6. output' \in Seq((1 .. Files) \X Nat \X BOOLEAN)
      BY <3>1, BatonTyped
    <3>7. baton!Written(c, lines[c], FALSE)'
      BY <3>3, <3>4, <3>5
    <3> QED BY <3>4, <3>5, <3>6, <3>7, Zenon
  <2> QED BY <2>1, <2>2
<1>6. BatonTypes'
  <2>1. unflushed' \subseteq 1 .. Files
    BY <1>1, BatonTyped
  <2> QED BY <1>1, <1>3, <1>5, <2>1 DEF BatonInv, BatonTypes, baton!Children
<1>7. BatonStart'
  <2>1. pc[0] \notin {"fork", "close read", "write"}
    BY <1>1 DEF BatonInv, BatonStart, baton!Children
  <2>2. \A d \in 1 .. Files : d # c /\ <<d, "pipes">> \in readers => <<d, "pipes">> \in readers'
    BY <1>1, BatonEnds
  <2> QED BY <1>3, <2>1, <2>2 DEF BatonInv, BatonStart, baton!Children
<1>8. BatonOnce'
  <2>1. \A d \in 1 .. Files : pc'[d] = "killed" => \A e \in 1 .. Files : pc'[e] # "read"
    BY <1>3 DEF BatonInv, BatonOnce, baton!Children
  <2> QED BY <1>1, <1>3, <2>1 DEF BatonInv, BatonOnce, baton!Children
<1>9. Accounted(c)'
  <2>1. "ended" \notin SilentPc \cup {"print"}
    BY DEF SilentPc
  <2>2. terminal => baton!Written(c, lines[c], FALSE)'
    <3>1. terminal => baton!Written(c, lines[c], FALSE)
      BY DEF BatonInv, BatonPrinted, Accounted, baton!Children
    <3>2. lines'[c] = lines[c]
      BY <1>1
    <3> QED BY <1>5, <3>1, <3>2
  <2>3. c \notin unflushed'
    BY <1>1
  <2> QED BY <1>1, <1>3, <1>5, <2>1, <2>2, <2>3 DEF Accounted
<1>10. BatonPrinted'
  BY <1>1, <1>3, <1>4, <1>9, OthersPrinted
<1>11. BatonOrder'
  <2>1. HadTurn(c)
    BY <1>1 DEF BatonInv, BatonOrder, baton!Children
  <2>2. CASE c \in unflushed
    <3>1. terminal => c \in rest
      BY <2>2 DEF BatonInv, BatonPrinted, Accounted, baton!Children
    <3> QED BY <1>1, <1>3, <1>4, <2>1, <2>2, <3>1, OrderGrows
  <2>3. CASE c \notin unflushed
    BY <1>1, <1>3, <2>1, <2>3, OrderStays
  <2> QED BY <2>2, <2>3
<1> QED BY <1>6, <1>7, <1>8, <1>10, <1>11 DEF BatonInv

\* All that a child does.
LEMMA BatonChildKeeps ==
  ASSUME Files \in Nat, BatonInv, NEW c \in 1 .. Files, baton!Child(c)
  PROVE  BatonInv'
<1> USE DEF SilentPc, CarrierPc
<1>1. CASE baton!ChildClosesRead(c)
  <2>1. /\ pc[c] = "close read" /\ pc' = [pc EXCEPT ![c] = "open"]
        /\ bytes' = bytes /\ turns' = turns /\ terminal' = terminal /\ i' = i
        /\ baton!printed' = baton!printed /\ readers' = readers \ {<<c, "pipes">>}
    BY <1>1 DEF baton!ChildClosesRead, baton!Go
  <2>2. \A d \in 1 .. Files : d # c /\ <<d, "pipes">> \in readers => <<d, "pipes">> \in readers'
    BY <2>1
  <2> QED BY <2>1, <2>2, CarrierKeeps
<1>2. CASE baton!OpenFile(c)
  <2>1. /\ pc[c] = "open" /\ pc' = [pc EXCEPT ![c] = "print"]
        /\ bytes' = bytes /\ turns' = turns /\ terminal' = terminal /\ i' = i
        /\ baton!printed' = baton!printed /\ readers' = readers
    BY <1>2 DEF baton!OpenFile, baton!Go, baton!pipe
  <2> QED BY <2>1, CarrierKeeps
<1>3. CASE baton!OpenFails(c)
  <2>1. /\ pc[c] = "open" /\ pc' = [pc EXCEPT ![c] = "failed"]
        /\ bytes' = bytes /\ turns' = turns /\ terminal' = terminal /\ i' = i
        /\ baton!printed' = baton!printed /\ readers' = baton!Without(readers, c)
    BY <1>3 DEF baton!OpenFails, baton!Go, baton!ExitCloses
  <2>2. \A d \in 1 .. Files : d # c /\ <<d, "pipes">> \in readers => <<d, "pipes">> \in readers'
    BY <2>1, BatonEnds
  <2> QED BY <2>1, <2>2, CarrierKeeps
<1>4. CASE baton!PassKilled(c)
  \* Nobody waits for the baton: whoever waits keeps the read end open.
  <2>1. /\ pc[c] = "pass" /\ pc' = [pc EXCEPT ![c] = "killed"] /\ readers = {}
        /\ bytes' = bytes /\ turns' = turns /\ terminal' = terminal /\ i' = i
        /\ baton!printed' = baton!printed
    BY <1>4 DEF baton!PassKilled, baton!Go, baton!Broken, baton!ExitCloses
  <2>2. \A d \in 1 .. Files : pc[d] # "read"
    BY <2>1 DEF BatonInv, BatonStart, baton!Children
  <2>3. \A d \in 1 .. Files : d # c /\ <<d, "pipes">> \in readers => <<d, "pipes">> \in readers'
    BY <2>1
  <2> QED BY <2>1, <2>2, <2>3, CarrierKeeps
<1> QED BY <1>1, <1>2, <1>3, <1>4, TakeBatonKeeps, PrintLineKeeps, PrintRestKeeps,
           PassBatonKeeps, ExitKeeps DEF baton!Child

\* Whoever is killed by the baton is the last, and loses only what was in its buffer.
LEMMA BatonWhole ==
  ASSUME BatonInv
  PROVE  baton!NothingLost /\ baton!InTurn
<1>1. /\ baton!Holders \subseteq Carriers
      /\ \A c, d \in Carriers : c = d
      /\ bytes # <<>> => Carriers = {}
      /\ \A c \in Carriers : turns # <<>> /\ c = turns[Len(turns)]
  BY DEF BatonInv, BatonOnce, baton!Holders, Carriers
<1>2. ASSUME NEW c \in 1 .. Files, pc[c] = "killed"
      PROVE  /\ c = turns[Len(turns)]
             /\ \A d \in (1 .. Files) \ {c} : pc[d] # "read" /\ d \notin baton!Holders
             /\ IF terminal THEN baton!Written(c, lines[c], FALSE)
                ELSE \A k \in 1 .. Len(output) : output[k][1] # c
  <2>1. c \in Carriers
    BY <1>2, Kids DEF CarrierPc
  <2>2. \A d \in 1 .. Files : pc[d] # "read"
    BY <1>2 DEF BatonInv, BatonOnce, baton!Children
  <2>3. Accounted(c)
    BY DEF BatonInv, BatonPrinted, baton!Children
  <2> QED BY <1>1, <1>2, <2>1, <2>2, <2>3 DEF Accounted
<1>3. baton!NothingLost
  BY <1>2 DEF baton!NothingLost, baton!Children, BatonInv, BatonPrinted, Accounted
<1>4. Len(bytes) + Cardinality(baton!Holders) <= 1
  <2>1. Cardinality({}) = 0
    BY FS_EmptySet
  <2>2. CASE bytes # <<>>
    <3>1. baton!Holders = {}
      BY <1>1, <2>2
    <3>2. Len(bytes) \in Nat /\ Len(bytes) <= 1
      BY BatonTyped, LenProperties
    <3> QED BY <2>1, <3>1, <3>2
  <2>3. CASE bytes = <<>>
    <3>1. Len(bytes) = 0
      BY <2>3
    <3>2. CASE baton!Holders = {}
      BY <2>1, <3>1, <3>2
    <3>3. CASE baton!Holders # {}
      <4>1. PICK c \in baton!Holders : TRUE
        BY <3>3
      <4>2. baton!Holders = {c}
        BY <1>1, <4>1
      <4>3. Cardinality(baton!Holders) = 1
        BY <4>2, FS_Singleton
      <4> QED BY <3>1, <4>3
    <3> QED BY <3>2, <3>3
  <2> QED BY <2>2, <2>3
<1>5. baton!Cardinality(baton!Holders) = Cardinality(baton!Holders)
  BY DEF baton!Cardinality, Cardinality
<1> QED BY <1>3, <1>4, <1>5 DEF baton!InTurn, BatonInv, BatonOrder
-----------------------------------------------------------------------------
(* The three together.                                                     *)

\* The beginning of each of the programs.
LEMMA PipesBegin ==
  ASSUME Init
  PROVE  PipesInv
<1>0. /\ Files \in Nat /\ Files # 0 /\ Initial \in Nat /\ Initial # 0
      /\ Sizes \subseteq 0 .. 27 * Initial - 2
  BY PipesAssumption
<1>1. CASE program = "pipeline" /\ pipeline!Init
  <2>1. /\ bytes = <<>> /\ output = <<>> /\ listed = 0 /\ writers = {<<"parent", "pipes">>}
        /\ pc = [p \in pipeline!Family |-> IF p = "parent" THEN "fork ls" ELSE "none"]
    BY <1>1 DEF pipeline!Init, pipeline!Opened
  <2>2. Numbered
    <3>1. output \in Seq(Nat) /\ bytes \in Seq(Nat) /\ Len(output) = 0 /\ Len(bytes) = 0
      BY <2>1, EmptySeq
    <3>2. 1 .. Len(output) = {} /\ 1 .. Len(bytes) = {}
      BY <3>1
    <3>3. listed = 0
      BY <2>1
    <3>4. listed \in Nat /\ Len(output) + Len(bytes) = listed
      BY ONLY <3>1, <3>3
    <3> QED BY <3>1, <3>2, <3>4 DEF Numbered
  <2>3. /\ pc \in [pipeline!Family -> PipelinePc]
        /\ pc["parent"] = "fork ls" /\ pc["ls"] = "none" /\ pc["tr"] = "none"
    BY <2>1 DEF pipeline!Family, PipelinePc
  <2>4. Announced
    BY <2>1, <2>3 DEF Announced
  <2> QED BY <1>1, <2>2, <2>3, <2>4 DEF PipesInv, PipelineInv
<1>2. CASE program = "baton" /\ terminal \in BOOLEAN /\ baton!Init
  <2>1. /\ bytes = <<>> /\ readers = {<<0, "pipes">>} /\ i = 1 /\ output = <<>>
        /\ lines = [c \in 1 .. Files |-> 0] /\ rest = {} /\ unflushed = {}
        /\ turns = <<>> /\ terminal \in BOOLEAN
        /\ pc = [p \in 0 .. Files |-> IF p = 0 THEN "fork" ELSE "none"]
    BY <1>2 DEF baton!Init, baton!Opened, baton!Children
  <2>2. pc[0] = "fork" /\ (\A c \in 1 .. Files : pc[c] = "none") /\ pc \in [0 .. Files -> BatonPc]
    BY <1>0, <2>1 DEF BatonPc
  <2>3. Carriers = {}
    BY <2>2 DEF Carriers, baton!Children
  <2>4. i \in 1 .. Files + 1
    BY <1>0, <2>1
  <2>5. BatonTypes
    BY <2>1, <2>2, <2>4 DEF BatonTypes, baton!Children
  <2>6. BatonStart
    BY <2>1, <2>2 DEF BatonStart, baton!Children
  <2>7. BatonOnce
    BY <2>1, <2>2, <2>3 DEF BatonOnce, baton!Children
  <2>8. BatonPrinted /\ BatonOrder
    <3>1. 1 .. Len(output) = {} /\ \A c \in 1 .. Files : lines[c] = 0
      BY <2>1
    <3>2. BatonPrinted
      BY <2>1, <2>2, <3>1 DEF BatonPrinted, Accounted, SilentPc, baton!Written, baton!Children
    <3> QED BY <2>2, <3>1, <3>2 DEF BatonOrder, baton!Children
  <2> QED BY <1>2, <2>5, <2>6, <2>7, <2>8 DEF PipesInv, BatonInv
<1>3. CASE program = "threads" /\ size \in Sizes /\ threads!Init
  <2>1. content_size = Initial /\ total_read = 0 /\ bytes_read = 0 /\ at = "open"
    BY <1>3 DEF threads!Init
  <2>2. total_read \in 0 .. size /\ Needed(total_read)
    BY <1>0, <1>3, <2>1 DEF Needed
  <2>3. ThreadInv
    BY <1>3, <2>1, <2>2 DEF ThreadInv
  <2> QED BY <1>3, <2>3 DEF PipesInv
<1>4. CASE program \in {"pool", "party", "stopping"}
  BY <1>4 DEF PipesInv
<1> QED BY <1>1, <1>2, <1>3, <1>4 DEF Init

\* Every step of each keeps what it has to pass on.
LEMMA PipesGoOn ==
  ASSUME PipesInv, [Next]_vars
  PROVE  PipesInv'
<1>0. Files \in Nat
  BY PipesAssumption
<1>1. ASSUME NEW p \in pipeline!Family, PipelineStep(p) PROVE PipesInv'
  <2>1. program = "pipeline" /\ program' = program /\ pipeline!Step(p)
    BY <1>1 DEF PipelineStep
  <2>2. PipelineInv
    BY <2>1 DEF PipesInv
  <2>3. PipelineInv'
    BY <2>1, <2>2, PipelineParentKeeps, LsKeeps, TrKeeps DEF pipeline!Step
  <2> QED BY <2>1, <2>3 DEF PipesInv
<1>2. ASSUME NEW p \in 0 .. Files, BatonStep(p) PROVE PipesInv'
  <2>1. program = "baton" /\ program' = program /\ baton!Step(p)
    BY <1>2 DEF BatonStep
  <2>2. BatonInv
    BY <2>1 DEF PipesInv
  <2>3. BatonInv'
    BY <1>0, <2>1, <2>2, BatonParentKeeps, BatonChildKeeps
       DEF baton!Step, baton!Children
  <2> QED BY <2>1, <2>3 DEF PipesInv
<1>3. CASE ThreadStep
  <2>1. program = "threads" /\ program' = program /\ threads!Thread
    BY <1>3 DEF ThreadStep
  <2>2. ThreadInv
    BY <2>1 DEF PipesInv
  <2>3. ThreadInv'
    BY <2>1, <2>2, ThreadKeeps
  <2> QED BY <2>1, <2>3 DEF PipesInv
<1>4. CASE UNCHANGED vars
  <2>1. UNCHANGED <<program, bytes, readers, writers, pc, output, listed, terminal, i, pid,
                    lines, rest, unflushed, turns, size, content_size, total_read, bytes_read, at>>
    BY <1>4 DEF vars, pipevars, batonvars, threadvars
  <2>2. PipelineInv => PipelineInv'
    BY <2>1 DEF PipelineInv, Numbered, Announced
  <2>3. BatonInv => BatonInv'
    <3>1. Carriers' = Carriers
      BY <2>1 DEF Carriers
    <3>2. (BatonTypes => BatonTypes') /\ (BatonStart => BatonStart') /\ (BatonOnce => BatonOnce')
      BY <2>1, <3>1 DEF BatonTypes, BatonStart, BatonOnce
    <3>3. BatonInv => BatonPrinted' /\ BatonOrder'
      BY <2>1, NothingPrinted DEF baton!printed
    <3> QED BY <3>2, <3>3 DEF BatonInv
  <2>4. ThreadInv => ThreadInv'
    BY <2>1 DEF ThreadInv, Needed
  <2> QED BY <2>1, <2>2, <2>3, <2>4 DEF PipesInv
<1>5. ASSUME (\E c \in 1 .. MaxForks : Die(c)) \/ Main \/ Handler \/ Key PROVE PipesInv'
  BY <1>5 DEF Die, Main, Handler, Key, Pool, Party, Stop, PipesInv
<1> QED BY <1>1, <1>2, <1>3, <1>4, <1>5 DEF Next

\* The inductive invariant holds of every behaviour of the three programs, for
\* buffers and chunks of any size and any number of files.
THEOREM Passed == Spec => []PipesInv
<1>1. Init => PipesInv
  BY PipesBegin
<1>2. PipesInv /\ [Next]_vars => PipesInv'
  BY PipesGoOn
<1> QED BY <1>1, <1>2, PTL DEF Spec

\* tr has printed all that ls wrote when it ends of itself; a child that has
\* passed the baton has its file printed when it ends, and the one that is killed
\* passing it is the last, and loses what its buffer holds; a thread returns its file whole, with the zero in the buffer
\* unless the file is of one of the six sizes that leave no place for it.
THEOREM Whole == Spec => []NothingLost
<1>1. ASSUME PipelineInv PROVE pipeline!NothingLost
  <2> SUFFICES ASSUME pc["tr"] = "ended"
               PROVE  pc["ls"] \in pipeline!Ended /\ output = [k \in 1 .. listed |-> k]
    BY DEF pipeline!NothingLost
  <2>1. pc["ls"] \in pipeline!Ended /\ bytes = <<>>
    BY <1>1 DEF PipelineInv, Announced
  <2>2. /\ output \in Seq(Nat) /\ Len(output) \in Nat /\ Len(bytes) = 0 /\ listed \in Nat
        /\ Len(output) + Len(bytes) = listed
        /\ \A k \in 1 .. Len(output) : output[k] = k
    BY <1>1, <2>1, LenProperties DEF PipelineInv, Numbered
  <2>3. Len(output) = listed
    BY <2>2
  <2>4. output = [k \in 1 .. Len(output) |-> output[k]]
    BY <2>2, LenProperties
  <2> QED BY <2>1, <2>2, <2>3, <2>4
<1>2. PipesInv => NothingLost
  BY <1>1, BatonWhole, ThreadWhole DEF PipesInv, NothingLost
<1> QED BY <1>2, Passed, PTL

\* At most one child has the baton, and on a terminal every line appears in the
\* turn of its child; only the unfinished line at the end of a file may come later.
THEOREM Turns == Spec => []InTurn
<1>1. PipesInv => InTurn
  BY BatonWhole DEF PipesInv, InTurn
<1> QED BY <1>1, Passed, PTL
=============================================================================
