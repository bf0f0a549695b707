------------------------------ MODULE Families ------------------------------
(***************************************************************************)
(* The programs that are a parent with its children, and the one with      *)
(* threads that prints files like one of them, side by side: program says  *)
(* which of them runs, so that one question can be asked of several.       *)
(* Three keep records of their children: ForkPool, ChildParty, Stopping.   *)
(* Two live on a pipe: Pipeline and BatonPipe.  FileGrowth has threads.    *)
(***************************************************************************)
EXTENDS Integers, Sequences, FiniteSets

CONSTANTS
  MaxForks,
  MaxArgument,   \* bound: the greatest process_count
  Room,
  MaxNames,
  Files,
  MaxLines,
  Chunk,
  Initial,
  Sizes          \* bound: the sizes a file may have, none that would fill 27 * Initial

ASSUME ChildrenAssumption == MaxForks \in Nat /\ MaxArgument \in 0 .. MaxForks

\* sizeof(buf) is less than the first content_size (threads_file_read.cpp:17,20).
ASSUME PipesAssumption ==
  /\ {Room, Files, Chunk, Initial} \subseteq Nat \ {0}
  /\ Chunk <= Initial
  /\ MaxNames \in Nat /\ Sizes \subseteq 0 .. 27 * Initial - 2

VARIABLES
  program,      \* "pool", "party", "stopping", "pipeline", "baton" or "threads",
                \* never changed
  pc, i,
  child, running_childs, failed,            \* ForkPool, ChildParty, Stopping
  process_count,                            \* ForkPool
  register, pending, handling, lost,        \* ChildParty
  child_pids, stopped,                      \* Stopping
  bytes, readers, writers, output,          \* Pipeline, BatonPipe
  listed,                                   \* Pipeline
  terminal, pid, lines, rest, unflushed, turns,     \* BatonPipe
  size, content_size, total_read, bytes_read, at    \* FileGrowth

pool == INSTANCE ForkPool
party == INSTANCE ChildParty
stopping == INSTANCE Stopping
pipeline == INSTANCE Pipeline
baton == INSTANCE BatonPipe
threads == INSTANCE FileGrowth

partyvars == <<register, pending, handling, lost>>
stoppingvars == <<child_pids, stopped>>
childvars == <<child, running_childs, failed, process_count, partyvars, stoppingvars>>
batonvars == <<terminal, pid, lines, rest, unflushed, turns>>
threadvars == <<size, content_size, total_read, bytes_read, at>>
pipevars == <<bytes, readers, writers, output, listed, batonvars>>
vars == <<program, pc, i, childvars, pipevars, threadvars>>

PartyUnused == register = 0 /\ pending = FALSE /\ handling = FALSE /\ lost = 0
StoppingUnused == child_pids = <<>> /\ stopped = {}
ChildrenUnused ==
  /\ pool!NoChildren /\ running_childs = 0 /\ failed = 0 /\ process_count = 0
  /\ PartyUnused /\ StoppingUnused

BatonUnused ==
  /\ terminal = TRUE /\ pid = "none" /\ turns = <<>>
  /\ lines = <<>> /\ rest = {} /\ unflushed = {}
ThreadUnused == size = 0 /\ threads!Init
PipeUnused ==
  /\ bytes = <<>> /\ readers = {} /\ writers = {} /\ output = <<>> /\ listed = 0
  /\ BatonUnused

Init ==
  \/ /\ program = "pool"
     /\ process_count \in 0 .. MaxArgument
     /\ pool!Init
     /\ PartyUnused /\ StoppingUnused /\ PipeUnused /\ ThreadUnused
  \/ /\ program = "party"
     /\ party!Init
     /\ process_count = 0 /\ i = 0 /\ StoppingUnused /\ PipeUnused /\ ThreadUnused
  \/ /\ program = "stopping"
     /\ stopping!Init
     /\ running_childs = 0 /\ failed = 0 /\ process_count = 0
     /\ PartyUnused /\ PipeUnused /\ ThreadUnused
  \/ /\ program = "pipeline"
     /\ pipeline!Init
     /\ i = 0 /\ ChildrenUnused /\ BatonUnused /\ ThreadUnused
  \/ /\ program = "baton"
     /\ terminal \in BOOLEAN
     /\ baton!Init
     /\ ChildrenUnused /\ listed = 0 /\ ThreadUnused
  \/ /\ program = "threads"
     /\ size \in Sizes
     /\ threads!Init
     /\ pc = "none" /\ i = 0 /\ ChildrenUnused /\ PipeUnused

Pool(Step) ==
  /\ program = "pool" /\ Step
  /\ UNCHANGED <<program, partyvars, stoppingvars, pipevars, threadvars>>
Party(Step) ==
  /\ program = "party" /\ Step
  /\ UNCHANGED <<program, i, process_count, stoppingvars, pipevars, threadvars>>
Stop(Step) ==
  /\ program = "stopping" /\ Step
  /\ UNCHANGED <<program, process_count, partyvars, pipevars, threadvars>>

Die(c) == Pool(pool!Die(c)) \/ Party(party!Die(c))
Main == Pool(pool!Main) \/ Party(party!Main) \/ Stop(stopping!Main)
Handler == Party(party!Handler)
Key == Stop(stopping!Key)

PipelineStep(p) ==
  /\ program = "pipeline" /\ pipeline!Step(p)
  /\ UNCHANGED <<program, i, childvars, batonvars, threadvars>>
BatonStep(p) ==
  /\ program = "baton" /\ baton!Step(p)
  /\ UNCHANGED <<program, childvars, listed, threadvars>>
ThreadStep ==
  /\ program = "threads" /\ threads!Thread
  /\ UNCHANGED <<program, pc, i, childvars, pipevars>>

Next ==
  \/ \E c \in 1 .. MaxForks : Die(c)
  \/ Main
  \/ Handler
  \/ Key
  \/ \E p \in pipeline!Family : PipelineStep(p)
  \/ \E p \in 0 .. Files : BatonStep(p)
  \/ ThreadStep

\* Every process or thread that can go on does, and signals are delivered; but
\* the children of the first three programs may sleep for ever, and nobody has
\* to press a key.
Spec ==
  /\ Init /\ [][Next]_vars
  /\ WF_vars(Main) /\ WF_vars(Handler)
  /\ \A p \in pipeline!Family : WF_vars(PipelineStep(p))
  /\ \A p \in 0 .. Files : WF_vars(BatonStep(p))
  /\ WF_vars(ThreadStep)

-----------------------------------------------------------------------------
(* Properties.                                                             *)

\* What the parent keeps of its children is true but for what these programs do
\* not handle.  running_childs is too high for good by every fork that fails and,
\* where a signal handler counts down, by every child collected between the
\* load and the store of the count; it is never too low.  Children are stopped
\* as main takes them to be.  A fork that has failed spoils that; but a stopped
\* child is taken for running only while the place of such a fork is taken for
\* stopped.
RecordsExact ==
  /\ program = "pool" => pool!Counted
  /\ program = "party" => party!Counted
  /\ program = "stopping" => stopping!Recorded

\* Every child that ends is collected, however many end while one signal is
\* pending or handled, or while the pool does something else.
AllCollected ==
  \A c \in 1 .. MaxForks : child[c] = "zombie" ~> child[c] = "collected"

\* The processes and the thread of the other three end: nobody waits for an end
\* of the pipe that somebody, perhaps the waiting process itself, keeps from
\* coming.  The exception are children of the file reader that wait for a baton
\* that is lost, because another could not open its file or the last fork has
\* failed.
FamilyEnds ==
  <>(\/ program \in {"pool", "party", "stopping"}
     \/ program = "pipeline" /\ pipeline!AllEnded
     \/ program = "baton" /\ (baton!AllEnded \/ baton!BatonLost)
     \/ program = "threads" /\ threads!Ended)

\* tr has printed all that ls wrote when it ends of itself.  A child that has
\* passed the baton has its file printed when it ends; the only one that cannot
\* pass it is the last, which loses what its stdio buffer holds.  A thread
\* returns its file whole, with its zero in the buffer unless the file fills it.
NothingLost ==
  /\ program = "pipeline" => pipeline!NothingLost
  /\ program = "baton" => baton!NothingLost
  /\ program = "threads" => threads!NothingLost

\* At most one child has the baton; on a terminal whole lines appear in the order
\* in which it went round, and only the unfinished line at the end of a file may
\* come later.  (Elsewhere a child writes all after it has passed the baton.)
InTurn == program = "baton" => baton!InTurn
=============================================================================
