------------------------- MODULE CommandLineProofs -------------------------
(***************************************************************************)
(* TypeOK, InputsSurvive, SuccessIsComplete, TracesAreTrue, DiffThenResolve and    *)
(* PinnedSchemasAgree for any number of commands at once, whatever         *)
(* documents are and however they are merged, edited and interrupted.      *)
(***************************************************************************)
EXTENDS CommandLine, TLAPS

\* A part of a trace lacks the digest it ends with.
TracesWholeOrNot == \A d : IsTrace(d) => \A p \in Prefixes(d) : ~ IsTrace(p)

Fields ==
  {"pc", "command", "piped", "read", "content", "result", "target", "digested"}

Writing(j) == job[j].pc \in {"opening", "writing", "digesting"}

-----------------------------------------------------------------------------
(* The invariant.                                                          *)

Shapes ==
  /\ DOMAIN job = Job /\ DOMAIN files = File
  /\ \A j \in Job :
       \/ job[j] = Idle
       \/ /\ DOMAIN job[j] = Fields
          /\ job[j].command \in Commands
          /\ job[j].digested \in BOOLEAN
          /\ job[j].pc \in {"reading", "opening", "writing", "digesting", "succeeded",
                            "failed", "killed"}

\* What the command had found when it decided to go on.
Decided(j) ==
  LET c == job[j].command IN
  /\ UrisDistinct(c)
  /\ c.command = "resolve" =>
       PathsApart(c) /\ job[j].result = Materialized(Documents(j)) /\ Valid(job[j].result, Supplied(j))
  /\ c.command = "diff" =>
       /\ job[j].result = Diff(Documents(j)[1], Documents(j)[2])
       /\ Reproduces(Documents(j)[1], Documents(j)[2])
  /\ c.command = "validate" =>
       \A i \in DOMAIN Documents(j) : Valid(Documents(j)[i], Supplied(j))

\* What it is about to write, and where.
Aims(j) ==
  LET c == job[j].command IN
  /\ c.output # None
  /\ job[j].pc = "digesting" => ~ job[j].digested /\ c.command \in {"resolve", "permit"}
  /\ ~ job[j].digested => job[j].target = c.output /\ job[j].content = job[j].result
  /\ job[j].digested =>
       c.command = "resolve" /\ c.trace # None /\ job[j].target = c.trace

Phases ==
  \A j \in Job : job[j] # Idle =>
    /\ job[j].pc = "reading" =>
         job[j].result = None /\ ~ job[j].digested /\ job[j].target = job[j].command.output
    /\ job[j].result # None \/ Writing(j) \/ job[j].pc = "succeeded" => Decided(j)
    /\ Writing(j) => Aims(j)

TakeTurns ==
  \A j, k \in Job : j # k /\ Running(j) /\ Running(k) =>
    Outputs(job[j].command) \cap Outputs(job[k].command) = {}

OutputsThere ==
  \A j \in Job : job[j] # Idle /\ Writing(j) /\ (job[j].pc = "digesting" \/ job[j].digested) =>
    files[Opens[job[j].command.output]] = Render(job[j].command.output, job[j].result)

\* The trace that a command is about to write is a true one.
TracesReady ==
  \A j \in Job : job[j] # Idle /\ Writing(j) /\ job[j].digested =>
    IsTrace(job[j].content) /\ Accounts(job[j].content)

\* Progress holds whoever else writes the outputs; files need them guarded.
Progress == Shapes /\ Phases
Inv == Progress /\ TakeTurns /\ OutputsThere /\ TracesReady /\ TracesAreTrue

-----------------------------------------------------------------------------
(* What one step can change.                                               *)

\* Records of invocations that are changed in one field, or in some.
LEMMA NewPc ==
  ASSUME NEW r, DOMAIN r = Fields, NEW x, NEW s, s = [r EXCEPT !.pc = x]
  PROVE  /\ DOMAIN s = Fields /\ s.pc = x
         /\ s.command = r.command /\ s.read = r.read /\ s.content = r.content
         /\ s.result = r.result /\ s.target = r.target /\ s.digested = r.digested
BY DEF Fields

LEMMA NewText ==
  ASSUME NEW r, DOMAIN r = Fields, NEW x, NEW s, s = [r EXCEPT !.read = x]
  PROVE  /\ DOMAIN s = Fields /\ s.read = x
         /\ s.pc = r.pc /\ s.command = r.command /\ s.content = r.content
         /\ s.result = r.result /\ s.target = r.target /\ s.digested = r.digested
BY DEF Fields

\* Only one invocation moves, and nothing of it but its progress changes once
\* it is writing; its file is the only one it writes.
LEMMA StepFrame ==
  ASSUME Shapes, NEW j \in Job, Step(j)
  PROVE  /\ DOMAIN job' = Job
         /\ \A k \in Job \ {j} : job'[k] = job[k]
         /\ files' # files => job[j].pc \in {"opening", "writing"}
         /\ \A f \in File : f # Opens[job[j].target] => files'[f] = files[f]
         /\ DOMAIN files' = File
<1>1. \E s : job' = [job EXCEPT ![j] = s]
  BY DEF Step, Start, Read, Decide, Truncate, Fill, Digest, FailToWrite, Kill, Set, Becomes
<1>2. DOMAIN job' = Job /\ \A k \in Job \ {j} : job'[k] = job[k]
  BY <1>1 DEF Shapes
<1>3. \/ files' = files
      \/ /\ job[j].pc \in {"opening", "writing"}
         /\ \E t : files' = [files EXCEPT ![Opens[job[j].target]] = t]
  BY DEF Step, Start, Read, Decide, Truncate, Fill, Digest, FailToWrite, Kill, At
<1>. QED
  BY <1>2, <1>3 DEF Shapes

\* What each kind of step makes of the record of its invocation.
LEMMA Becoming ==
  ASSUME Shapes, NEW j \in Job, job[j] # Idle, NEW pc, Becomes(j, pc)
  PROVE  /\ DOMAIN job'[j] = Fields /\ job'[j].pc = pc
         /\ job'[j].command = job[j].command /\ job'[j].read = job[j].read
         /\ job'[j].content = job[j].content /\ job'[j].result = job[j].result
         /\ job'[j].target = job[j].target /\ job'[j].digested = job[j].digested
<1>1. DOMAIN job[j] = Fields /\ job'[j] = [job[j] EXCEPT !.pc = pc]
  BY DEF Becomes, Set, Shapes
<1>. QED
  BY <1>1, NewPc

LEMMA Reading ==
  ASSUME Shapes, NEW j \in Job, job[j] # Idle, Read(j), ~ Becomes(j, "failed")
  PROVE  /\ DOMAIN job'[j] = Fields /\ job'[j].pc = "reading" /\ job[j].pc = "reading"
         /\ job'[j].command = job[j].command /\ job'[j].digested = job[j].digested
         /\ job'[j].result = job[j].result /\ job'[j].target = job[j].target
<1>1. /\ DOMAIN job[j] = Fields /\ job[j].pc = "reading"
      /\ job'[j] = [job[j] EXCEPT !.read = Append(job[j].read, Source(j))]
  BY DEF Read, At, Set, Shapes
<1>. QED
  BY <1>1, NewText

LEMMA Deciding ==
  ASSUME Shapes, NEW j \in Job, job[j] # Idle, Decide(j), ~ Becomes(j, "failed")
  PROVE  /\ DOMAIN job'[j] = Fields /\ Admissible(j)
         /\ job'[j].pc = IF job[j].command.output = None THEN "succeeded" ELSE "opening"
         /\ job'[j].command = job[j].command /\ job'[j].read = job[j].read
         /\ job'[j].content = Result(j) /\ job'[j].result = Result(j)
         /\ job'[j].target = job[j].target /\ job'[j].digested = job[j].digested
<1>. DEFINE next == IF job[j].command.output = None THEN "succeeded" ELSE "opening"
<1>1. /\ Admissible(j)
      /\ job'[j] = [job[j] EXCEPT !.content = Result(j), !.result = Result(j), !.pc = next]
  BY DEF Decide, Set, Shapes
<1>2. PICK r, x, z, s : r = job[j] /\ x = Result(j) /\ z = next /\ s = job'[j]
  OBVIOUS
<1>3. DOMAIN r = Fields /\ s = [r EXCEPT !.content = x, !.result = x, !.pc = z]
  BY <1>1, <1>2, Zenon DEF Shapes
<1>4. /\ DOMAIN s = Fields /\ s.pc = z /\ s.command = r.command /\ s.read = r.read
      /\ s.content = x /\ s.result = x /\ s.target = r.target /\ s.digested = r.digested
  BY <1>3 DEF Fields
<1>. QED
  BY <1>1, <1>2, <1>4, Zenon

LEMMA Digesting ==
  ASSUME Shapes, NEW j \in Job, job[j] # Idle, Digest(j),
         ~ Becomes(j, "failed"), ~ Becomes(j, "succeeded")
  PROVE  /\ DOMAIN job'[j] = Fields /\ job'[j].pc = "opening"
         /\ job[j].command.trace # None /\ job[j].pc = "digesting"
         /\ job'[j].command = job[j].command /\ job'[j].read = job[j].read
         /\ job'[j].content = Trace(j, files[Opens[job[j].command.output]])
         /\ job'[j].result = job[j].result
         /\ job'[j].target = job[j].command.trace /\ job'[j].digested = TRUE
<1>1. /\ job[j].command.trace # None /\ job[j].pc = "digesting"
      /\ job'[j] = [job[j] EXCEPT !.pc = "opening", !.target = job[j].command.trace,
                       !.content = Trace(j, files[Opens[job[j].command.output]]),
                       !.digested = TRUE]
  BY DEF Digest, At, Set, Shapes
<1>2. PICK r, t, x, s : /\ r = job[j] /\ t = job[j].command.trace /\ s = job'[j]
                        /\ x = Trace(j, files[Opens[job[j].command.output]])
  OBVIOUS
<1>3. DOMAIN r = Fields /\ s = [r EXCEPT !.pc = "opening", !.target = t, !.content = x,
                                  !.digested = TRUE]
  BY <1>1, <1>2, Zenon DEF Shapes
<1>4. /\ DOMAIN s = Fields /\ s.pc = "opening" /\ s.command = r.command /\ s.read = r.read
      /\ s.content = x /\ s.result = r.result /\ s.target = t /\ s.digested = TRUE
  BY <1>3 DEF Fields
<1>. QED
  BY <1>1, <1>2, <1>4, Zenon

\* A resolve that was asked for a trace goes on to write it.
LEMMA DigestedLast ==
  ASSUME Shapes, NEW j \in Job, job[j] # Idle, Digest(j), job'[j].pc = "succeeded"
  PROVE  job[j].command.trace = None
<1>. SUFFICES ASSUME job[j].command.trace # None  PROVE FALSE
  OBVIOUS
<1>1. ~ Becomes(j, "failed")
  BY Becoming
<1>2. job'[j] = [job[j] EXCEPT !.pc = "opening", !.target = job[j].command.trace,
                   !.content = Trace(j, files[Opens[job[j].command.output]]),
                   !.digested = TRUE]
  BY <1>1 DEF Digest, Set, Shapes
<1>3. PICK r, t, x, s : /\ r = job[j] /\ t = job[j].command.trace /\ s = job'[j]
                        /\ x = Trace(j, files[Opens[job[j].command.output]])
  OBVIOUS
<1>4. DOMAIN r = Fields /\ s = [r EXCEPT !.pc = "opening", !.target = t, !.content = x,
                                  !.digested = TRUE]
  BY <1>2, <1>3, Zenon DEF Shapes
<1>5. s.pc = "opening"
  BY <1>4 DEF Fields
<1>. QED
  BY <1>3, <1>5

LEMMA Moves ==
  ASSUME Shapes, NEW j \in Job, Step(j), ~ Start(j)
  PROVE  /\ job[j] # Idle /\ job[j].pc # "idle" /\ DOMAIN job'[j] = Fields
         /\ job'[j].command = job[j].command
         /\ job'[j].pc \in {"reading", "opening", "writing", "digesting", "succeeded",
                           "failed", "killed"}
         /\ job'[j].digested \in BOOLEAN
         /\ job'[j].pc = "reading" => job'[j].result = job[j].result /\ job[j].pc = "reading"
<1>1. job[j].pc # "idle" /\ job[j] # Idle
  BY DEF Shapes, Idle, Step, Read, Decide, Truncate, Fill, Digest, FailToWrite, Kill, At, Running
<1>2. job[j].digested \in BOOLEAN
  BY <1>1 DEF Shapes
<1>3. CASE \E pc \in {"writing", "digesting", "succeeded", "failed", "killed"} : Becomes(j, pc)
  BY <1>1, <1>2, <1>3, Becoming
<1>. SUFFICES ASSUME ~ \E pc \in {"writing", "digesting", "succeeded", "failed", "killed"} :
                           Becomes(j, pc)
              PROVE  Read(j) \/ Decide(j) \/ Digest(j)
  BY <1>1, <1>2, <1>3, Reading, Deciding, Digesting
<1>. QED
  BY DEF Step, Truncate, Fill, FailToWrite, Kill

LEMMA Starts ==
  ASSUME Shapes, NEW j \in Job, Start(j)
  PROVE  /\ job[j] = Idle /\ DOMAIN job'[j] = Fields /\ job'[j].command \in Commands
         /\ job'[j].pc = "reading" /\ job'[j].result = None /\ job'[j].digested = FALSE
         /\ job'[j].target = job'[j].command.output
         /\ Exclusive => \A k \in Job :
              Running(k) => Outputs(job[k].command) \cap Outputs(job'[j].command) = {}
<1>1. job[j] = Idle
  BY DEF Start, At, Shapes
<1>2. PICK c \in Commands :
        /\ Exclusive => \A k \in Job :
             Running(k) => Outputs(job[k].command) \cap Outputs(c) = {}
        /\ \E piped :
             job' = [job EXCEPT ![j] = [pc |-> "reading", command |-> c, piped |-> piped,
                      read |-> <<>>, content |-> None, result |-> None, target |-> c.output,
                      digested |-> FALSE]]
  BY DEF Start, Set
<1>. QED
  BY <1>1, <1>2 DEF Shapes, Fields

LEMMA ShapesKept ==
  ASSUME Shapes, [Next]_vars
  PROVE  Shapes'
<1>1. ASSUME NEW j \in Job, Step(j)  PROVE Shapes'
  <2>1. ASSUME NEW k \in Job  PROVE
          \/ job'[k] = Idle
          \/ /\ DOMAIN job'[k] = Fields
             /\ job'[k].command \in Commands
             /\ job'[k].digested \in BOOLEAN
             /\ job'[k].pc \in {"reading", "opening", "writing", "digesting", "succeeded",
                               "failed", "killed"}
    <3>1. CASE k # j
      BY <1>1, <3>1, StepFrame DEF Shapes
    <3>2. CASE k = j /\ Start(j)
      BY <3>2, Starts
    <3>3. CASE k = j /\ ~ Start(j)
      BY <1>1, <3>3, Moves DEF Shapes
    <3>. QED
      BY <3>1, <3>2, <3>3
  <2>. QED
    BY <1>1, <2>1, StepFrame DEF Shapes
<1>2. ASSUME NEW f \in Editable, Edit(f)  PROVE Shapes'
  BY <1>2 DEF Edit, Shapes
<1>. QED
  BY <1>1, <1>2 DEF Next, vars, Shapes

-----------------------------------------------------------------------------
(* Progress.                                                               *)

LEMMA DecidedKept ==
  ASSUME NEW j \in Job, Decided(j),
         job'[j].command = job[j].command, job'[j].read = job[j].read,
         job'[j].result = job[j].result
  PROVE  Decided(j)'
BY DEF Decided, Documents, DocumentTexts, Supplied

LEMMA DecidedNow ==
  ASSUME Shapes, NEW j \in Job, job[j] # Idle, Decide(j), ~ Becomes(j, "failed")
  PROVE  Decided(j)'
<1>1. /\ Documents(j)' = Documents(j) /\ Supplied(j)' = Supplied(j)
      /\ job'[j].command = job[j].command /\ job'[j].result = Result(j) /\ Admissible(j)
  BY Deciding DEF Documents, DocumentTexts, Supplied
<1>. DEFINE c == job[j].command
<1>2. UrisDistinct(c)
  BY <1>1 DEF Admissible
<1>3. c.command = "resolve" =>
        PathsApart(c) /\ Result(j) = Materialized(Documents(j)) /\ Valid(Result(j), Supplied(j))
  BY <1>1 DEF Admissible, Result
<1>4. c.command = "diff" =>
        /\ Result(j) = Diff(Documents(j)[1], Documents(j)[2])
        /\ Reproduces(Documents(j)[1], Documents(j)[2])
  BY <1>1 DEF Admissible, Result
<1>5. c.command = "validate" =>
        \A i \in DOMAIN Documents(j) : Valid(Documents(j)[i], Supplied(j))
  BY <1>1 DEF Admissible
<1>. QED
  BY <1>1, <1>2, <1>3, <1>4, <1>5 DEF Decided

\* The trace that is about to be written accounts for its output.
LEMMA TraceAccounts ==
  ASSUME NEW j \in Job, Decided(j), job[j].command.command = "resolve",
         files[Opens[job[j].command.output]]
           = Render(job[j].command.output, job[j].result)
  PROVE  LET d == Trace(j, files[Opens[job[j].command.output]]) IN IsTrace(d) /\ Accounts(d)
<1>. DEFINE d == Trace(j, files[Opens[job[j].command.output]])
<1>1. DOMAIN d = {"inputs", "names", "output", "resolved"}
  BY DEF Trace
<1>2. d.resolved = files[Opens[job[j].command.output]] /\ d.inputs = DocumentTexts(j)
  BY DEF Trace
<1>3. Parse(d.resolved) = job[j].result
  BY <1>2 DEF Parse, Render
<1>4. job[j].result = Materialized(Documents(j))
  BY DEF Decided
<1>5. Documents(j) = [i \in DOMAIN d.inputs |-> Parse(d.inputs[i])]
  BY <1>2 DEF Documents
<1>. QED
  BY <1>1, <1>3, <1>4, <1>5 DEF IsTrace, Accounts

LEMMA PhasesKept ==
  ASSUME Shapes, Phases, [Next]_vars
  PROVE  Phases'
<1>. DEFINE P(j) ==
       /\ job[j].pc = "reading" =>
            job[j].result = None /\ ~ job[j].digested /\ job[j].target = job[j].command.output
       /\ job[j].result # None \/ Writing(j) \/ job[j].pc = "succeeded" => Decided(j)
       /\ Writing(j) => Aims(j)
<1>1. ASSUME NEW j \in Job, job'[j] = job[j], job[j] # Idle  PROVE P(j)'
  <2>1. P(j)
    BY <1>1 DEF Phases
  <2>2. /\ Writing(j)' = Writing(j) /\ Aims(j)' = Aims(j)
        /\ Decided(j) => Decided(j)'
    BY <1>1, DecidedKept DEF Writing, Aims
  <2>. QED
    BY <2>1, <2>2, <1>1
<1>2. ASSUME NEW j \in Job, Start(j)  PROVE P(j)'
  BY <1>2, Starts DEF Writing
<1>3. ASSUME NEW j \in Job, Step(j), ~ Start(j)  PROVE P(j)'
  <2>1. job[j] # Idle /\ P(j)
    BY <1>3, Moves DEF Phases
  <2>2. CASE Read(j) /\ ~ Becomes(j, "failed")
    BY <2>1, <2>2, Reading DEF Writing
  <2>3. CASE Decide(j) /\ ~ Becomes(j, "failed")
    <3>1. Decided(j)'
      BY <2>1, <2>3, DecidedNow
    <3>2. job[j].pc = "reading"
      BY <2>3 DEF Decide, At
    <3>. QED
      BY <2>1, <2>3, <3>1, <3>2, Deciding DEF Writing, Aims
  <2>4. CASE Digest(j) /\ ~ Becomes(j, "failed") /\ ~ Becomes(j, "succeeded")
    <3>1. /\ Decided(j) /\ Aims(j) /\ job[j].command.command = "resolve"
      <4>1. Writing(j) /\ job[j].command.trace # None /\ job[j].command \in Commands
        BY <2>1, <2>4, Digesting DEF Writing, Shapes
      <4>2. job[j].command.command \in {"resolve", "permit"}
        BY <2>1, <2>4, <4>1, Digesting DEF Aims
      <4>. QED
        BY <2>1, <4>1, <4>2, CommandLineConstants DEF CommandLineConstants
    <3>2. Decided(j)'
      BY <2>1, <2>4, <3>1, Digesting, DecidedKept
    <3>. QED
      BY <2>1, <2>4, <3>1, <3>2, Digesting DEF Aims, Writing
  <2>5. CASE Becomes(j, "failed") \/ Becomes(j, "killed")
    BY <2>1, <2>5, Becoming, DecidedKept DEF Writing
  <2>6. CASE Truncate(j)
    <3>1. Becomes(j, "writing") /\ Writing(j)
      BY <2>6 DEF Truncate, At, Writing
    <3>2. Aims(j) /\ Decided(j)'
      BY <2>1, <3>1, Becoming, DecidedKept
    <3>. QED
      BY <2>1, <3>1, <3>2, Becoming DEF Writing, Aims
  <2>7. CASE Fill(j)
    <3>1. Writing(j) /\ \E pc \in {"digesting", "succeeded"} :
            /\ Becomes(j, pc)
            /\ pc = "digesting" => ~ job[j].digested /\ job[j].command.command \in {"resolve", "permit"}
      BY <2>7 DEF Fill, At, Writing
    <3>2. Aims(j) /\ Decided(j)'
      BY <2>1, <3>1, Becoming, DecidedKept
    <3>. QED
      BY <2>1, <3>1, <3>2, Becoming DEF Writing, Aims
  <2>8. CASE Becomes(j, "succeeded") /\ Digest(j)
    <3>1. Writing(j)
      BY <2>8 DEF Digest, At, Writing
    <3>. QED
      BY <2>1, <2>8, <3>1, Becoming, DecidedKept DEF Writing
  <2>. QED
    BY <1>3, <2>2, <2>3, <2>4, <2>5, <2>6, <2>7, <2>8 DEF Step, FailToWrite, Kill
<1>4. ASSUME NEW j \in Job, job'[j] # Idle  PROVE P(j)'
  <2>1. CASE job'[j] = job[j]
    BY <1>1, <1>4, <2>1
  <2>2. CASE job'[j] # job[j]
    <3>1. Step(j)
      BY <2>2, StepFrame DEF Next, Edit, vars
    <3>. QED
      BY <3>1, <1>2, <1>3
  <2>. QED
    BY <2>1, <2>2
<1>. QED
  BY <1>4 DEF Phases

-----------------------------------------------------------------------------
(* Files.                                                                  *)

LEMMA Named ==
  ASSUME NEW c \in Commands
  PROVE  /\ c.output # None => c.output \in Name
         /\ c.trace # None => c.trace \in Name
         /\ InputNames(c) \subseteq Name
<1>1. c \in CommandLines
  BY CommandLineConstants DEF CommandLineConstants
<1>2. c.output \in Name \cup {None} /\ c.trace \in Name \cup {None}
  BY <1>1 DEF CommandLines
<1>3. c.documents \in Seq(Name)
  BY <1>1 DEF CommandLines
<1>. QED
  BY <1>2, <1>3 DEF InputNames

\* Names that are seen to differ open different files.
LEMMA FilesApart ==
  ASSUME NamesFaithful, NEW c \in Commands, PathsApart(c), c.output # None
  PROVE  /\ \A n \in InputNames(c) : Opens[c.output] # Opens[n]
         /\ c.trace # None =>
              /\ Opens[c.trace] # Opens[c.output]
              /\ \A n \in InputNames(c) : Opens[c.trace] # Opens[n]
BY Named DEF PathsApart, NamesFaithful

\* A step writes one of the outputs of its command, if any file.
LEMMA Target ==
  ASSUME Shapes, Phases, NEW j \in Job, Step(j), files' # files
  PROVE  /\ job[j] # Idle /\ Running(j) /\ Writing(j) /\ Decided(j) /\ Aims(j)
         /\ job[j].command \in Commands
         /\ Opens[job[j].target] \in Outputs(job[j].command)
<1>1. job[j].pc \in {"opening", "writing"}
  BY StepFrame
<1>2. job[j] # Idle /\ Writing(j) /\ Running(j)
  BY <1>1 DEF Idle, Writing, Running
<1>3. Decided(j) /\ Aims(j) /\ job[j].command \in Commands /\ job[j].digested \in BOOLEAN
  BY <1>2 DEF Phases, Shapes
<1>. QED
  BY <1>2, <1>3 DEF Aims, Outputs

LEMMA TurnsKept ==
  ASSUME Exclusive, Shapes, TakeTurns, [Next]_vars
  PROVE  TakeTurns'
<1>1. CASE UNCHANGED job
  BY <1>1 DEF TakeTurns, Running
<1>2. ASSUME NEW i \in Job, Step(i)  PROVE TakeTurns'
  <2>1. ASSUME NEW j \in Job, Running(j)'
        PROVE  \/ job'[j] = job[j] /\ Running(j)
               \/ j = i /\ job'[j].command = job[j].command /\ Running(j)
               \/ j = i /\ Start(j)
    <3>1. CASE j # i
      BY <1>2, <2>1, <3>1, StepFrame DEF Running
    <3>2. CASE j = i /\ ~ Start(j)
      <4>1. Running(j)
        BY <1>2, <3>2 DEF Step, Read, Decide, Truncate, Fill, Digest, FailToWrite, Kill, At,
           Running
      <4>. QED
        BY <1>2, <3>2, <4>1, Moves
    <3>. QED
      BY <3>1, <3>2
  <2>2. ASSUME NEW j \in Job, NEW k \in Job, j # k, Running(j)', Running(k)'
        PROVE  Outputs(job'[j].command) \cap Outputs(job'[k].command) = {}
    <3>1. CASE Start(j) /\ j = i
      <4>1. job'[k] = job[k] /\ Running(k)
        BY <1>2, <2>2, <3>1, StepFrame DEF Running
      <4>. QED
        BY <3>1, <4>1, Starts
    <3>2. CASE Start(k) /\ k = i
      <4>1. job'[j] = job[j] /\ Running(j)
        BY <1>2, <2>2, <3>2, StepFrame DEF Running
      <4>. QED
        BY <3>2, <4>1, Starts
    <3>. QED
      BY <2>1, <2>2, <3>1, <3>2 DEF TakeTurns
  <2>. QED
    BY <2>2 DEF TakeTurns, Outputs
<1>. QED
  BY <1>1, <1>2 DEF Next, Edit, vars

LEMMA OutputsKept ==
  ASSUME OutputsGuarded, NamesFaithful, Shapes, Phases, TakeTurns, OutputsThere, [Next]_vars
  PROVE  OutputsThere'
<1>. SUFFICES ASSUME NEW j \in Job, job'[j] # Idle, Writing(j)',
                     job'[j].pc = "digesting" \/ job'[j].digested
              PROVE  files'[Opens[job'[j].command.output]]
                       = Render(job'[j].command.output, job'[j].result)
  BY DEF OutputsThere, Render
<1>. DEFINE Late == job[j].pc = "digesting" \/ job[j].digested
            f == Opens[job[j].command.output]
<1>1. CASE job'[j] = job[j]
  <2>1. /\ job[j] # Idle /\ Writing(j) /\ Late /\ Running(j) /\ job[j].command \in Commands
    BY <1>1 DEF Writing, Running, Shapes
  <2>2. files[f] = Render(job[j].command.output, job[j].result)
    BY <2>1 DEF OutputsThere
  <2>3. f \in Outputs(job[j].command) /\ f \in File
    BY <2>1, Named, CommandLineConstants DEF Phases, Aims, Outputs, CommandLineConstants
  <2>4. files'[f] = files[f]
    <3>1. ASSUME NEW k \in Job, Step(k), files' # files  PROVE files'[f] = files[f]
      <4>1. CASE k = j
        <5>1. \E pc : Becomes(j, pc)
          BY <3>1, <4>1 DEF Step, Start, Read, Decide, Truncate, Fill, Digest, FailToWrite, Kill
        <5>2. \/ job[j].pc = "writing" /\ job'[j].pc # "writing"
              \/ job[j].pc = "opening" /\ job'[j].pc # "opening"
          BY <3>1, <4>1, <2>1, Becoming DEF Step, Start, Read, Decide, Truncate, Fill, Digest,
             FailToWrite, Kill, At
        <5>. QED
          BY <5>2, <1>1
      <4>2. CASE k # j
        BY <3>1, <4>2, <2>1, <2>3, Target, StepFrame DEF TakeTurns
      <4>. QED
        BY <4>1, <4>2
    <3>2. ASSUME NEW g \in Editable, Edit(g)  PROVE files'[f] = files[f]
      BY <3>2, <2>1, <2>3 DEF Edit, OutputsGuarded, Shapes
    <3>. QED
      BY <3>1, <3>2 DEF Next, vars
  <2>. QED
    BY <1>1, <2>2, <2>4
<1>2. CASE job'[j] # job[j]
  <2>1. Step(j)
    BY <1>2, StepFrame DEF Next, Edit, vars
  <2>2. ~ Start(j)
    BY Starts DEF Writing
  <2>3. /\ job[j] # Idle /\ job'[j].command = job[j].command /\ job[j].command \in Commands
    BY <2>1, <2>2, Moves DEF Shapes
  <2>4. CASE Truncate(j)
    <3>1. Becomes(j, "writing") /\ Writing(j)
      BY <2>4 DEF Truncate, At, Writing
    <3>2. job[j].digested /\ job'[j].result = job[j].result
      BY <2>3, <3>1, Becoming
    <3>3. Aims(j) /\ Decided(j)
      BY <2>3, <3>1 DEF Phases
    <3>4. Opens[job[j].target] # f
      BY <3>2, <3>3, <2>3, FilesApart DEF Aims, Decided
    <3>5. files'[f] = files[f]
      BY <2>1, <2>3, <3>3, <3>4, StepFrame, Named, CommandLineConstants
      DEF Aims, CommandLineConstants
    <3>. QED
      BY <2>3, <3>1, <3>2, <3>5 DEF OutputsThere
  <2>5. CASE Fill(j)
    <3>1. Becomes(j, "digesting") /\ Writing(j) /\ ~ job[j].digested
      BY <2>3, <2>5, Becoming DEF Fill, At, Writing
    <3>2. Aims(j) /\ job'[j].result = job[j].result
      BY <2>3, <3>1, Becoming DEF Phases
    <3>3. files'[f] = Render(job[j].command.output, job[j].result)
      BY <2>3, <2>5, <3>1, <3>2, Named, CommandLineConstants
      DEF Aims, Fill, Shapes, CommandLineConstants
    <3>. QED
      BY <2>3, <3>2, <3>3
  <2>6. CASE Digest(j)
    <3>1. ~ Becomes(j, "failed") /\ ~ Becomes(j, "succeeded")
      BY <2>3, Becoming DEF Writing
    <3>2. job[j].pc = "digesting" /\ job'[j].result = job[j].result
      BY <2>3, <2>6, <3>1, Digesting
    <3>3. files' = files
      BY <2>6 DEF Digest
    <3>. QED
      BY <2>3, <3>2, <3>3 DEF OutputsThere, Writing
  <2>7. CASE Decide(j)
    <3>1. ~ Becomes(j, "failed") /\ job[j].pc = "reading"
      BY <2>3, <2>7, Becoming DEF Writing, Decide, At
    <3>. QED
      BY <2>3, <2>7, <3>1, Deciding DEF Phases
  <2>8. CASE Read(j) \/ FailToWrite(j) \/ Kill(j)
    BY <2>3, <2>8, Becoming, Reading DEF FailToWrite, Kill, Writing
  <2>. QED
    BY <2>1, <2>2, <2>4, <2>5, <2>6, <2>7, <2>8 DEF Step
<1>. QED
  BY <1>1, <1>2

LEMMA ReadyKept ==
  ASSUME Shapes, Phases, OutputsThere, TracesReady, [Next]_vars
  PROVE  TracesReady'
<1>. SUFFICES ASSUME NEW j \in Job, job'[j] # Idle, Writing(j)', job'[j].digested
              PROVE  IsTrace(job'[j].content) /\ Accounts(job'[j].content)
  BY DEF TracesReady
<1>1. CASE job'[j] = job[j]
  BY <1>1 DEF TracesReady, Writing
<1>2. CASE job'[j] # job[j]
  <2>1. Step(j) /\ ~ Start(j)
    BY <1>2, StepFrame, Starts DEF Next, Edit, vars, Writing
  <2>2. job[j] # Idle
    BY <2>1, Moves
  <2>3. CASE \E pc : Becomes(j, pc) /\ Writing(j)
    BY <2>2, <2>3, Becoming DEF TracesReady
  <2>4. CASE Digest(j) /\ ~ Becomes(j, "failed") /\ ~ Becomes(j, "succeeded")
    <3>1. /\ job[j].pc = "digesting" /\ Writing(j) /\ Decided(j) /\ Aims(j)
          /\ job[j].command.trace # None /\ job[j].command \in Commands
      BY <2>2, <2>4, Digesting DEF Phases, Writing, Shapes
    <3>2. job[j].command.command = "resolve"
      BY <3>1, CommandLineConstants DEF Aims, CommandLineConstants
    <3>. QED
      BY <2>2, <2>4, <3>1, <3>2, Digesting, TraceAccounts DEF OutputsThere
  <2>5. CASE (Read(j) \/ Decide(j)) /\ ~ Becomes(j, "failed")
    <3>1. job'[j].digested = job[j].digested /\ job[j].pc = "reading"
      BY <2>2, <2>5, Reading, Deciding DEF Decide, At
    <3>. QED
      BY <2>2, <3>1 DEF Phases
  <2>6. CASE \E pc \in {"failed", "killed", "succeeded"} : Becomes(j, pc)
    BY <2>2, <2>6, Becoming DEF Writing
  <2>7. CASE Truncate(j) \/ Fill(j)
    BY <2>3, <2>7 DEF Truncate, Fill, At, Writing
  <2>. QED
    BY <2>1, <2>3, <2>4, <2>5, <2>6, <2>7 DEF Step, FailToWrite, Kill
<1>. QED
  BY <1>1, <1>2

\* A file that holds a trace is written by the command of that trace only, and
\* a trace that is not whole is none.
LEMMA TracesKept ==
  ASSUME OutputsGuarded, NamesFaithful, TracesWholeOrNot,
         Shapes, Phases, TracesReady, TracesAreTrue, [Next]_vars
  PROVE  TracesAreTrue'
<1>. DEFINE True(t) == t # None /\ IsTrace(Parse(t)) => Accounts(Parse(t))
<1>. SUFFICES ASSUME NEW c \in Commands, c.trace # None
              PROVE  True(files'[Opens[c.trace]])
  BY DEF TracesAreTrue
<1>. DEFINE f == Opens[c.trace]
<1>1. True(files[f]) /\ f \in File
  BY Named, CommandLineConstants DEF TracesAreTrue, CommandLineConstants
<1>2. ASSUME NEW g \in Editable, Edit(g)  PROVE files'[f] = files[f]
  <2>1. f \in Outputs(c) /\ f # g
    BY DEF OutputsGuarded, Outputs
  <2>. QED
    BY <1>1, <1>2, <2>1 DEF Edit, Shapes
<1>3. ASSUME NEW j \in Job, Step(j), files'[f] # files[f]  PROVE True(files'[f])
  <2>1. f = Opens[job[j].target]
    BY <1>1, <1>3, StepFrame
  <2>2. /\ job[j] # Idle /\ Decided(j) /\ Aims(j) /\ job[j].command \in Commands
        /\ job[j].digested \in BOOLEAN
    BY <1>3, Target DEF Shapes
  <2>3. job[j].digested
    <3>1. SUFFICES ASSUME ~ job[j].digested  PROVE FALSE
      BY <2>2
    <3>2. job[j].target = job[j].command.output /\ job[j].command.output # None
      BY <2>2, <3>1 DEF Aims
    <3>3. c = job[j].command
      BY <2>1, <2>2, <3>2 DEF OutputsGuarded
    <3>4. c.command = "resolve"
      <4>1. c.command \in {"validate", "diff", "resolve", "permit"}
        BY CommandLineConstants DEF CommandLineConstants, CommandLines
      <4>. QED
        BY <4>1, CommandLineConstants DEF CommandLineConstants
    <3>5. PathsApart(c)
      BY <2>2, <3>3, <3>4 DEF Decided
    <3>. QED
      BY <2>1, <3>2, <3>3, <3>5, FilesApart
  <2>4. IsTrace(job[j].content) /\ Accounts(job[j].content)
    BY <1>3, <2>2, <2>3, Target DEF TracesReady
  <2>5. CASE files'[f] = Empty
    <3>1. Parse(files'[f]) = None
      BY <2>5 DEF Empty, Parse
    <3>2. ~ IsTrace(None)
      BY DEF IsTrace, None
    <3>. QED
      BY <3>1, <3>2
  <2>6. CASE files'[f] = Render(job[j].target, job[j].content)
    BY <2>4, <2>6 DEF Render, Parse
  <2>7. CASE files'[f] \in Torn(Render(job[j].target, job[j].content))
    <3>1. PICK d : /\ files'[f] = [document |-> d, form |-> "torn"]
                   /\ d = None \/ d \in Prefixes(job[j].content)
      BY <2>7 DEF Torn, Render
    <3>2. ~ IsTrace(None)
      BY DEF IsTrace, None
    <3>. QED
      BY <2>4, <3>1, <3>2 DEF Parse, TracesWholeOrNot
  <2>8. \/ files'[f] = Empty
        \/ files'[f] = Render(job[j].target, job[j].content)
        \/ files'[f] \in Torn(Render(job[j].target, job[j].content))
    <3>. DEFINE R == Render(job[j].target, job[j].content)
    <3>1. \E t : /\ files' = [files EXCEPT ![f] = t]
                 /\ t = Empty \/ t = R \/ t \in Torn(R)
      <4>1. CASE Truncate(j)
        BY <2>1, <4>1 DEF Truncate
      <4>2. CASE Fill(j)
        BY <2>1, <4>2 DEF Fill
      <4>3. CASE FailToWrite(j) \/ Kill(j)
        BY <1>3, <2>1, <4>3 DEF FailToWrite, Kill
      <4>. QED
        BY <1>3, <4>1, <4>2, <4>3 DEF Step, Start, Read, Decide, Digest
    <3>. QED
      BY <1>1, <3>1 DEF Shapes
  <2>. QED
    BY <2>5, <2>6, <2>7, <2>8
<1>. QED
  BY <1>1, <1>2, <1>3 DEF Next, vars

LEMMA ProgressHolds == Spec => []Progress
<1>1. Init => Progress
  BY DEF Init, Progress, Shapes, Phases, Idle
<1>2. Progress /\ [Next]_vars => Progress'
  BY ShapesKept, PhasesKept DEF Progress
<1>. QED
  BY <1>1, <1>2, PTL DEF Spec

LEMMA NoTraceYet ==
  ASSUME Init, OutputsGuarded  PROVE TracesAreTrue
<1>. SUFFICES ASSUME NEW c \in Commands, c.trace # None
              PROVE  files[Opens[c.trace]] = None
  BY DEF TracesAreTrue
<1>1. Opens[c.trace] \in File
  BY Named, CommandLineConstants DEF CommandLineConstants
<1>2. Opens[c.trace] \notin Editable
  BY DEF OutputsGuarded, Outputs
<1>. QED
  BY <1>1, <1>2 DEF Init

LEMMA Invariant ==
  ASSUME OutputsGuarded, NamesFaithful, TracesWholeOrNot  PROVE Spec => []Inv
<1>1. Init => Inv
  BY NoTraceYet DEF Inv, Init, Progress, Shapes, Phases, TakeTurns, OutputsThere, TracesReady,
     Running, Idle
<1>2. Inv /\ [Next]_vars => Inv'
  <2>1. Exclusive
    BY DEF OutputsGuarded
  <2>. QED
    BY <2>1, ShapesKept, PhasesKept, TurnsKept, OutputsKept, ReadyKept, TracesKept
    DEF Inv, Progress
<1>. QED
  BY <1>1, <1>2, PTL DEF Spec

-----------------------------------------------------------------------------
(* The theorems.                                                           *)

\* Whatever is edited, interrupted, killed or run again: the text a trace
\* names as resolved is what merging the texts it names gives, provided that
\* commands with a common output take turns, traces are kept in files of
\* their own, and names of one file are seen to be.
THEOREM TracesOnFileAreTrue ==
  ASSUME OutputsGuarded, NamesFaithful, TracesWholeOrNot
  PROVE  Spec => []TracesAreTrue
BY Invariant, PTL DEF Inv

LEMMA Completes ==
  ASSUME NamesFaithful, Inv, NEW j \in Job, Step(j), Running(j),
         job'[j].pc = "succeeded", job[j].command.output # None
  PROVE  LET c == job[j].command IN
         /\ files'[Opens[c.output]] = Render(c.output, job[j].result)
         /\ c.trace # None => /\ files'[Opens[c.trace]].form = Form[c.trace]
                              /\ IsTrace(Parse(files'[Opens[c.trace]]))
<1>. DEFINE c == job[j].command
<1>. USE DEF Inv, Progress
<1>1. job[j] # Idle /\ ~ Start(j)
  <2>1. job[j] # Idle
    BY DEF Running, Idle
  <2>. QED
    BY <2>1, Starts
<1>2. c \in Commands
  BY <1>1 DEF Shapes
<1>3. CASE Fill(j)
  <2>1. Writing(j) /\ job[j].pc = "writing" /\ job[j].digested \in BOOLEAN
    BY <1>1, <1>3 DEF Fill, At, Writing, Shapes
  <2>2. Decided(j) /\ Aims(j)
    BY <1>1, <2>1 DEF Phases
  <2>3. Opens[c.output] \in File /\ (c.trace # None => Opens[c.trace] \in File)
    BY <1>2, Named, CommandLineConstants DEF CommandLineConstants
  <2>4. ~ Becomes(j, "digesting")
    BY <1>1, Becoming
  <2>5. CASE job[j].digested
    <3>1. c.command = "resolve" /\ c.trace # None /\ job[j].target = c.trace
      BY <2>2, <2>5 DEF Aims
    <3>2. files[Opens[c.output]] = Render(c.output, job[j].result)
      BY <1>1, <2>1, <2>5 DEF OutputsThere
    <3>3. IsTrace(job[j].content)
      BY <1>1, <2>1, <2>5 DEF TracesReady
    <3>4. Opens[c.trace] # Opens[c.output]
      BY <1>2, <2>2, <3>1, FilesApart DEF Decided
    <3>5. files'[Opens[c.trace]] = Render(c.trace, job[j].content)
      BY <1>3, <2>3, <3>1 DEF Fill, Shapes
    <3>6. files'[Opens[c.output]] = files[Opens[c.output]]
      BY <1>3, <2>3, <3>1, <3>4 DEF Fill, Shapes
    <3>. QED
      BY <3>2, <3>3, <3>5, <3>6 DEF Render, Parse
  <2>6. CASE ~ job[j].digested
    <3>1. c.command \in {"validate", "diff"}
      <4>1. c.command \in {"validate", "diff", "resolve", "permit"}
        BY <1>2, CommandLineConstants DEF CommandLineConstants, CommandLines
      <4>. QED
        BY <1>3, <2>4, <2>6, <4>1 DEF Fill
    <3>2. c.trace = None
      BY <1>2, <3>1, CommandLineConstants DEF CommandLineConstants
    <3>3. job[j].target = c.output /\ job[j].content = job[j].result
      BY <2>2, <2>6 DEF Aims
    <3>. QED
      BY <1>3, <2>3, <3>2, <3>3 DEF Fill, Shapes
  <2>. QED
    BY <2>1, <2>5, <2>6
<1>4. CASE Digest(j)
  <2>1. job[j].pc = "digesting" /\ Writing(j) /\ files' = files
    BY <1>4 DEF Digest, At, Writing
  <2>2. ~ Becomes(j, "failed")
    BY <1>1, Becoming
  <2>3. c.trace = None
    BY <1>1, <1>4, DigestedLast
  <2>. QED
    BY <1>1, <2>1, <2>3 DEF OutputsThere
<1>5. ~ (Decide(j) /\ ~ Becomes(j, "failed"))
  BY <1>1, Deciding
<1>6. ~ (Read(j) /\ ~ Becomes(j, "failed"))
  BY <1>1, Reading
<1>7. ~ Becomes(j, "failed") /\ ~ Becomes(j, "killed") /\ ~ Becomes(j, "writing")
  BY <1>1, Becoming
<1>. QED
  BY <1>1, <1>3, <1>4, <1>5, <1>6, <1>7 DEF Step, Truncate, FailToWrite, Kill

\* Exit status 0 means that the output, and the trace asked for, are there and
\* whole.
THEOREM SuccessMeansComplete ==
  ASSUME OutputsGuarded, NamesFaithful, TracesWholeOrNot
  PROVE  Spec => SuccessIsComplete
<1>1. Inv /\ [Next]_vars =>
        [\A j \in Job :
           Running(j) /\ job'[j].pc = "succeeded" /\ job[j].command.output # None =>
             LET c == job[j].command IN
             /\ files'[Opens[c.output]] = Render(c.output, job[j].result)
             /\ c.trace # None => /\ files'[Opens[c.trace]].form = Form[c.trace]
                                  /\ IsTrace(Parse(files'[Opens[c.trace]]))]_vars
  <2>. SUFFICES ASSUME Inv, Next, NEW j \in Job, Running(j), job'[j].pc = "succeeded",
                       job[j].command.output # None
                PROVE  LET c == job[j].command IN
                       /\ files'[Opens[c.output]] = Render(c.output, job[j].result)
                       /\ c.trace # None => /\ files'[Opens[c.trace]].form = Form[c.trace]
                                            /\ IsTrace(Parse(files'[Opens[c.trace]]))
    OBVIOUS
  <2>1. job'[j] # job[j]
    BY DEF Running
  <2>2. Step(j)
    BY <2>1, StepFrame DEF Next, Edit, Inv, Progress
  <2>. QED
    BY <2>2, Completes
<1>. QED
  BY <1>1, Invariant, PTL DEF Spec, SuccessIsComplete

\* No step of a resolve command, complete or interrupted, touches its base or
\* overlays, provided that names of one file are seen to be.
THEOREM InputsAreNotOverwritten ==
  ASSUME NamesFaithful  PROVE Spec => InputsSurvive
<1>1. Progress /\ [Next]_vars =>
        [\A j \in Job :
           job[j] # Idle /\ job'[j] # job[j] /\ job[j].command.command = "resolve" =>
             \A n \in InputNames(job[j].command) : files'[Opens[n]] = files[Opens[n]]]_vars
  <2>. SUFFICES ASSUME Progress, Next, NEW j \in Job, job[j] # Idle, job'[j] # job[j],
                       job[j].command.command = "resolve",
                       NEW n \in InputNames(job[j].command), files' # files
                PROVE  files'[Opens[n]] = files[Opens[n]]
    OBVIOUS
  <2>1. Shapes /\ Phases /\ Step(j)
    BY StepFrame DEF Next, Edit, Progress
  <2>2. /\ Decided(j) /\ Aims(j) /\ job[j].command \in Commands
        /\ Opens[job[j].target] \in Outputs(job[j].command)
    BY <2>1, Target
  <2>3. PathsApart(job[j].command) /\ job[j].command.output # None
    BY <2>2 DEF Decided, Aims
  <2>4. Opens[n] # Opens[job[j].target]
    BY <2>2, <2>3, FilesApart DEF Outputs
  <2>5. Opens[n] \in File
    BY <2>2, Named, CommandLineConstants DEF CommandLineConstants
  <2>. QED
    BY <2>1, <2>4, <2>5, StepFrame
<1>. QED
  BY <1>1, ProgressHolds, PTL DEF Spec, InputsSurvive

LEMMA OneOverlay ==
  ASSUME NEW base, NEW overlay  PROVE Materialized(<<base, overlay>>) = Merge(base, overlay)
<1>. DEFINE d == <<base, overlay>>
            of(m) == [i \in DOMAIN d |-> IF i = 1 THEN d[1] ELSE Merge(m[i - 1], d[i])]
            merged == CHOOSE m : m = of(m)
            known == [i \in {1, 2} |-> IF i = 1 THEN base ELSE Merge(base, overlay)]
<1>1. DOMAIN d = {1, 2} /\ d[1] = base /\ d[2] = overlay /\ Len(d) = 2
  OBVIOUS
<1>2. known = of(known)
  BY <1>1
<1>3. merged = of(merged)
  BY <1>2
<1>4. merged[1] = base
  BY <1>1, <1>3
<1>5. merged[2] = Merge(base, overlay)
  BY <1>1, <1>3, <1>4
<1>6. Materialized(d) = merged[2]
  BY <1>1 DEF Materialized
<1>. QED
  BY <1>5, <1>6

\* What diff wrote, merged into what diff read, gives what diff was asked for.
THEOREM PatchesLeadToTheirTarget == Spec => []DiffThenResolve
<1>1. Progress => DiffThenResolve
  <2>. SUFFICES ASSUME Progress, NEW j \in Job, NEW k \in Job,
                       job[j] # Idle, job[j].command.command = "diff", job[j].result # None,
                       job[k] # Idle, job[k].command.command = "resolve", job[k].result # None,
                       Documents(k) = <<Documents(j)[1], job[j].result>>
                PROVE  job[k].result = Documents(j)[2]
    BY DEF DiffThenResolve
  <2>1. Decided(j) /\ Decided(k)
    BY DEF Progress, Phases
  <2>2. Merge(Documents(j)[1], job[j].result) = Documents(j)[2]
    BY <2>1 DEF Decided, Reproduces
  <2>3. job[k].result = Materialized(<<Documents(j)[1], job[j].result>>)
    BY <2>1 DEF Decided
  <2>. QED
    BY <2>2, <2>3, OneOverlay
<1>. QED
  BY <1>1, ProgressHolds, PTL

\* Of schemas supplied under distinct URIs, the one of a declared extension is
\* the text that the declaration pins.
LEMMA SchemaPinned ==
  ASSUME NEW j \in Job, UrisDistinct(job[j].command), NEW d, ExtensionsHold(d, Supplied(j)),
         NEW x \in Declared(d), NEW s \in Supplied(j), s.uri = x.schema_uri
  PROVE  s.text = x.sha256
<1>. DEFINE c == job[j].command
<1>1. PICK p \in Supplied(j) : p.uri = x.schema_uri /\ p.text = x.sha256
  BY DEF ExtensionsHold
<1>2. PICK i \in DOMAIN c.schemas : p.uri = c.schemas[i].uri /\ p.text = job[j].read[i]
  BY <1>1 DEF Supplied
<1>3. PICK k \in DOMAIN c.schemas : s.uri = c.schemas[k].uri /\ s.text = job[j].read[k]
  BY DEF Supplied
<1>4. i = k
  BY <1>1, <1>2, <1>3 DEF UrisDistinct
<1>. QED
  BY <1>1, <1>2, <1>3, <1>4

\* Two commands that accept one document judged it by the same schemas.
THEOREM AcceptedByTheSameSchemas == Spec => []PinnedSchemasAgree
<1>1. Progress => PinnedSchemasAgree
  <2>. SUFFICES ASSUME Progress, NEW j \in Job, NEW k \in Job,
                       job[j] # Idle, job[j].command.command = "validate",
                       job[j].pc = "succeeded",
                       job[k] # Idle, job[k].command.command \in {"validate", "resolve"},
                       job[k].pc = "succeeded", NEW i \in DOMAIN Documents(j),
                       Documents(j)[i] \in
                         (IF job[k].command.command = "resolve" THEN {job[k].result}
                          ELSE {Documents(k)[n] : n \in DOMAIN Documents(k)}),
                       NEW x \in Declared(Documents(j)[i]), NEW s \in Supplied(j),
                       NEW t \in Supplied(k), s.uri = x.schema_uri, t.uri = x.schema_uri
                PROVE  s.text = t.text
    BY DEF PinnedSchemasAgree
  <2>1. Decided(j) /\ Decided(k)
    BY DEF Progress, Phases
  <2>2. ExtensionsHold(Documents(j)[i], Supplied(j)) /\ UrisDistinct(job[j].command)
    BY <2>1 DEF Decided, Valid
  <2>3. ExtensionsHold(Documents(j)[i], Supplied(k)) /\ UrisDistinct(job[k].command)
    BY <2>1 DEF Decided, Valid
  <2>. QED
    BY <2>2, <2>3, SchemaPinned
<1>. QED
  BY <1>1, ProgressHolds, PTL

-----------------------------------------------------------------------------
(* What is read, and what is on file.                                      *)

TextsOnFile ==
  /\ \A f \in File : files[f] = None \/ files[f].form \in {"json", "yaml", "torn"}
  /\ edits \in 0..Edits

\* What a command has read: texts that were there, and documents that parse.
ReadIs(c, read) ==
  /\ \E S : read \in Seq(S)
  /\ Len(read) <= Len(Sources(c))
  /\ \A i \in DOMAIN read :
       /\ read[i] # None
       /\ i > Len(c.schemas) => Parse(read[i]) # None

TextsRead == \A j \in Job : job[j] # Idle => ReadIs(job[j].command, job[j].read)

LEMMA SourcesCounted ==
  ASSUME NEW c \in Commands
  PROVE  Len(Sources(c)) \in Nat /\ Len(c.schemas) \in Nat
<1>1. c \in CommandLines
  BY CommandLineConstants DEF CommandLineConstants
<1>2. c.schemas \in Seq([uri : STRING, path : Name]) /\ c.documents \in Seq(Name)
  BY <1>1 DEF CommandLines
<1>. DEFINE paths == [i \in DOMAIN c.schemas |-> c.schemas[i].path]
<1>3. paths \in Seq(Name)
  <2>1. /\ DOMAIN c.schemas = 1..Len(c.schemas) /\ Len(c.schemas) \in Nat
        /\ \A i \in 1..Len(c.schemas) : c.schemas[i].path \in Name
    <3>1. PICK R : R = [uri : STRING, path : Name]
      OBVIOUS
    <3>2. PICK s : s = c.schemas
      OBVIOUS
    <3>3. s \in Seq(R)
      BY <1>2, <3>1, <3>2
    <3>4. DOMAIN s = 1..Len(s) /\ Len(s) \in Nat /\ \A i \in 1..Len(s) : s[i] \in R
      BY <3>3
    <3>. QED
      BY <3>1, <3>2, <3>4
  <2>2. PICK n \in Nat : n = Len(c.schemas)
    BY <2>1
  <2>3. paths \in [1..n -> Name]
    BY <2>1, <2>2
  <2>. QED
    BY <2>3
<1>4. Sources(c) \in Seq(Name)
  <2>. HIDE DEF paths
  <2>1. paths \o c.documents \in Seq(Name)
    BY <1>2, <1>3
  <2>. QED
    BY <2>1 DEF Sources, paths
<1>. QED
  BY <1>2, <1>4

LEMMA OneMoreRead ==
  ASSUME NEW c \in Commands, NEW read, ReadIs(c, read), NEW text, text # None,
         Len(read) < Len(Sources(c)),
         Len(read) >= Len(c.schemas) => Parse(text) # None
  PROVE  ReadIs(c, Append(read, text))
<1>1. PICK S : read \in Seq(S)
  BY DEF ReadIs
<1>2. read \in Seq(S \cup {text})
  BY <1>1
<1>. DEFINE more == Append(read, text)
<1>3. more \in Seq(S \cup {text}) /\ Len(more) = Len(read) + 1 /\ Len(read) \in Nat
  BY <1>2
<1>4. \A i \in 1..Len(read) : more[i] = read[i]
  BY <1>2
<1>5. more[Len(read) + 1] = text
  BY <1>2
<1>6. DOMAIN more = 1..(Len(read) + 1) /\ DOMAIN read = 1..Len(read)
  BY <1>2, <1>3
<1>. HIDE DEF more
<1>7. Len(more) <= Len(Sources(c))
  BY <1>3, SourcesCounted
<1>8. ASSUME NEW i \in DOMAIN more
      PROVE  more[i] # None /\ (i > Len(c.schemas) => Parse(more[i]) # None)
  <2>1. CASE i \in 1..Len(read)
    BY <1>4, <1>6, <2>1 DEF ReadIs
  <2>2. CASE i = Len(read) + 1
    BY <1>3, <1>5, <2>2, SourcesCounted
  <2>. QED
    BY <1>3, <1>6, <2>1, <2>2
<1>9. ReadIs(c, more)
  BY <1>3, <1>7, <1>8 DEF ReadIs
<1>. QED
  BY <1>9 DEF more

LEMMA TextsReadKept ==
  ASSUME Shapes, TextsRead, NEW j \in Job, Step(j)
  PROVE  TextsRead'
<1>. SUFFICES ASSUME job'[j] # Idle  PROVE ReadIs(job'[j].command, job'[j].read)
  <2>1. \A k \in Job \ {j} : job'[k] = job[k]
    BY StepFrame
  <2>. QED
    BY <2>1 DEF TextsRead, ReadIs
<1>1. CASE Start(j)
  <2>1. job'[j].read = <<>> /\ job'[j].command \in Commands
    <3>1. job[j] = Idle /\ DOMAIN job = Job
      BY <1>1, Starts DEF Shapes
    <3>2. job'[j].read = <<>>
      BY <1>1, <3>1 DEF Start, Set
    <3>. QED
      BY <1>1, <3>2, Starts
  <2>2. <<>> \in Seq({}) /\ Len(<<>>) = 0 /\ DOMAIN <<>> = {}
    OBVIOUS
  <2>. QED
    BY <2>1, <2>2, SourcesCounted DEF ReadIs
<1>. SUFFICES ASSUME ~ Start(j)  PROVE ReadIs(job'[j].command, job'[j].read)
  BY <1>1
<1>2. job[j] # Idle /\ job'[j].command = job[j].command
  BY Moves
<1>3. job[j].command \in Commands /\ ReadIs(job[j].command, job[j].read)
  BY <1>2 DEF Shapes, TextsRead
<1>4. CASE job'[j].read = job[j].read
  BY <1>2, <1>3, <1>4
<1>5. CASE job'[j].read # job[j].read
  <2>1. \A pc : ~ Becomes(j, pc)
    BY <1>2, <1>5, Becoming
  <2>2. Read(j)
    BY <1>2, <1>5, <2>1, Deciding, Digesting
    DEF Step, Truncate, Fill, FailToWrite, Kill
  <2>3. /\ Len(job[j].read) < Len(Sources(job[j].command))
        /\ Source(j) # None
        /\ Len(job[j].read) >= Len(job[j].command.schemas) => Parse(Source(j)) # None
        /\ job'[j] = [job[j] EXCEPT !.read = Append(job[j].read, Source(j))]
    BY <2>1, <2>2 DEF Read, Set, Shapes
  <2>4. job'[j].read = Append(job[j].read, Source(j))
    <3>1. DOMAIN job[j] = Fields
      BY <1>2 DEF Shapes
    <3>. QED
      BY <2>3, <3>1, NewText
  <2>. QED
    BY <1>2, <1>3, <2>3, <2>4, OneMoreRead
<1>. QED
  BY <1>4, <1>5

LEMMA TextsOnFileKept ==
  ASSUME Shapes, Phases, TextsOnFile, NEW j \in Job, Step(j)
  PROVE  TextsOnFile'
<1>1. edits' = edits
  BY DEF Step, Start, Read, Decide, Truncate, Fill, Digest, FailToWrite, Kill
<1>2. ASSUME files' # files
      PROVE  \A f \in File : files'[f] = None \/ files'[f].form \in {"json", "yaml", "torn"}
  <2>1. \E t : files' = [files EXCEPT ![Opens[job[j].target]] = t]
               /\ t.form \in {"json", "yaml", "torn"}
    <3>1. job[j].target \in Name /\ Form[job[j].target] \in {"json", "yaml"}
      BY <1>2, Target, Named, CommandLineConstants DEF Aims, CommandLineConstants, Shapes
    <3>2. Render(job[j].target, job[j].content).form \in {"json", "yaml"}
      BY <3>1 DEF Render
    <3>3. Empty.form = "torn" /\ \A text : \A t \in Torn(text) : t.form = "torn"
      BY DEF Empty, Torn
    <3>. QED
      BY <1>2, <3>2, <3>3 DEF Step, Start, Read, Decide, Truncate, Fill, Digest, FailToWrite, Kill
  <2>. QED
    BY <2>1 DEF TextsOnFile, Shapes
<1>. QED
  BY <1>1, <1>2 DEF TextsOnFile

\* Whatever is saved, piped, cut off or killed: what a command works on are
\* texts that were there, and documents that parse (serialization.py,
\* load_mapping).
THEOREM TextsWereThere == Spec => []TypeOK
<1>. DEFINE Typed == TextsOnFile /\ TextsRead
<1>1. Init => Typed
  <2>. SUFFICES ASSUME Init  PROVE Typed
    OBVIOUS
  <2>1. edits \in 0..Edits
    BY CommandLineConstants DEF Init, CommandLineConstants
  <2>2. \A f \in File : files[f] = None \/ files[f].form \in {"json", "yaml", "torn"}
    BY CommandLineConstants DEF Init, CommandLineConstants
  <2>. QED
    BY <2>1, <2>2 DEF Init, TextsOnFile, TextsRead
<1>2. ASSUME Progress, Typed, [Next]_vars  PROVE Typed'
  <2>1. CASE UNCHANGED vars
    BY <1>2, <2>1 DEF vars, TextsOnFile, TextsRead, ReadIs
  <2>2. ASSUME NEW j \in Job, Step(j)  PROVE Typed'
    BY <1>2, <2>2, TextsReadKept, TextsOnFileKept DEF Progress
  <2>3. ASSUME NEW f \in Editable, Edit(f)  PROVE Typed'
    <3>1. TextsOnFile'
      BY <1>2, <2>3, CommandLineConstants DEF Edit, TextsOnFile, CommandLineConstants, Progress, Shapes
    <3>. QED
      BY <1>2, <2>3, <3>1 DEF Edit, TextsRead, ReadIs
  <2>. QED
    BY <1>2, <2>1, <2>2, <2>3 DEF Next
<1>3. Progress /\ Typed => TypeOK
  <2>. SUFFICES ASSUME Progress, Typed, NEW j \in Job, job[j] # Idle
                PROVE  job[j].command \in Commands /\ ReadIs(job[j].command, job[j].read)
    BY DEF TypeOK, TextsOnFile, ReadIs
  <2>. QED
    BY DEF Progress, Shapes, TextsRead
<1>. HIDE DEF Typed
<1>. QED
  BY <1>1, <1>2, <1>3, ProgressHolds, PTL DEF Spec
=============================================================================
