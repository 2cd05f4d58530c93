---------------------------- MODULE CommandLine ----------------------------
(***************************************************************************)
(* Commands over files: validate, diff, scenario resolve and permit init,  *)
(* run as processes of one file system.                                    *)
(*                                                                         *)
(* A command reads its inputs one after the other, decides, and writes in  *)
(* place: it truncates the file and then fills it.  Editors change the     *)
(* inputs meanwhile, the output of one command is the input of another,    *)
(* writes fail, and a command may be killed at any step.                   *)
(*                                                                         *)
(* A text is the document it parses to, or None if it does not, and the    *)
(* form it has; its digest is the text.  What documents are, and what the  *)
(* rules of theirs are, is left open: nothing here depends on it.          *)
(***************************************************************************)
EXTENDS Naturals, Sequences

CONSTANTS
  Job,          \* invocations
  Name,         \* paths, as they are given on the command line
  Stdin,        \* the name "-"
  File,
  Opens,        \* name -> the file it opens
  Checked,      \* name -> Path(name).expanduser().resolve()
  Form,         \* name -> "json" or "yaml", by its suffix
  Commands,     \* the command lines in use
  Texts,        \* file -> the texts that editors save in it or pipe into "-"
  Editable,     \* files that editors change
  Exclusive,    \* TRUE if commands that share an output take turns
  Edits,        \* bound: how often an editor saves a file
  Merge(_, _),  \* json_merge_patch.merge
  Diff(_, _),   \* json_merge_patch.create_patch
  WellFormed(_),   \* the schema and the semantic rules of a document
  Declared(_),     \* the extensions a scenario declares
  Payloads(_),     \* the namespaces of its extension payloads
  Conforms(_, _),  \* the payload of a namespace satisfies a schema
  Prefixes(_)      \* documents that parts of a YAML text parse to

None == [absent |-> TRUE]
Empty == [document |-> None, form |-> "torn"]

VARIABLES
  files,  \* file -> its text, or None
  job,    \* invocation -> how far it is, what it read and what it makes of it
  edits

vars == <<files, job, edits>>

CommandLines ==
  [command : {"validate", "diff", "resolve", "permit"},
   schemas : Seq([uri : STRING, path : Name]), documents : Seq(Name),
   output : Name \cup {None}, trace : Name \cup {None}]

ASSUME CommandLineConstants ==
  /\ Stdin \in Name /\ Edits \in Nat
  /\ Opens \in [Name -> File] /\ Form \in [Name -> {"json", "yaml"}]
  /\ Commands \subseteq CommandLines /\ Editable \subseteq File
  /\ \A f \in Editable \cup {Opens[Stdin]} : \A t \in Texts[f] :
       t.form \in {"json", "yaml", "torn"}
  /\ \A c \in Commands :
       /\ c.command = "resolve" => Len(c.documents) >= 2 /\ c.output # None
       /\ c.command = "diff" => Len(c.documents) = 2
       /\ c.command \in {"validate", "diff", "permit"} => c.trace = None

-----------------------------------------------------------------------------
(* Texts and documents.                                                    *)

Parse(text) == text.document
Render(name, document) == [document |-> document, form |-> Form[name]]

\* What an interrupted write leaves: cut JSON never parses, cut YAML may.
Torn(text) ==
  {[document |-> d, form |-> "torn"] :
     d \in {None} \cup IF text.form = "yaml" THEN Prefixes(text.document) ELSE {}}

\* Overlays are merged one by one, from the first to the last.
Materialized(documents) ==
  LET merged[i \in DOMAIN documents] ==
        IF i = 1 THEN documents[1] ELSE Merge(merged[i - 1], documents[i])
  IN  merged[Len(documents)]

\* slip: the schema is found by its URI, its digest is not compared
ExtensionsHoldByUri(d, supplied) ==
  /\ {x.namespace : x \in Declared(d)} = Payloads(d)
  /\ \A x, y \in Declared(d) : x.namespace = y.namespace => x = y
  /\ \A x \in Declared(d) : \E s \in supplied :
       /\ s.uri = x.schema_uri
       /\ s.text.form = "json" /\ Conforms(d, [x EXCEPT !.sha256 = s.text])

\* Every declared extension schema was supplied under its URI, has the
\* declared digest, is JSON, and holds for the payload.
ExtensionsHold(d, supplied) ==
  /\ {x.namespace : x \in Declared(d)} = Payloads(d)
  /\ \A x, y \in Declared(d) : x.namespace = y.namespace => x = y
  /\ \A x \in Declared(d) : \E s \in supplied :
       /\ s.uri = x.schema_uri /\ s.text = x.sha256
       /\ s.text.form = "json" /\ Conforms(d, x)

Valid(d, supplied) == WellFormed(d) /\ ExtensionsHold(d, supplied)

-----------------------------------------------------------------------------
(* A command and what it has read.                                         *)

Sources(c) == [i \in DOMAIN c.schemas |-> c.schemas[i].path] \o c.documents

Supplied(j) ==
  LET c == job[j].command IN
  {[uri |-> c.schemas[i].uri, text |-> job[j].read[i]] : i \in DOMAIN c.schemas}

\* The texts of the documents, and the documents.
DocumentTexts(j) ==
  LET n == Len(job[j].command.schemas) IN
  [i \in DOMAIN job[j].command.documents |-> job[j].read[n + i]]
Documents(j) == [i \in DOMAIN DocumentTexts(j) |-> Parse(DocumentTexts(j)[i])]

Outputs(c) == {Opens[n] : n \in {c.output, c.trace} \ {None}}

UrisDistinct(c) ==
  \A i, k \in DOMAIN c.schemas : c.schemas[i].uri = c.schemas[k].uri => i = k

InputNames(c) == {c.documents[i] : i \in DOMAIN c.documents} \ {Stdin}

\* slip: names are compared, not what they resolve to
PathsApartByName(c) ==
  {c.output, c.trace} \cap InputNames(c) = {} /\ c.trace # c.output

\* slip: the trace may take the place of the output
PathsApartOfInputs(c) ==
  {Checked[n] : n \in {c.output, c.trace} \ {None}} \cap {Checked[n] : n \in InputNames(c)} = {}

PathsApart(c) ==
  LET inputs == {Checked[n] : n \in InputNames(c)} IN
  /\ Checked[c.output] \notin inputs
  /\ c.trace # None => Checked[c.trace] \notin inputs \cup {Checked[c.output]}

\* slip: a patch is returned without applying it
ReproducesUnchecked(source, target) == TRUE

\* The patch is applied to see that it leads to the target: null removes.
Reproduces(source, target) == Merge(source, Diff(source, target)) = target

Result(j) ==
  LET c == job[j].command IN
  CASE c.command = "resolve"  -> Materialized(Documents(j))
    [] c.command = "diff"     -> Diff(Documents(j)[1], Documents(j)[2])
    [] c.command = "permit"   -> [permit |-> j]
    [] c.command = "validate" -> None

Admissible(j) ==
  LET c == job[j].command IN
  /\ UrisDistinct(c)
  /\ c.command = "validate" =>
       /\ \A i \in DOMAIN Documents(j) : Valid(Documents(j)[i], Supplied(j))
       /\ \A i, k \in DOMAIN c.documents : c.documents[i] = Stdin /\ c.documents[k] = Stdin
                                           => i = k
  /\ c.command = "diff" => Reproduces(Documents(j)[1], Documents(j)[2])
  /\ c.command = "resolve" => PathsApart(c) /\ Valid(Result(j), Supplied(j))

\* slip: the inputs are read again to compute their digests
TraceReadAgain(j, resolved) ==
  LET c == job[j].command
      now == [i \in DOMAIN c.documents |-> files[Opens[c.documents[i]]]]
      again == [i \in DOMAIN now |-> IF now[i] = None THEN DocumentTexts(j)[i] ELSE now[i]]
  IN  [inputs |-> again, names |-> c.documents, output |-> c.output, resolved |-> resolved]

\* The trace holds the digests of what was read and of what is there now.
Trace(j, resolved) ==
  [inputs |-> DocumentTexts(j), names |-> job[j].command.documents,
   output |-> job[j].command.output, resolved |-> resolved]

-----------------------------------------------------------------------------
(* The steps of an invocation.                                             *)

Idle == [pc |-> "idle"]
Running(j) == job[j].pc \notin {"idle", "succeeded", "failed", "killed"}
At(j, pc) == job[j].pc = pc
Set(j, state) == job' = [job EXCEPT ![j] = state]
Becomes(j, pc) == Set(j, [job[j] EXCEPT !.pc = pc])

Start(j) ==
  /\ At(j, "idle")
  /\ \E c \in Commands :
       /\ Exclusive => \A k \in Job :
            Running(k) => Outputs(job[k].command) \cap Outputs(c) = {}
       /\ \E piped \in IF \E i \in DOMAIN c.documents : c.documents[i] = Stdin
                       THEN Texts[Opens[Stdin]] ELSE {Empty} :
            Set(j, [pc |-> "reading", command |-> c, piped |-> piped, read |-> <<>>,
                    content |-> None, result |-> None, target |-> c.output,
                    digested |-> FALSE])
  /\ UNCHANGED <<files, edits>>

\* Standard input is empty when it is read again.
Source(j) ==
  LET i == Len(job[j].read) + 1
      first == Len(job[j].command.schemas) + 1
      n == Sources(job[j].command)[i]
  IN  IF n # Stdin \/ i < first THEN files[Opens[n]]
      ELSE IF \E k \in first..(i - 1) : Sources(job[j].command)[k] = Stdin THEN Empty
      ELSE job[j].piped

\* slip: an empty file is an empty document
ReadOrEmpty(j) ==
  /\ At(j, "reading") /\ Len(job[j].read) < Len(Sources(job[j].command))
  /\ IF Source(j) = None THEN Becomes(j, "failed")
     ELSE Set(j, [job[j] EXCEPT !.read = Append(@, Source(j))])
  /\ UNCHANGED <<files, edits>>

\* An input that is missing, or a document that does not parse, ends it.
Read(j) ==
  /\ At(j, "reading") /\ Len(job[j].read) < Len(Sources(job[j].command))
  /\ IF \/ Source(j) = None
        \/ Len(job[j].read) >= Len(job[j].command.schemas) /\ Parse(Source(j)) = None
     THEN Becomes(j, "failed")
     ELSE Set(j, [job[j] EXCEPT !.read = Append(@, Source(j))])
  /\ UNCHANGED <<files, edits>>

Decide(j) ==
  /\ At(j, "reading") /\ Len(job[j].read) = Len(Sources(job[j].command))
  /\ IF ~ Admissible(j) THEN Becomes(j, "failed")
     ELSE Set(j, [job[j] EXCEPT !.content = Result(j), !.result = Result(j),
                    !.pc = IF job[j].command.output = None THEN "succeeded" ELSE "opening"])
  /\ UNCHANGED <<files, edits>>

\* The file is opened for writing, which empties it.
Truncate(j) ==
  /\ At(j, "opening")
  /\ files' = [files EXCEPT ![Opens[job[j].target]] = Empty]
  /\ Becomes(j, "writing")
  /\ UNCHANGED edits

\* Written and closed; a trace, and the patch of a diff, come last.
Fill(j) ==
  /\ At(j, "writing")
  /\ files' = [files EXCEPT ![Opens[job[j].target]] = Render(job[j].target, job[j].content)]
  /\ Becomes(j, IF /\ job[j].command.command \in {"resolve", "permit"}
                    /\ ~ job[j].digested
                 THEN "digesting" ELSE "succeeded")
  /\ UNCHANGED edits

\* The output is read back to digest it; resolve goes on with its trace.
Digest(j) ==
  /\ At(j, "digesting")
  /\ LET c == job[j].command
         written == files[Opens[c.output]]
     IN  IF written = None THEN Becomes(j, "failed")
         ELSE IF c.trace = None THEN Becomes(j, "succeeded")
         ELSE Set(j, [job[j] EXCEPT !.pc = "opening", !.target = c.trace,
                        !.content = Trace(j, written), !.digested = TRUE])
  /\ UNCHANGED <<files, edits>>

\* A file cannot be opened, or the disk is full: exit status 1.
FailToWrite(j) ==
  /\ Becomes(j, "failed")
  /\ \/ At(j, "opening") /\ UNCHANGED files
     \/ /\ At(j, "writing")
        /\ \E t \in Torn(Render(job[j].target, job[j].content)) :
             files' = [files EXCEPT ![Opens[job[j].target]] = t]
  /\ UNCHANGED edits

Kill(j) ==
  /\ Running(j)
  /\ Becomes(j, "killed")
  /\ \/ UNCHANGED files
     \/ /\ At(j, "writing")
        /\ \E t \in Torn(Render(job[j].target, job[j].content)) :
             files' = [files EXCEPT ![Opens[job[j].target]] = t]
  /\ UNCHANGED edits

\* Somebody saves another text, or removes the file (external).
Edit(f) ==
  /\ edits < Edits /\ edits' = edits + 1
  /\ \E t \in Texts[f] \cup {None} : files' = [files EXCEPT ![f] = t]
  /\ UNCHANGED job

-----------------------------------------------------------------------------
Init ==
  /\ \E saved \in [Editable -> UNION {Texts[f] : f \in Editable}] :
       /\ \A f \in Editable : saved[f] \in Texts[f]
       /\ files = [f \in File |-> IF f \in Editable THEN saved[f] ELSE None]
  /\ job = [j \in Job |-> Idle]
  /\ edits = 0

Step(j) ==
  \/ Start(j) \/ Read(j) \/ Decide(j) \/ Truncate(j) \/ Fill(j) \/ Digest(j)
  \/ FailToWrite(j) \/ Kill(j)

Next == (\E j \in Job : Step(j)) \/ (\E f \in Editable : Edit(f))

Spec == Init /\ [][Next]_vars

-----------------------------------------------------------------------------
(* What the runs and the theorems are told of the surroundings.            *)

\* Two names of one file are seen to be: no hard links, and no "~", which
\* the check of the paths expands and opening a file does not.
NamesFaithful == \A m, n \in Name : Opens[m] = Opens[n] => Checked[m] = Checked[n]

\* Nobody but the command in turn writes its outputs, and traces are kept in
\* files of their own.
OutputsGuarded ==
  /\ Exclusive
  /\ \A c \in Commands : Outputs(c) \cap Editable = {}
  /\ \A c, e \in Commands :
       c.trace # None /\ e.output # None /\ Opens[c.trace] = Opens[e.output]
       => c = e

-----------------------------------------------------------------------------
(* Properties.                                                             *)

\* Type invariant.  Every invocation has read texts only, and documents
\* that parse.
TypeOK ==
  /\ \A f \in File : files[f] = None \/ files[f].form \in {"json", "yaml", "torn"}
  /\ edits \in 0..Edits
  /\ \A j \in Job : job[j] # Idle =>
       /\ job[j].command \in Commands
       /\ Len(job[j].read) <= Len(Sources(job[j].command))
       /\ \A i \in DOMAIN job[j].read :
            /\ job[j].read[i] # None
            /\ i > Len(job[j].command.schemas) => Parse(job[j].read[i]) # None

\* "scenario outputs must not overwrite an input document": no step of a
\* resolve command, complete or interrupted, touches its base or overlays.
InputsSurvive ==
  [][\A j \in Job :
       job[j] # Idle /\ job'[j] # job[j] /\ job[j].command.command = "resolve" =>
         \A n \in InputNames(job[j].command) : files'[Opens[n]] = files[Opens[n]]]_vars

IsTrace(d) == DOMAIN d = {"inputs", "names", "output", "resolved"}

Accounts(trace) ==
  Parse(trace.resolved) = Materialized([i \in DOMAIN trace.inputs |-> Parse(trace.inputs[i])])

\* A trace on file tells the truth whatever was edited, killed or run again:
\* the text it names as resolved is what merging the texts it names gives.
TracesAreTrue ==
  \A c \in Commands : c.trace # None =>
    LET t == files[Opens[c.trace]] IN t # None /\ IsTrace(Parse(t)) => Accounts(Parse(t))

\* Exit status 0 of a command with an output: the output is there, whole, and
\* so is the trace that was asked for.
SuccessIsComplete ==
  [][\A j \in Job :
       Running(j) /\ job'[j].pc = "succeeded" /\ job[j].command.output # None =>
         LET c == job[j].command IN
         /\ files'[Opens[c.output]] = Render(c.output, job[j].result)
         /\ c.trace # None => /\ files'[Opens[c.trace]].form = Form[c.trace]
                              /\ IsTrace(Parse(files'[Opens[c.trace]]))]_vars

\* A patch that diff wrote, merged into what diff read, gives what diff was
\* asked for, whoever changes the files in between.
DiffThenResolve ==
  \A j, k \in Job :
    /\ job[j] # Idle /\ job[j].command.command = "diff" /\ job[j].result # None
    /\ job[k] # Idle /\ job[k].command.command = "resolve" /\ job[k].result # None
    /\ Documents(k) = <<Documents(j)[1], job[j].result>>
    => job[k].result = Documents(j)[2]

\* Two commands that accept one document judged it by the same extension
\* schemas, although the schema files may have changed in between.
PinnedSchemasAgree ==
  \A j, k \in Job :
    /\ job[j] # Idle /\ job[j].command.command = "validate" /\ job[j].pc = "succeeded"
    /\ job[k] # Idle /\ job[k].command.command \in {"validate", "resolve"}
    /\ job[k].pc = "succeeded"
    => \A i \in DOMAIN Documents(j) :
         Documents(j)[i] \in (IF job[k].command.command = "resolve" THEN {job[k].result}
                              ELSE {Documents(k)[n] : n \in DOMAIN Documents(k)}) =>
           \A x \in Declared(Documents(j)[i]), s \in Supplied(j), t \in Supplied(k) :
             s.uri = x.schema_uri /\ t.uri = x.schema_uri => s.text = t.text
=============================================================================
