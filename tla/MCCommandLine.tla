--------------------------- MODULE MCCommandLine ---------------------------
(***************************************************************************)
(* A small instance of CommandLine for TLC: one base and one overlay, an   *)
(* extension schema, and commands that read and write each other's files.  *)
(***************************************************************************)
EXTENDS CommandLine, MergePatch

CONSTANTS base, over, aka, out, trace, patch, schema

-----------------------------------------------------------------------------
(* Documents have a name, limits, and the extension they may declare.      *)

Schema(strict) ==
  [document |-> [strict |-> Scalar(strict)], form |-> "json"]

Wide == [name |-> Scalar("a"), limits |-> Object([speed |-> Scalar(1), force |-> Scalar(1)])]
Narrow == [name |-> Scalar("a"), limits |-> Object([speed |-> Scalar(2)])]
Unforced == [name |-> Scalar("b"), limits |-> Object([force |-> Null, speed |-> Scalar(2)])]
Extended == [name |-> Scalar("a"), extension |-> Scalar(Schema(TRUE))]

Yaml(d) == [document |-> d, form |-> "yaml"]

IsWellFormed(d) == "name" \in DOMAIN d /\ DOMAIN d \subseteq {"name", "limits", "extension"}
DeclaredIn(d) ==
  IF "extension" \in DOMAIN d
  THEN {[namespace |-> "x", schema_uri |-> "u", sha256 |-> d.extension[2]]} ELSE {}
PayloadsOf(d) == IF "extension" \in DOMAIN d THEN {"x"} ELSE {}
PayloadConforms(d, x) == TRUE

\* What is left of a document is fewer of its members.
Part(d) == {[k \in S |-> d[k]] : S \in (SUBSET DOMAIN d) \ {{}, DOMAIN d}}

-----------------------------------------------------------------------------
(* Names, files and command lines.  aka is another name of the base, as    *)
(* "./base.yaml" would be.                                                 *)

Files == {base, over, out, trace, patch, schema, Stdin}
FileOf == [n \in Files \cup {aka} |-> IF n = aka THEN base ELSE n]
FormOf == [n \in Files \cup {aka} |-> IF n \in {out, base, over} THEN "yaml" ELSE "json"]

Line(command, documents, output) ==
  [command |-> command, schemas |-> <<>>, documents |-> documents, output |-> output,
   trace |-> None]
With(line) == [line EXCEPT !.schemas = <<[uri |-> "u", path |-> schema]>>]
Traced(line, n) == [line EXCEPT !.trace = n]

Resolve == Traced(Line("resolve", <<base, over>>, out), trace)
Again == Line("resolve", <<base, patch>>, out)
Piped == Traced(Line("resolve", <<base, Stdin, Stdin>>, out), trace)
Overwriting == Line("resolve", <<base, over>>, aka)
Colliding == Traced(Line("resolve", <<base, over>>, out), out)
Compare == Line("diff", <<base, over>>, patch)
Check == With(Line("validate", <<base>>, None))
CheckResolved == Line("validate", <<out>>, None)
Permit == Line("permit", <<>>, out)

Names == Files \cup {aka}
Inputs == {base, over, schema}
TextsOf ==
  [f \in Inputs \cup {Stdin} |->
     CASE f = base -> {Yaml(Wide), Yaml(Extended)}
       [] f = schema -> {Schema(TRUE), Schema(FALSE)}
       [] OTHER -> {Yaml(Narrow), Yaml(Unforced)}]
LinesInUse ==
  {Resolve, Again, Piped, Overwriting, Colliding, Compare, Check, CheckResolved, Permit}
=============================================================================
