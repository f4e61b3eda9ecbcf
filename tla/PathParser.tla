----------------------------- MODULE PathParser -----------------------------
(***************************************************************************)
(* json::path::parse: the grammar of the path lists given on the command   *)
(* line, such as id,revision[-1].timestamp,                                *)
(*                                                                         *)
(*   key       = lexeme[+(char_ - '.' - '[' - ',')]                        *)
(*   path      = -((key >> -('[' >> int_ >> ']')) % '.')                   *)
(*   path_list = -(path % ',')                                             *)
(*                                                                         *)
(* walked as Boost.Spirit walks it: one step per match or failed match of  *)
(* a rule, where what a failed rule has read is given back while what its  *)
(* semantic actions have pushed is kept.                                   *)
(***************************************************************************)
EXTENDS Integers, Sequences, SequencesExt

CONSTANTS Specs,    \* the path lists a user may write
          IntMax    \* the largest int

ASSUME SpecsAssumption == Specs \subseteq Seq(STRING)
ASSUME IntMaxAssumption == IntMax \in Nat

VARIABLES
  spec,    \* the text
  first,   \* the next character of it to be read
  rule,    \* the rule to be tried, or "accepted", "threw"
  back,    \* where the '.' just read stands
  path,    \* attribute of the path rule: the elements pushed so far
  paths    \* attribute of path_list

pathVars == <<spec, first, rule, back, path, paths>>

Blank     == {" "}
KeyStops  == {".", "[", ","}
DigitOf   == ("0" :> 0) @@ ("1" :> 1)
Signs     == {"+", "-"}

(* The first position from p on whose character is not in S.               *)
Past(S, p) ==
  CHOOSE q \in p .. Len(spec) + 1 :
    /\ \A k \in p .. q - 1 : spec[k] \in S
    /\ q <= Len(spec) => spec[q] \notin S

At(p, c) == p <= Len(spec) /\ spec[p] = c
Skip(p)  == Past(Blank, p)

Init ==
  /\ spec \in Specs
  /\ first = 1
  /\ rule = "path"
  /\ back = 1
  /\ path = << >>
  /\ paths = << >>

-----------------------------------------------------------------------------
(* key: skip, then at least one character that is not a stop; the blanks   *)
(* inside and behind a key belong to it.                                   *)
key_begin == Skip(first)
key_end   ==
  CHOOSE q \in key_begin .. Len(spec) + 1 :
    /\ \A k \in key_begin .. q - 1 : spec[k] \notin KeyStops
    /\ q <= Len(spec) => spec[q] \in KeyStops
HasKey    == key_end > key_begin

Key ==
  /\ rule \in {"path", "item"}
  /\ HasKey
  /\ path' = Append(path, [type |-> "key", key |-> SubSeq(spec, key_begin, key_end - 1)])
  /\ first' = key_end
  /\ rule' = "index"
  /\ UNCHANGED <<spec, back, paths>>

(* variant: the key is optional, not the path                              *)
EmptyPathIndexed ==
  /\ rule = "path"
  /\ ~HasKey
  /\ rule' = "index"
  /\ UNCHANGED <<spec, first, back, path, paths>>

(* The whole path is optional: it is empty, and matches.                   *)
EmptyPath ==
  /\ rule = "path"
  /\ ~HasKey
  /\ rule' = "comma"
  /\ UNCHANGED <<spec, first, back, path, paths>>

(* variant: the list tries the separator again where it stands             *)
NoItemRetry ==
  /\ rule = "item"
  /\ ~HasKey
  /\ first' = back
  /\ rule' = "dot"
  /\ UNCHANGED <<spec, back, path, paths>>

(* The list gives the '.' back after which there is no key.                *)
NoItem ==
  /\ rule = "item"
  /\ ~HasKey
  /\ first' = back
  /\ rule' = "comma"
  /\ UNCHANGED <<spec, back, path, paths>>

-----------------------------------------------------------------------------
(* int_: a sign and digits, with nothing between them; fails on overflow.  *)
int_begin  == Skip(Skip(first) + 1)
digits     == IF int_begin <= Len(spec) /\ spec[int_begin] \in Signs
              THEN int_begin + 1 ELSE int_begin
int_end    == Past(DOMAIN DigitOf, digits)
magnitude  == FoldLeft(LAMBDA n, c : 10 * n + DigitOf[c], 0, SubSeq(spec, digits, int_end - 1))
int_       == IF At(int_begin, "-") THEN -magnitude ELSE magnitude
HasInt     == /\ At(Skip(first), "[")
              /\ int_end > digits
              /\ int_ \in -IntMax - 1 .. IntMax
HasClosing == At(Skip(int_end), "]")

PushIndex == path' = Append(path, [type |-> "index", index |-> int_])

Index ==
  /\ rule = "index" /\ HasInt /\ HasClosing
  /\ PushIndex
  /\ first' = Skip(int_end) + 1
  /\ rule' = "dot"
  /\ UNCHANGED <<spec, back, paths>>

(* variant: the bracket is not given back                                  *)
HalfIndexKept ==
  /\ rule = "index" /\ HasInt /\ ~HasClosing
  /\ PushIndex
  /\ first' = int_end
  /\ rule' = "dot"
  /\ UNCHANGED <<spec, back, paths>>

(* '[' and a number without ']': the group gives the text back, but the    *)
(* number has been pushed.                                                 *)
HalfIndex ==
  /\ rule = "index" /\ HasInt /\ ~HasClosing
  /\ PushIndex
  /\ rule' = "dot"
  /\ UNCHANGED <<spec, first, back, paths>>

NoIndex ==
  /\ rule = "index" /\ ~HasInt
  /\ rule' = "dot"
  /\ UNCHANGED <<spec, first, back, path, paths>>

-----------------------------------------------------------------------------
Dot ==
  /\ rule = "dot" /\ At(Skip(first), ".")
  /\ back' = first
  /\ first' = Skip(first) + 1
  /\ rule' = "item"
  /\ UNCHANGED <<spec, path, paths>>

NoDot ==
  /\ rule = "dot" /\ ~At(Skip(first), ".")
  /\ rule' = "comma"
  /\ UNCHANGED <<spec, first, back, path, paths>>

(* The path is complete and is pushed to the list of the paths.            *)
PathDone == rule = "comma" /\ paths' = Append(paths, path) /\ path' = << >>

Comma ==
  /\ PathDone
  /\ At(Skip(first), ",")
  /\ first' = Skip(first) + 1
  /\ rule' = "path"
  /\ UNCHANGED <<spec, back>>

(* The grammar always matches; the text must have been read to its end,    *)
(* which phrase_parse looks for behind blanks.                             *)
End ==
  /\ PathDone
  /\ ~At(Skip(first), ",")
  /\ first' = Skip(first)
  /\ rule' = IF first' = Len(spec) + 1 THEN "accepted" ELSE "threw"
  /\ UNCHANGED <<spec, back>>

PathNext ==
  \/ Key \/ EmptyPath \/ NoItem
  \/ Index \/ HalfIndex \/ NoIndex
  \/ Dot \/ NoDot \/ Comma \/ End

PathSpec == Init /\ [][PathNext]_pathVars /\ WF_pathVars(PathNext)

-----------------------------------------------------------------------------
Element == [type : {"key"}, key : Seq(STRING)] \cup [type : {"index"}, index : Int]

(* An index is the element right after a key.                              *)
IndexAfterKey(p) ==
  \A k \in 1 .. Len(p) : p[k].type = "index" => k > 1 /\ p[k - 1].type = "key"

(* What parse() hands to the queries is a list of at least one path, and   *)
(* in every path an index directly follows a key: a path cannot start with *)
(* an index, nor go from an array into an array, although the accessors    *)
(* could follow it.                                                        *)
PathsUsable ==
  /\ paths \in Seq(Seq(Element))
  /\ \A k \in 1 .. Len(paths) : IndexAfterKey(paths[k])
  /\ rule = "accepted" => paths # << >>

(* parse() returns or throws.                                              *)
ParseEnds == <>(rule \in {"accepted", "threw"})

=============================================================================
