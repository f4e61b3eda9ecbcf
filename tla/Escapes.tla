------------------------------ MODULE Escapes ------------------------------
(***************************************************************************)
(* The characters JSON literals are about and the table that undoes        *)
(* one-character escapes, which the navigation and the parser share.       *)
(***************************************************************************)

Quote     == "\""
Backslash == "\\"

(* escape_table: every byte that is no escape becomes 0, `u' too.          *)
escape_table(c) ==
  CASE c \in {Quote, "/", Backslash} -> c
    [] c = "b" -> "\\x08"
    [] c = "f" -> "\f"
    [] c = "n" -> "\n"
    [] c = "r" -> "\r"
    [] c = "t" -> "\t"
    [] OTHER -> "NUL"

=============================================================================
