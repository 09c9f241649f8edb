--------------------------- MODULE MCConfigTable ---------------------------
(***************************************************************************)
(* TLC instance of ConfigTable: all files of up to MaxLines lines over     *)
(* three keys, two of which collide.  The value that a line sets is the    *)
(* number of the line, so that no two lines of a file say the same.        *)
(***************************************************************************)
EXTENDS ConfigTable

CONSTANTS a, b, c, MaxLines

Collide == [k \in Key |-> IF k = c THEN 1 ELSE 0]

Numbered(f) ==
  [i \in DOMAIN f |-> IF f[i] = Skip THEN Skip ELSE [key |-> f[i], value |-> i]]

ShortFiles ==
  UNION {{Numbered(f) : f \in [1..n -> Key \cup {Skip}]} : n \in 0..MaxLines}
=============================================================================
