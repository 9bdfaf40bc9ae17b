--------------------------- MODULE MCHeaderSubmit ---------------------------
(* Headers with the lengths at which a guard decides, for two-digit and    *)
(* four-digit fields of base 3 and an int that ends at 31.                 *)
EXTENDS HeaderSubmit

MCEntries ==
    {[key |-> TRUE, name |-> n, val |-> TRUE, value |-> v] :
        n \in {0, 1, 8, 9, 32}, v \in {0, 1, 10, 25, 31, 32}}
    \cup {[key |-> FALSE, name |-> 0, val |-> FALSE, value |-> 0],
          [key |-> TRUE, name |-> 1, val |-> FALSE, value |-> 2]}

MCContentTypes == {NoType, 2, 64}
=============================================================================
