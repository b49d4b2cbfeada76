------------------------------- MODULE MCSubnet -------------------------------
(* Addresses of four bits, the last part of three.                          *)
EXTENDS Subnet

SomeIps == {{}, {2}, {3}, {1, 3}}

\* The pool's host numbers, 3 and 6.
Low == {0, 1}
High == {1, 2}
=============================================================================
