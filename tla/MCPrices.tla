------------------------------ MODULE MCPrices ------------------------------
(***************************************************************************)
(* A family of two prefixes. The shorter one has a default rate and is     *)
(* listed under the vendor's name, the longer one under two aliases too.   *)
(***************************************************************************)
EXTENDS Prices

MCPrefixOf == <<2, 1, 2, 2>>
MCVendor   == {2, 4}
MCRate     == {1, 2}
MCDefault  == <<1, Unlisted>>
=============================================================================
