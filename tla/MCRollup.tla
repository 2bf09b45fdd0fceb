------------------------------ MODULE MCRollup ------------------------------
(***************************************************************************)
(* Three records, two of them in one daily row; the rows are of one day    *)
(* (MCOneDay: transactions meet on both) or of two (MCTwoDays).            *)
(***************************************************************************)
EXTENDS Rollup, TLC

CONSTANTS a, b, c, p, q, i1, i2

MCBucketOf == a :> p @@ b :> p @@ c :> q
MCPairOf   == a :> p @@ b :> q
MCOneDay   == p :> 1 @@ q :> 1
MCTwoDays  == p :> 1 @@ q :> 2
=============================================================================
