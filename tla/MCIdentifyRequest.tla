-------------------------- MODULE MCIdentifyRequest --------------------------
EXTENDS IdentifyRequest, TLC

CONSTANTS r1, r2

(* PrefixOf against its reading with powers of ten: what is left of v when its
   last digits are cut off.  The ids have up to five digits. *)
Ids == 1..120 \cup {999, 1000, 1001, 1234, 9999, 10000, 12345}
ASSUME PrefixIsCut ==
  \A u, v \in Ids : PrefixOf(u, v) <=> \E k \in 0..4 : v \div 10^k = u
ASSUME LongPrefix == PrefixOf(1, 10000) /\ ~PrefixOf(2, 10000)

(* Users 1 and 2: neither id is a prefix of the other. *)
MCApart == {r1, r2}
MCApartUser == (r1 :> 1) @@ (r2 :> 2)

(* Users 1 and 10. *)
MCPrefixUser == (r1 :> 1) @@ (r2 :> 10)

(* Both submit a task of the same name. *)
MCSameTask == [r \in MCApart |-> "a"]
=============================================================================
