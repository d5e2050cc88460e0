------------------------------- MODULE Friends -------------------------------
(***************************************************************************)
(* What the relation service promises about friendship: a request between  *)
(* two users is answered once, accepting it and becoming friends is one    *)
(* step, and friendship is mutual at every moment.                         *)
(***************************************************************************)
EXTENDS Integers, Sequences

CONSTANT Users

VARIABLES
    friends,    \* pairs <<u, v>>: v is a friend of u
    asked       \* the requests: from, to and status

Both(u, v) == {<<u, v>>, <<v, u>>}

FriendsInit == friends = {} /\ asked = <<>>

Ask(u, v) ==
    /\ \A i \in 1 .. Len(asked) : asked[i].status = "pending" => {asked[i].from, asked[i].to} # {u, v}
    /\ asked' = Append(asked, [from |-> u, to |-> v, status |-> "pending"])
    /\ UNCHANGED friends

AcceptRequest(i) ==
    /\ asked[i].status = "pending"
    /\ asked' = [asked EXCEPT ![i].status = "accepted"]
    /\ friends' = friends \cup Both(asked[i].from, asked[i].to)

RejectRequest(i) ==
    /\ asked[i].status = "pending"
    /\ asked' = [asked EXCEPT ![i].status = "rejected"]
    /\ UNCHANGED friends

Unfriend(u, v) == friends' = friends \ Both(u, v) /\ UNCHANGED asked

FriendsNext ==
    \/ \E u \in Users, v \in Users : u # v /\ (Ask(u, v) \/ Unfriend(u, v))
    \/ \E i \in 1 .. Len(asked) : AcceptRequest(i) \/ RejectRequest(i)

FriendsSpec == FriendsInit /\ [][FriendsNext]_<<friends, asked>>
=============================================================================
