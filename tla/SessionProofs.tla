--------------------------- MODULE SessionProofs ----------------------------
(***************************************************************************)
(* Proofs about what the clients of a gateway meet, for any number of      *)
(* gateways, connections, devices, users and calls in flight: the device   *)
(* index of a gateway (Session) finds every authenticated connection and   *)
(* nothing else, the rate limiter (RateLimit) keeps its rate, and the      *)
(* relation service (Social) implements Friends.                           *)
(*                                                                         *)
(* The index is changed by logins, re-logins, replacements and closes on   *)
(* different threads. A connection that a login replaced is out of the     *)
(* index before it is closed, so the invariant follows the login that is   *)
(* to close it. The statements of two calls of the relation service may    *)
(* alternate, so its invariant says what each call has found, locked and   *)
(* written so far.                                                         *)
(***************************************************************************)
EXTENDS Session, RateLimit, Social, TLAPS

LoginPlaces == {"none", "rpc", "sadd", "expire", "setOnline", "setConn", "callback", "replace",
                "delOnline", "delConn", "srem"}

SessionTypeOK ==
    /\ state \in [Conns -> {"new", "up", "closing", "gone"}]
    /\ device \in [Conns -> Devices \cup {None}]
    /\ index \in [Gateways \X Devices -> Conns \cup {None}]
    /\ login \in [Conns -> [pc : LoginPlaces, device : Devices \cup {None}]]
    /\ replaced \in [Conns -> Conns \cup {None}]

\* A login in progress is for a device
LoginInv == \A c \in Conns : login[c].pc # "none" => login[c].device \in Devices

\* Only a login that is about to close a connection of its gateway names one
ReplacedInv ==
    \A x \in Conns : replaced[x] # None => /\ login[x].pc = "replace"
                                           /\ GatewayOf[replaced[x]] = GatewayOf[x]

\* The login that closes a connection names it
ReplacingInv == \A x \in Conns : login[x].pc = "replace" => replaced[x] # None

NewInv == \A c \in Conns : state[c] = "new" => device[c] = None

SessionInv ==
    /\ SessionTypeOK
    /\ LoginInv /\ ReplacedInv /\ ReplacingInv /\ NewInv
    /\ IndexIsSound


\* At the start there are no connections.
LEMMA SessionInitially == SessionAssumption /\ Init => SessionInv
<1> SUFFICES ASSUME SessionAssumption, Init PROVE SessionInv
    BY Zenon
<1>1. SessionTypeOK
    BY Zenon DEF Init, SessionTypeOK, NoLogin, LoginPlaces
<1>2. LoginInv /\ ReplacedInv /\ ReplacingInv /\ NewInv
    BY Zenon DEF Init, LoginInv, ReplacedInv, ReplacingInv, NewInv, NoLogin
<1>3. IndexIsSound
    BY Zenon DEF Init, IndexIsSound, SessionAssumption
<1> QED
    BY <1>1, <1>2, <1>3, Zenon DEF SessionInv

-----------------------------------------------------------------------------
(* Steps that leave the index and the contexts alone                        *)

\* The online worker, heartbeats, expiries and readers touch only the keys.
LEMMA KeyStep ==
    ASSUME SessionInv, UNCHANGED <<gateway, login>>
    PROVE  SessionInv'
<1>1. UNCHANGED <<state, device, index, replaced, login>>
    BY Zenon DEF gateway
<1> QED
    BY <1>1 DEF SessionInv, SessionTypeOK, LoginInv, ReplacedInv, ReplacingInv, NewInv,
        IndexIsSound

\* A login moves on, before its connection is bound.
LEMMA LoginMoves ==
    ASSUME SessionInv, UNCHANGED gateway, NEW c \in Conns, login[c].pc # "replace",
           login' \in [Conns -> [pc : LoginPlaces, device : Devices \cup {None}]],
           \A x \in Conns : x # c => login'[x] = login[x],
           login'[c].pc # "replace",
           login'[c].pc # "none" => login'[c].device \in Devices
    PROVE  SessionInv'
<1>1. UNCHANGED <<state, device, index, replaced>>
    BY Zenon DEF gateway
<1>2. SessionTypeOK'
    BY <1>1, Zenon DEF SessionInv, SessionTypeOK
<1>3. LoginInv' /\ ReplacedInv' /\ ReplacingInv' /\ NewInv'
    BY <1>1, Zenon DEF SessionInv, LoginInv, ReplacedInv, ReplacingInv, NewInv
<1>4. IndexIsSound'
    BY <1>1 DEF SessionInv, IndexIsSound
<1> QED
    BY <1>2, <1>3, <1>4, Zenon DEF SessionInv

\* Login and ResumeSession up to the callback.
LEMMA LoginStepKeeps ==
    ASSUME SessionInv, NEW c \in Conns,
           \/ \E d \in Devices : handleLogin(c, d)
           \/ loginRpc(c) \/ setOnline(c) \/ undoOnline(c) \/ loginTooLate(c)
    PROVE  SessionInv'
<1>1. UNCHANGED gateway
    BY Zenon DEF handleLogin, loginRpc, setOnline, undoOnline, loginTooLate
<1>2. login \in [Conns -> [pc : LoginPlaces, device : Devices \cup {None}]]
    BY Zenon DEF SessionInv, SessionTypeOK
<1>3. login[c].pc # "none" => login[c].device \in Devices
    BY Zenon DEF SessionInv, LoginInv
<1>4. ASSUME NEW d \in Devices, handleLogin(c, d) PROVE SessionInv'
    <2>1. login[c].pc = "none" /\ login' = [login EXCEPT ![c] = [pc |-> "rpc", device |-> d]]
        BY <1>4, Zenon DEF handleLogin, At
    <2> QED
        BY <1>1, <1>2, <2>1, LoginMoves, Zenon DEF LoginPlaces
<1>5. ASSUME NEW place \in LoginPlaces, place # "replace", LoginGoto(c, place),
             login[c].pc \notin {"none", "replace"}
      PROVE  SessionInv'
    <2>1. /\ login' \in [Conns -> [pc : LoginPlaces, device : Devices \cup {None}]]
          /\ \A x \in Conns : x # c => login'[x] = login[x]
          /\ login'[c].pc = place /\ login'[c].device = login[c].device
        BY <1>2, <1>5, Zenon DEF LoginGoto
    <2> QED
        BY <1>1, <1>3, <1>5, <2>1, LoginMoves, Zenon
<1>6. ASSUME EndLogin(c), login[c].pc # "replace" PROVE SessionInv'
    <2>1. /\ login' \in [Conns -> [pc : LoginPlaces, device : Devices \cup {None}]]
          /\ \A x \in Conns : x # c => login'[x] = login[x]
          /\ login'[c].pc = "none"
        BY <1>2, <1>6, Zenon DEF EndLogin, NoLogin, LoginPlaces
    <2> QED
        BY <1>1, <1>6, <2>1, LoginMoves, Zenon
<1>7. CASE loginRpc(c)
    BY <1>5, <1>6, <1>7, Zenon DEF loginRpc, At, LoginPlaces
<1>8. CASE setOnline(c)
    <2>1. \E place \in LoginPlaces \ {"replace"} : LoginGoto(c, place)
        BY <1>8, Zenon DEF setOnline, LoginPlaces
    <2>2. login[c].pc \notin {"none", "replace"}
        BY <1>8, Zenon DEF setOnline, At
    <2> QED
        BY <1>5, <2>1, <2>2, Zenon
<1>9. CASE undoOnline(c)
    <2>1. login[c].pc \in {"delOnline", "delConn", "srem"}
        BY <1>9, Zenon DEF undoOnline, Cleanup
    <2>2. EndLogin(c) \/ LoginGoto(c, "delConn") \/ LoginGoto(c, "srem")
        BY <1>9, <2>1, Zenon DEF undoOnline, NextCleanup, At
    <2> QED
        BY <1>5, <1>6, <2>1, <2>2, Zenon DEF LoginPlaces
<1>10. CASE loginTooLate(c)
    BY <1>6, <1>10, Zenon DEF loginTooLate, At
<1> QED
    BY <1>4, <1>7, <1>8, <1>9, <1>10, Zenon

\* A connection comes up, or is to be closed.
LEMMA StateStep ==
    ASSUME SessionInv,
           UNCHANGED <<device, index, replaced, login>>,
           \/ \E c \in Conns : state[c] = "new" /\ state' = [state EXCEPT ![c] = "up"]
           \/ \E c \in Conns : state[c] = "up" /\ state' = [state EXCEPT ![c] = "closing"]
    PROVE  SessionInv'
<1>1. PICK c \in Conns, from \in {"new", "up"}, to \in {"up", "closing"} :
          /\ state[c] = from /\ state' = [state EXCEPT ![c] = to]
          /\ (from = "new" /\ to = "up") \/ (from = "up" /\ to = "closing")
    BY Zenon
<1>2. state \in [Conns -> {"new", "up", "closing", "gone"}]
    BY Zenon DEF SessionInv, SessionTypeOK
<1>3. state' \in [Conns -> {"new", "up", "closing", "gone"}] /\ state'[c] = to
      /\ \A x \in Conns : x # c => state'[x] = state[x]
    BY <1>1, <1>2, Zenon
<1>4. SessionTypeOK' /\ LoginInv' /\ ReplacedInv' /\ ReplacingInv'
    BY <1>3, Zenon DEF SessionInv, SessionTypeOK, LoginInv, ReplacedInv, ReplacingInv
<1>5. NewInv'
    BY <1>1, <1>3, Zenon DEF SessionInv, NewInv
<1>6. IndexIsSound'
    <2>1. ASSUME NEW g \in Gateways, NEW d \in Devices, NEW x \in Conns, index[<<g, d>>] = x
          PROVE  GatewayOf[x] = g /\ device[x] = d /\ state'[x] \in {"up", "closing"}
        BY <1>1, <1>3, <2>1 DEF SessionInv, IndexIsSound
    <2>2. ASSUME NEW x \in Conns, state'[x] = "up", device[x] # None
          PROVE  index[<<GatewayOf[x], device[x]>>] = x \/ \E y \in Conns : replaced[y] = x
        <3>1. state[x] = "up"
            BY <1>1, <1>3, <2>2, Zenon DEF SessionInv, NewInv
        <3> QED
            BY <2>2, <3>1, Zenon DEF SessionInv, IndexIsSound
    <2> QED
        BY <2>1, <2>2 DEF IndexIsSound
<1> QED
    BY <1>4, <1>5, <1>6, Zenon DEF SessionInv

-----------------------------------------------------------------------------
(* Steps that change the index                                              *)

\* A connection is in the index in one place, that of its device.
LEMMA IndexedOnce ==
    ASSUME SessionInv, NEW c \in Conns
    PROVE  \A g \in Gateways, d \in Devices :
               index[<<g, d>>] = c => g = GatewayOf[c] /\ d = device[c]
BY DEF SessionInv, IndexIsSound

\* A closed connection leaves the index before its context goes.
LEMMA DisconnectStep ==
    ASSUME SessionAssumption, SessionInv, NEW c \in Conns, disconnect(c)
    PROVE  SessionInv'
<1>1. /\ UNCHANGED <<replaced, login>>
      /\ state' = [state EXCEPT ![c] = "gone"] /\ device' = [device EXCEPT ![c] = None]
    BY Zenon DEF disconnect
<1>2. /\ index' \in [Gateways \X Devices -> Conns \cup {None}]
      /\ \A g \in Gateways, d \in Devices :
            index'[<<g, d>>] = IF index[<<g, d>>] = c THEN None ELSE index[<<g, d>>]
    <2>1. CASE device[c] = None /\ UNCHANGED index
        <3>1. index \in [Gateways \X Devices -> Conns \cup {None}]
            BY Zenon DEF SessionInv, SessionTypeOK
        <3>2. \A g \in Gateways, d \in Devices : index[<<g, d>>] # c
            BY <2>1 DEF SessionInv, IndexIsSound, SessionAssumption
        <3> QED
            BY <2>1, <3>1, <3>2, Zenon
    <2>2. CASE /\ device[c] # None
               /\ index' = [index EXCEPT ![<<GatewayOf[c], device[c]>>] =
                                IF @ = c THEN None ELSE @]
        <3>1. index \in [Gateways \X Devices -> Conns \cup {None}]
            BY Zenon DEF SessionInv, SessionTypeOK
        <3>2. GatewayOf[c] \in Gateways /\ device[c] \in Devices
            BY <2>2, Zenon DEF SessionAssumption, SessionInv, SessionTypeOK
        <3>3. \A g \in Gateways, d \in Devices :
                  index[<<g, d>>] = c => g = GatewayOf[c] /\ d = device[c]
            BY IndexedOnce, Zenon
        <3> QED
            BY <2>2, <3>1, <3>2, <3>3, Zenon
    <2> QED
        BY <2>1, <2>2, Zenon DEF disconnect, removeConnection
<1>3. /\ state' \in [Conns -> {"new", "up", "closing", "gone"}]
      /\ device' \in [Conns -> Devices \cup {None}]
      /\ state'[c] = "gone" /\ device'[c] = None
      /\ \A x \in Conns : x # c => state'[x] = state[x] /\ device'[x] = device[x]
    BY <1>1, Zenon DEF SessionInv, SessionTypeOK
<1>4. SessionTypeOK' /\ LoginInv' /\ ReplacedInv' /\ ReplacingInv'
    BY <1>1, <1>2, <1>3, Zenon DEF SessionInv, SessionTypeOK, LoginInv, ReplacedInv, ReplacingInv
<1>5. NewInv'
    BY <1>3, Zenon DEF SessionInv, NewInv
<1>6. ASSUME NEW g \in Gateways, NEW d \in Devices, NEW x \in Conns, index'[<<g, d>>] = x
      PROVE  GatewayOf[x] = g /\ device'[x] = d /\ state'[x] \in {"up", "closing"}
    <2>1. x # c /\ index[<<g, d>>] = x
        BY <1>2, <1>6, Zenon DEF SessionAssumption
    <2> QED
        BY <1>3, <2>1 DEF SessionInv, IndexIsSound
<1>7. ASSUME NEW x \in Conns, state'[x] = "up", device'[x] # None
      PROVE  index'[<<GatewayOf[x], device'[x]>>] = x \/ \E y \in Conns : replaced'[y] = x
    <2>1. x # c /\ state[x] = "up" /\ device[x] # None /\ device'[x] = device[x]
        BY <1>3, <1>7, Zenon
    <2>2. GatewayOf[x] \in Gateways /\ device[x] \in Devices
        BY <2>1, Zenon DEF SessionAssumption, SessionInv, SessionTypeOK
    <2>3. index[<<GatewayOf[x], device[x]>>] = x \/ \E y \in Conns : replaced[y] = x
        BY <2>1, Zenon DEF SessionInv, IndexIsSound
    <2> QED
        BY <1>1, <1>2, <2>1, <2>2, <2>3
<1> QED
    BY <1>4, <1>5, <1>6, <1>7, Zenon DEF SessionInv, IndexIsSound

\* bindUser moves the connection from one device to another, and remembers the
\* connection whose place it took.
LEMMA BindStep ==
    ASSUME SessionAssumption, SessionInv, NEW c \in Conns, bindUser(c)
    PROVE  SessionInv'
<1> DEFINE g0 == GatewayOf[c]
           d0 == login[c].device
           left == [index EXCEPT ![<<g0, device[c]>>] = IF @ = c THEN None ELSE @]
           cleared == IF device[c] = None THEN index ELSE left
           existing == cleared[<<g0, d0>>]
<1>1. /\ login[c].pc = "callback" /\ state[c] = "up" /\ UNCHANGED state
      /\ device' = [device EXCEPT ![c] = d0]
      /\ index' = [cleared EXCEPT ![<<g0, d0>>] = c]
      /\ \/ /\ existing \notin {None, c}
            /\ replaced' = [replaced EXCEPT ![c] = existing]
            /\ login' = [login EXCEPT ![c].pc = "replace"]
         \/ /\ existing \in {None, c}
            /\ login' = [login EXCEPT ![c] = NoLogin] /\ UNCHANGED replaced
    BY Zenon DEF bindUser, At, LoginGoto, EndLogin
<1>2. g0 \in Gateways /\ d0 \in Devices /\ None \notin Conns \cup Devices
    BY <1>1, Zenon DEF SessionAssumption, SessionInv, LoginInv
<1>3. /\ cleared \in [Gateways \X Devices -> Conns \cup {None}]
      /\ \A g \in Gateways, d \in Devices :
            cleared[<<g, d>>] = IF index[<<g, d>>] = c THEN None ELSE index[<<g, d>>]
    <2>1. CASE device[c] = None
        <3>1. index \in [Gateways \X Devices -> Conns \cup {None}]
            BY Zenon DEF SessionInv, SessionTypeOK
        <3>2. \A g \in Gateways, d \in Devices : index[<<g, d>>] # c
            BY <2>1 DEF SessionInv, IndexIsSound, SessionAssumption
        <3> QED
            BY <2>1, <3>1, <3>2, Zenon
    <2>2. CASE device[c] # None
        <3>1. index \in [Gateways \X Devices -> Conns \cup {None}]
            BY Zenon DEF SessionInv, SessionTypeOK
        <3>2. GatewayOf[c] \in Gateways /\ device[c] \in Devices
            BY <2>2, Zenon DEF SessionAssumption, SessionInv, SessionTypeOK
        <3>3. \A g \in Gateways, d \in Devices :
                  index[<<g, d>>] = c => g = GatewayOf[c] /\ d = device[c]
            BY IndexedOnce, Zenon
        <3> QED
            BY <2>2, <3>1, <3>2, <3>3, Zenon
    <2> QED
        BY <2>1, <2>2, Zenon
<1> HIDE DEF cleared, left
<1>4. \A g \in Gateways, d \in Devices :
          cleared[<<g, d>>] # c /\ (cleared[<<g, d>>] # None => cleared[<<g, d>>] = index[<<g, d>>])
    BY <1>2, <1>3, Zenon
<1>5. /\ index' \in [Gateways \X Devices -> Conns \cup {None}]
      /\ index'[<<g0, d0>>] = c
      /\ \A g \in Gateways, d \in Devices :
            g # g0 \/ d # d0 => index'[<<g, d>>] = cleared[<<g, d>>]
    BY <1>1, <1>2, <1>3, Zenon
<1>6. /\ device' \in [Conns -> Devices \cup {None}] /\ device'[c] = d0
      /\ \A x \in Conns : x # c => device'[x] = device[x]
    BY <1>1, <1>2, Zenon DEF SessionInv, SessionTypeOK
<1>7. existing \in Conns \cup {None} /\ existing # c
    BY <1>2, <1>3, <1>4, Zenon
<1> HIDE DEF existing
<1>8. existing # None => GatewayOf[existing] = g0 /\ existing = index[<<g0, d0>>]
    BY <1>2, <1>4, <1>7 DEF SessionInv, IndexIsSound, existing
<1>9. /\ login' \in [Conns -> [pc : LoginPlaces, device : Devices \cup {None}]]
      /\ \A x \in Conns : x # c => login'[x] = login[x] /\ replaced'[x] = replaced[x]
      /\ replaced' \in [Conns -> Conns \cup {None}]
      /\ \/ /\ existing # None /\ login'[c].pc = "replace" /\ login'[c].device = d0
            /\ replaced'[c] = existing
         \/ existing = None /\ login'[c].pc = "none" /\ replaced'[c] = replaced[c]
    <2>1. /\ login \in [Conns -> [pc : LoginPlaces, device : Devices \cup {None}]]
          /\ replaced \in [Conns -> Conns \cup {None}]
        BY Zenon DEF SessionInv, SessionTypeOK
    <2>2. CASE /\ existing # None /\ replaced' = [replaced EXCEPT ![c] = existing]
               /\ login' = [login EXCEPT ![c].pc = "replace"]
        BY <1>7, <2>1, <2>2 DEF LoginPlaces
    <2>3. CASE /\ existing = None /\ UNCHANGED replaced
               /\ login' = [login EXCEPT ![c] = NoLogin]
        BY <2>1, <2>3, Zenon DEF LoginPlaces, NoLogin
    <2> QED
        BY <1>1, <1>7, <2>2, <2>3, Zenon
<1> HIDE DEF g0, d0
<1>10. replaced[c] = None
    BY <1>1, Zenon DEF SessionInv, ReplacedInv
<1>11. SessionTypeOK'
    BY <1>1, <1>5, <1>6, <1>9, Zenon DEF SessionInv, SessionTypeOK
<1>12. LoginInv'
    BY <1>2, <1>9, Zenon DEF SessionInv, LoginInv
<1>13. ReplacedInv' /\ ReplacingInv'
    BY <1>8, <1>9, <1>10 DEF SessionInv, ReplacedInv, ReplacingInv, g0
<1>14. NewInv'
    BY <1>1, <1>6, Zenon DEF SessionInv, NewInv
<1>15. ASSUME NEW g \in Gateways, NEW d \in Devices, NEW x \in Conns, index'[<<g, d>>] = x
       PROVE  GatewayOf[x] = g /\ device'[x] = d /\ state'[x] \in {"up", "closing"}
    <2>1. CASE g = g0 /\ d = d0
        BY <1>1, <1>5, <1>6, <1>15, <2>1, Zenon DEF g0
    <2>2. CASE g # g0 \/ d # d0
        <3>1. cleared[<<g, d>>] = x
            BY <1>5, <1>15, <2>2, Zenon
        <3>2. x # c /\ index[<<g, d>>] = x
            BY <1>2, <1>4, <3>1, Zenon
        <3> QED
            BY <1>1, <1>6, <3>2 DEF SessionInv, IndexIsSound
    <2> QED
        BY <2>1, <2>2, Zenon
<1>16. ASSUME NEW x \in Conns, state'[x] = "up", device'[x] # None
       PROVE  index'[<<GatewayOf[x], device'[x]>>] = x \/ \E y \in Conns : replaced'[y] = x
    <2>1. CASE x = c
        BY <1>5, <1>6, <2>1, Zenon DEF g0
    <2>2. CASE x # c
        <3>1. state[x] = "up" /\ device[x] # None /\ device'[x] = device[x]
            BY <1>1, <1>6, <1>16, <2>2, Zenon
        <3>2. GatewayOf[x] \in Gateways /\ device[x] \in Devices
            BY <3>1, Zenon DEF SessionAssumption, SessionInv, SessionTypeOK
        <3>3. CASE \E y \in Conns : replaced[y] = x
            BY <1>2, <1>9, <1>10, <3>3, Zenon
        <3>4. CASE index[<<GatewayOf[x], device[x]>>] = x
            <4>1. cleared[<<GatewayOf[x], device[x]>>] = x
                BY <1>3, <2>2, <3>2, <3>4, Zenon
            <4>2. CASE GatewayOf[x] = g0 /\ device[x] = d0
                <5>1. existing = x
                    BY <4>1, <4>2, Zenon DEF existing
                <5> QED
                    BY <1>2, <1>9, <5>1, Zenon
            <4>3. CASE GatewayOf[x] # g0 \/ device[x] # d0
                BY <1>5, <3>1, <3>2, <4>1, <4>3
            <4> QED
                BY <4>2, <4>3, Zenon
        <3> QED
            BY <3>1, <3>3, <3>4, Zenon DEF SessionInv, IndexIsSound
    <2> QED
        BY <2>1, <2>2, Zenon
<1> QED
    BY <1>11, <1>12, <1>13, <1>14, <1>15, <1>16, Zenon DEF SessionInv, IndexIsSound

\* The replaced connection is closed: it need not be found any more.
LEMMA CloseReplacedStep ==
    ASSUME SessionAssumption, SessionInv, NEW c \in Conns, closeReplaced(c)
    PROVE  SessionInv'
<1>1. PICK r \in Conns : r = replaced[c]
    BY Zenon DEF SessionInv, SessionTypeOK, ReplacingInv, closeReplaced, At
<1>2. /\ UNCHANGED <<device, index>> /\ login[c].pc = "replace"
      /\ state' = [state EXCEPT ![r] = IF @ = "up" THEN "closing" ELSE @]
      /\ replaced' = [replaced EXCEPT ![c] = None]
      /\ login' = [login EXCEPT ![c] = NoLogin]
    BY <1>1, Zenon DEF closeReplaced, At, EndLogin
<1>3. /\ state' \in [Conns -> {"new", "up", "closing", "gone"}]
      /\ state'[r] # "up" /\ (state[r] \in {"up", "closing"} => state'[r] = "closing")
      /\ (state'[r] = "new" => state[r] = "new")
      /\ \A x \in Conns : x # r => state'[x] = state[x]
    BY <1>2, Zenon DEF SessionInv, SessionTypeOK
<1>4. /\ replaced' \in [Conns -> Conns \cup {None}] /\ replaced'[c] = None
      /\ \A x \in Conns : x # c => replaced'[x] = replaced[x]
    BY <1>2, Zenon DEF SessionInv, SessionTypeOK
<1>5. /\ login' \in [Conns -> [pc : LoginPlaces, device : Devices \cup {None}]]
      /\ login'[c].pc = "none" /\ \A x \in Conns : x # c => login'[x] = login[x]
    BY <1>2, Zenon DEF SessionInv, SessionTypeOK, NoLogin, LoginPlaces
<1>6. SessionTypeOK'
    BY <1>2, <1>3, <1>4, <1>5, Zenon DEF SessionInv, SessionTypeOK
<1>7. LoginInv' /\ ReplacedInv' /\ ReplacingInv'
    BY <1>4, <1>5, Zenon DEF SessionInv, LoginInv, ReplacedInv, ReplacingInv
<1>8. NewInv'
    BY <1>2, <1>3, Zenon DEF SessionInv, NewInv
<1>9. ASSUME NEW g \in Gateways, NEW d \in Devices, NEW x \in Conns, index[<<g, d>>] = x
      PROVE  GatewayOf[x] = g /\ device[x] = d /\ state'[x] \in {"up", "closing"}
    BY <1>3, <1>9 DEF SessionInv, IndexIsSound
<1>10. ASSUME NEW x \in Conns, state'[x] = "up", device[x] # None
       PROVE  index[<<GatewayOf[x], device[x]>>] = x \/ \E y \in Conns : replaced'[y] = x
    <2>1. x # r /\ state[x] = "up"
        BY <1>3, <1>10, Zenon
    <2>2. index[<<GatewayOf[x], device[x]>>] = x \/ \E y \in Conns : replaced[y] = x
        BY <1>10, <2>1, Zenon DEF SessionInv, IndexIsSound
    <2> QED
        BY <1>1, <1>4, <2>1, <2>2, Zenon
<1> QED
    BY <1>2, <1>6, <1>7, <1>8, <1>9, <1>10 DEF SessionInv, IndexIsSound

\* A gateway that dies takes its index, connections and logins with it; a login
\* replaces connections of its own gateway only.
LEMMA CrashStep ==
    ASSUME SessionAssumption, SessionInv, NEW g0 \in Gateways, crash(g0)
    PROVE  SessionInv'
<1> DEFINE its(c) == GatewayOf[c] = g0 /\ state[c] # "new"
<1>1. /\ state' = [c \in Conns |-> IF its(c) THEN "gone" ELSE state[c]]
      /\ device' = [c \in Conns |-> IF its(c) THEN None ELSE device[c]]
      /\ login' = [c \in Conns |-> IF its(c) THEN NoLogin ELSE login[c]]
      /\ replaced' = [c \in Conns |-> IF its(c) THEN None ELSE replaced[c]]
      /\ index' = [k \in Gateways \X Devices |-> IF k[1] = g0 THEN None ELSE index[k]]
    BY Zenon DEF crash
<1>2. \A g \in Gateways, d \in Devices :
          index'[<<g, d>>] = IF g = g0 THEN None ELSE index[<<g, d>>]
    BY <1>1, Zenon
<1>3. index' \in [Gateways \X Devices -> Conns \cup {None}]
    BY <1>1, Zenon DEF SessionInv, SessionTypeOK
<1>4. \A c \in Conns : its(c) => /\ state'[c] = "gone" /\ device'[c] = None
                                 /\ login'[c].pc = "none" /\ replaced'[c] = None
    BY <1>1, Zenon DEF NoLogin
<1>5. \A c \in Conns : ~its(c) => /\ state'[c] = state[c] /\ device'[c] = device[c]
                                  /\ login'[c] = login[c] /\ replaced'[c] = replaced[c]
    BY <1>1, Zenon
<1> HIDE DEF its
<1>6. SessionTypeOK'
    <2>1. /\ state' \in [Conns -> {"new", "up", "closing", "gone"}]
          /\ device' \in [Conns -> Devices \cup {None}]
        BY <1>1, Zenon DEF SessionInv, SessionTypeOK
    <2>2. login' \in [Conns -> [pc : LoginPlaces, device : Devices \cup {None}]]
        BY <1>1, Zenon DEF SessionInv, SessionTypeOK, NoLogin, LoginPlaces, its
    <2>3. replaced' \in [Conns -> Conns \cup {None}]
        BY <1>1, Zenon DEF SessionInv, SessionTypeOK
    <2> QED
        BY <1>3, <2>1, <2>2, <2>3, Zenon DEF SessionTypeOK
<1>7. LoginInv' /\ ReplacedInv' /\ ReplacingInv'
    <2>1. LoginInv'
        BY <1>4, <1>5, Zenon DEF SessionInv, LoginInv
    <2>2. ASSUME NEW x \in Conns, replaced'[x] # None
          PROVE  login'[x].pc = "replace" /\ GatewayOf[replaced'[x]] = GatewayOf[x]
        <3>1. login'[x] = login[x] /\ replaced'[x] = replaced[x]
            BY <1>4, <1>5, <2>2, Zenon
        <3> QED
            BY <2>2, <3>1, Zenon DEF SessionInv, ReplacedInv
    <2>3. ReplacingInv'
        BY <1>4, <1>5, Zenon DEF SessionInv, ReplacingInv
    <2> QED
        BY <2>1, <2>2, <2>3, Zenon DEF ReplacedInv
<1>8. NewInv'
    BY <1>4, <1>5 DEF SessionInv, NewInv
<1>9. ASSUME NEW g \in Gateways, NEW d \in Devices, NEW x \in Conns, index'[<<g, d>>] = x
      PROVE  GatewayOf[x] = g /\ device'[x] = d /\ state'[x] \in {"up", "closing"}
    <2>1. g # g0 /\ index[<<g, d>>] = x
        BY <1>2, <1>9, Zenon DEF SessionAssumption
    <2>2. GatewayOf[x] = g /\ device[x] = d /\ state[x] \in {"up", "closing"}
        BY <2>1 DEF SessionInv, IndexIsSound
    <2> QED
        BY <1>5, <2>1, <2>2, Zenon DEF its
<1>10. ASSUME NEW x \in Conns, state'[x] = "up", device'[x] # None
       PROVE  index'[<<GatewayOf[x], device'[x]>>] = x \/ \E y \in Conns : replaced'[y] = x
    <2>1. ~its(x) /\ state[x] = "up" /\ device[x] # None /\ device'[x] = device[x]
        BY <1>4, <1>5, <1>10, Zenon
    <2>2. GatewayOf[x] # g0 /\ GatewayOf[x] \in Gateways /\ device[x] \in Devices
        BY <2>1, Zenon DEF SessionAssumption, SessionInv, SessionTypeOK, its
    <2>3. CASE index[<<GatewayOf[x], device[x]>>] = x
        BY <1>2, <2>1, <2>2, <2>3, Zenon
    <2>4. ASSUME NEW y \in Conns, replaced[y] = x PROVE replaced'[y] = x
        <3>1. GatewayOf[y] = GatewayOf[x]
            BY <2>4, Zenon DEF SessionInv, ReplacedInv, SessionAssumption
        <3> QED
            BY <1>5, <2>2, <2>4, <3>1, Zenon DEF its
    <2> QED
        BY <2>1, <2>3, <2>4, Zenon DEF SessionInv, IndexIsSound
<1> QED
    BY <1>6, <1>7, <1>8, <1>9, <1>10, Zenon DEF SessionInv, IndexIsSound

-----------------------------------------------------------------------------
(* The theorem                                                              *)

\* Every step keeps the invariant.
LEMMA SessionStep ==
    ASSUME SessionAssumption, SessionInv, [Next]_vars
    PROVE  SessionInv'
<1>1. CASE UNCHANGED vars
    BY <1>1, KeyStep, Zenon DEF vars
<1>2. ASSUME NEW g \in Gateways, WorkerStep(g) PROVE SessionInv'
    <2>1. UNCHANGED <<gateway, login>>
        BY <1>2, Zenon DEF WorkerStep, workerLoop, offlineGet, offlineDelete, refreshOnline
    <2> QED
        BY <2>1, KeyStep, Zenon
<1>3. ASSUME NEW g \in Gateways, crash(g) PROVE SessionInv'
    BY <1>3, CrashStep, Zenon
<1>4. ASSUME NEW c \in Conns, connect(c) \/ forceClose(c) PROVE SessionInv'
    <2>1. UNCHANGED <<device, index, replaced, login>>
        BY <1>4, Zenon DEF connect, forceClose
    <2> QED
        BY <1>4, <2>1, StateStep, Zenon DEF connect, forceClose
<1>5. ASSUME NEW c \in Conns, disconnect(c) PROVE SessionInv'
    BY <1>5, DisconnectStep, Zenon
<1>6. ASSUME NEW c \in Conns, heartbeat(c) PROVE SessionInv'
    BY <1>6, KeyStep, Zenon DEF heartbeat
<1>7. ASSUME NEW c \in Conns, LoginStep(c) PROVE SessionInv'
    BY <1>7, LoginStepKeeps, BindStep, CloseReplacedStep, Zenon DEF LoginStep
<1>8. ASSUME NEW c \in Conns, NEW d \in Devices, handleLogin(c, d) PROVE SessionInv'
    BY <1>8, LoginStepKeeps, Zenon
<1>9. ASSUME NEW d \in Devices, expire(d) \/ findMissing(d) PROVE SessionInv'
    BY <1>9, KeyStep, Zenon DEF expire, findMissing
<1>10. ASSUME NEW d \in Devices, NEW place \in Cleanup, prune(d, place) PROVE SessionInv'
    BY <1>10, KeyStep, Zenon DEF prune
<1>11. ASSUME NEW d \in Devices, revokeDevice(d) PROVE SessionInv'
    <2>1. UNCHANGED <<device, index, replaced, login>>
        BY <1>11, Zenon DEF revokeDevice
    <2>2. CASE UNCHANGED state
        BY <2>1, <2>2, KeyStep, Zenon DEF gateway
    <2>3. CASE \E c \in Conns : state[c] = "up" /\ state' = [state EXCEPT ![c] = "closing"]
        BY <2>1, <2>3, StateStep, Zenon
    <2> QED
        BY <1>11, <2>2, <2>3, Zenon DEF revokeDevice
<1>12. CASE expireDevices
    BY <1>12, KeyStep, Zenon DEF expireDevices
<1> QED
    BY <1>1, <1>2, <1>3, <1>4, <1>5, <1>6, <1>7, <1>8, <1>9, <1>10, <1>11, <1>12, Zenon DEF Next

\* ConnectionManager's index and its contexts agree in every reachable state: what
\* KickUser and the next login find in the index is a connection bound to that
\* device, and every authenticated connection that is up is found, or is about to be
\* closed by the login that took its place (bindUser, removeConnection).
THEOREM EverySessionIsFound == Spec => []IndexIsSound
<1>1. Init => SessionInv
    BY SessionInitially, SessionAssumption, Zenon
<1>2. SessionInv /\ [Next]_vars => SessionInv'
    BY SessionStep, SessionAssumption, Zenon
<1>3. SessionInv => IndexIsSound
    BY Zenon DEF SessionInv
<1> QED
    BY <1>1, <1>2, <1>3, PTL DEF Spec

-----------------------------------------------------------------------------
(* Social: the statements of the relation service implement Friends         *)

Request == [from : Users, to : Users, status : {"pending", "accepted", "rejected"}]
CallPlaces == {"free", "send", "insert", "accept", "select", "status", "reject", "delete", "edge1",
               "edge2", "commit", "create", "join", "leave", "add", "owner", "remove"}
CallOps == {"none", "send", "accept", "reject", "delete", "create", "join", "leave"}

Rows == {RequestRow(i) : i \in Nat} \cup (Users \X Users)

SocialTypeOK ==
    /\ friend_requests \in Seq(Request)
    /\ answered \in Seq(Nat) /\ Len(answered) = Len(friend_requests)
    /\ members \in [Users -> Int] /\ group \in BOOLEAN /\ blindLeave \in BOOLEAN
    /\ clerk \in [Clerks -> [op : CallOps, pc : CallPlaces, u : Users, v : Users, id : Nat,
                              held : SUBSET Rows]]

\* Where each call can be, and the rows its transaction has locked there
ClerkInv(c) ==
    LET me == clerk[c]
        row == IF me.op = "accept" THEN {RequestRow(me.id)} ELSE {}
    IN  /\ me.op = "none" <=> me.pc = "free"
        /\ me.pc \in {"send", "insert"} => me.op = "send" /\ me.u # me.v
        /\ me.pc \in {"accept", "select"} => me.op = "accept"
        /\ me.pc = "status" => me.op \in {"accept", "reject"}
        /\ me.pc = "reject" => me.op = "reject"
        /\ me.pc = "delete" => me.op = "delete"
        /\ me.pc \in {"edge1", "edge2", "commit"} => me.op \in {"accept", "delete"}
        /\ me.op = "delete" => me.u # me.v
        /\ me.op \in {"accept", "reject"} =>
               /\ me.id \in 1 .. Len(friend_requests)
               /\ me.u = friend_requests[me.id].from /\ me.v = friend_requests[me.id].to
        /\ me.pc \notin {"edge1", "edge2", "commit"} => me.held = {}
        /\ me.pc = "edge1" => me.held = row
        /\ me.pc = "edge2" => me.held = row \cup {<<me.u, me.v>>}
        /\ me.pc = "commit" => me.held = row \cup {<<me.u, me.v>>, <<me.v, me.u>>}
        /\ me.pc \in {"add", "owner", "remove"} => group
        /\ me.pc = "remove" /\ ~ blindLeave => me.u # Owner

\* An accepting transaction has its request to itself
Accepting(c) == clerk[c].op = "accept" /\ clerk[c].pc \in {"edge1", "edge2", "commit"}
RequestInv ==
    \A c \in Clerks : Accepting(c) =>
        /\ friend_requests[clerk[c].id].status = "pending"
        /\ \A x \in Clerks : Accepting(x) /\ clerk[x].id = clerk[c].id => x = c

SocialInv == SocialTypeOK /\ (\A c \in Clerks : ClerkInv(c)) /\ RequestInv /\ AnsweredOnce /\ OwnerStays

\* Nobody knows anybody.
LEMMA SocialInitially == SocialInit => SocialInv /\ F!FriendsInit
<1> SUFFICES ASSUME SocialInit PROVE SocialInv /\ F!FriendsInit
    BY Zenon
<1>0. NoCall \in [op : CallOps, pc : CallPlaces, u : Users, v : Users, id : Nat, held : SUBSET Rows]
    BY SocialAssumption, Zenon DEF NoCall, CallOps, CallPlaces
<1>1. SocialTypeOK
    <2>1. clerk \in [Clerks -> [op : CallOps, pc : CallPlaces, u : Users, v : Users, id : Nat,
                                held : SUBSET Rows]]
        BY <1>0, Zenon DEF SocialInit
    <2>2. friend_requests \in Seq(Request) /\ answered \in Seq(Nat) /\ Len(answered) = Len(friend_requests)
        BY DEF SocialInit
    <2>3. members \in [Users -> Int]
        BY DEF SocialInit
    <2>4. group \in BOOLEAN /\ blindLeave \in BOOLEAN
        BY Zenon DEF SocialInit
    <2> QED
        BY <2>1, <2>2, <2>3, <2>4, Zenon DEF SocialTypeOK
<1>2. \A c \in Clerks : clerk[c] = NoCall
    BY Zenon DEF SocialInit
<1>3. \A c \in Clerks : ClerkInv(c)
    BY <1>2 DEF ClerkInv, NoCall
<1>4. RequestInv
    BY <1>2 DEF RequestInv, Accepting, NoCall
<1>5. AnsweredOnce /\ OwnerStays /\ F!FriendsInit
    BY DEF SocialInit, AnsweredOnce, OwnerStays, F!FriendsInit
<1> QED
    BY <1>1, <1>3, <1>4, <1>5, Zenon DEF SocialInv

\* The requests and the calls the invariant speaks of.
LEMMA ClerkFacts ==
    ASSUME SocialInv, NEW c \in Clerks
    PROVE  /\ SocialTypeOK /\ ClerkInv(c)
           /\ clerk[c].u \in Users /\ clerk[c].v \in Users /\ clerk[c].id \in Nat
           /\ \A i \in 1 .. Len(friend_requests) : friend_requests[i] \in Request
           /\ Len(friend_requests) \in Nat
    BY DEF SocialInv, SocialTypeOK

\* A call goes to its next place, and no other call moves.
LEMMA ClerkSteps ==
    ASSUME SocialTypeOK, NEW c \in Clerks, NEW place \in CallPlaces, step(c, place)
    PROVE  /\ clerk'[c].pc = place /\ clerk'[c].op = clerk[c].op /\ clerk'[c].u = clerk[c].u
           /\ clerk'[c].v = clerk[c].v /\ clerk'[c].id = clerk[c].id /\ clerk'[c].held = clerk[c].held
           /\ \A x \in Clerks : x # c => clerk'[x] = clerk[x]
           /\ clerk' \in [Clerks -> [op : CallOps, pc : CallPlaces, u : Users, v : Users, id : Nat,
                                     held : SUBSET Rows]]
    BY Zenon DEF SocialTypeOK, step

\* A call that is over leaves nothing behind.
LEMMA ClerkFinishes ==
    ASSUME SocialTypeOK, NEW c \in Clerks, finish(c)
    PROVE  /\ ClerkInv(c)' /\ ~ Accepting(c)'
           /\ \A x \in Clerks : x # c => clerk'[x] = clerk[x]
           /\ clerk' \in [Clerks -> [op : CallOps, pc : CallPlaces, u : Users, v : Users, id : Nat,
                                     held : SUBSET Rows]]
<1>1. clerk'[c] = NoCall /\ \A x \in Clerks : x # c => clerk'[x] = clerk[x]
    BY Zenon DEF SocialTypeOK, finish
<1>2. ClerkInv(c)' /\ ~ Accepting(c)'
    BY <1>1 DEF ClerkInv, Accepting, NoCall
<1>3. NoCall \in [op : CallOps, pc : CallPlaces, u : Users, v : Users, id : Nat, held : SUBSET Rows]
    BY SocialAssumption, Zenon DEF NoCall, CallOps, CallPlaces
<1> QED
    BY <1>1, <1>2, <1>3, Zenon DEF SocialTypeOK, finish

\* The calls that do not move keep their part of the invariant if requests keep their
\* users, nobody ends a request that another call is accepting, and the group stays.
LEMMA OneClerkStep ==
    ASSUME SocialInv, SocialTypeOK', NEW c \in Clerks,
           \A x \in Clerks : x # c => clerk'[x] = clerk[x],
           ClerkInv(c)',
           Len(friend_requests') >= Len(friend_requests),
           \A i \in 1 .. Len(friend_requests) : /\ friend_requests'[i].from = friend_requests[i].from
                                                /\ friend_requests'[i].to = friend_requests[i].to,
           \A x \in Clerks : x # c /\ Accepting(x) => friend_requests'[clerk[x].id].status = "pending",
           Accepting(c)' => /\ friend_requests'[clerk'[c].id].status = "pending"
                            /\ \A x \in Clerks : x # c /\ Accepting(x) => clerk[x].id # clerk'[c].id,
           group => group', blindLeave => blindLeave',
           AnsweredOnce', OwnerStays'
    PROVE  SocialInv'
<1>1. ASSUME NEW x \in Clerks, x # c PROVE ClerkInv(x)'
    <2>1. clerk'[x] = clerk[x] /\ ClerkInv(x)
        BY <1>1, Zenon DEF SocialInv
    <2>2. Len(friend_requests) \in Nat /\ Len(friend_requests') \in Nat
        BY DEF SocialInv, SocialTypeOK
    <2>3. clerk[x].id \in 1 .. Len(friend_requests) => clerk[x].id \in 1 .. Len(friend_requests')
        BY <2>2
    <2> QED
        BY <2>1, <2>3, SMTT(20) DEF ClerkInv
<1>2. \A x \in Clerks : x # c => (Accepting(x)' <=> Accepting(x))
    BY Zenon DEF Accepting
<1>3. RequestInv'
    BY <1>2 DEF SocialInv, RequestInv
<1> QED
    BY <1>1, <1>3, Zenon DEF SocialInv

\* Steps that touch no request and leave the owner alone.
LEMMA QuietClerkStep ==
    ASSUME SocialInv, NEW c \in Clerks,
           \A x \in Clerks : x # c => clerk'[x] = clerk[x],
           clerk' \in [Clerks -> [op : CallOps, pc : CallPlaces, u : Users, v : Users, id : Nat,
                                  held : SUBSET Rows]],
           ClerkInv(c)', UNCHANGED <<friend_requests, answered>>,
           members' \in [Users -> Int], group' \in BOOLEAN, blindLeave' \in BOOLEAN,
           group => group', blindLeave => blindLeave', OwnerStays',
           Accepting(c)' => /\ friend_requests[clerk'[c].id].status = "pending"
                            /\ \A x \in Clerks : x # c /\ Accepting(x) => clerk[x].id # clerk'[c].id
    PROVE  SocialInv'
<1>1. SocialTypeOK'
    BY Zenon DEF SocialInv, SocialTypeOK
<1>2. AnsweredOnce'
    BY Zenon DEF SocialInv, AnsweredOnce
<1>3. \A x \in Clerks : Accepting(x) => friend_requests[clerk[x].id].status = "pending"
    BY Zenon DEF SocialInv, RequestInv
<1>4. Len(friend_requests') >= Len(friend_requests)
    BY DEF SocialInv, SocialTypeOK
<1> QED
    BY <1>1, <1>2, <1>3, <1>4, OneClerkStep, Zenon

\* Of these, steps that change nothing but the call, which gains no lock on a request.
LEMMA ReadStep ==
    ASSUME SocialInv, NEW c \in Clerks,
           \A x \in Clerks : x # c => clerk'[x] = clerk[x],
           clerk' \in [Clerks -> [op : CallOps, pc : CallPlaces, u : Users, v : Users, id : Nat,
                                  held : SUBSET Rows]],
           ClerkInv(c)', UNCHANGED <<friend_requests, answered, groupVars>>,
           Accepting(c)' => Accepting(c) /\ clerk'[c].id = clerk[c].id
    PROVE  SocialInv'
<1>1. OwnerStays'
    BY Zenon DEF SocialInv, OwnerStays, groupVars
<1>2. SocialTypeOK /\ RequestInv
    BY Zenon DEF SocialInv
<1> QED
    BY <1>1, <1>2, QuietClerkStep, Zenon DEF groupVars, SocialTypeOK, RequestInv

\* A call that ends without having changed anything.
LEMMA EndOfCall ==
    ASSUME SocialInv, NEW c \in Clerks, finish(c), UNCHANGED <<friend_requests, answered, groupVars>>
    PROVE  SocialInv'
<1>1. SocialTypeOK
    BY Zenon DEF SocialInv
<1> QED
    BY <1>1, ClerkFinishes, ReadStep, Zenon

\* Starting a call.
LEMMA StartStep ==
    ASSUME SocialInv, NEW c \in Clerks, NEW op \in CallOps \ {"none"}, NEW u \in Users, NEW v \in Users,
           NEW id \in Nat, op \in {"send", "delete"} => u # v,
           op \in {"accept", "reject"} => /\ id \in 1 .. Len(friend_requests)
                                          /\ u = friend_requests[id].from /\ v = friend_requests[id].to,
           startCall(c, op, u, v, id)
    PROVE  SocialInv'
<1> DEFINE call == [op |-> op, pc |-> op, u |-> u, v |-> v, id |-> id, held |-> {}]
<1>1. clerk'[c] = call /\ \A x \in Clerks : x # c => clerk'[x] = clerk[x]
    BY Zenon DEF SocialInv, SocialTypeOK, startCall
<1>2. call \in [op : CallOps, pc : CallPlaces, u : Users, v : Users, id : Nat, held : SUBSET Rows]
    BY Zenon DEF CallOps, CallPlaces
<1>3. clerk' \in [Clerks -> [op : CallOps, pc : CallPlaces, u : Users, v : Users, id : Nat,
                             held : SUBSET Rows]]
    BY <1>2, Zenon DEF SocialInv, SocialTypeOK, startCall
<1>4. UNCHANGED <<friend_requests, answered, groupVars>>
    BY Zenon DEF startCall
<1>5. ClerkInv(c)' /\ ~ Accepting(c)'
    BY <1>1, <1>4 DEF ClerkInv, Accepting, CallOps
<1> QED
    BY <1>1, <1>3, <1>4, <1>5, ReadStep, Zenon

\* SendFriendRequest looks whether the two are friends; nothing is locked.
LEMMA CheckFriendStep ==
    ASSUME SocialInv, NEW c \in Clerks, checkFriend(c)
    PROVE  SocialInv'
<1>1. UNCHANGED <<friend_requests, answered, groupVars>> /\ clerk[c].pc = "send"
    BY Zenon DEF checkFriend
<1>2. SocialTypeOK /\ ClerkInv(c)
    BY Zenon DEF SocialInv
<1>3. CASE finish(c)
    BY <1>1, <1>3, EndOfCall, Zenon
<1>4. CASE step(c, "insert")
    <2>1. "insert" \in CallPlaces
        BY Zenon DEF CallPlaces
    <2>2. ClerkInv(c)' /\ ~ Accepting(c)'
        BY <1>1, <1>2, <1>4, <2>1, ClerkSteps, Zenon DEF ClerkInv, Accepting
    <2> QED
        BY <1>1, <1>2, <1>4, <2>1, <2>2, ClerkSteps, ReadStep, Zenon
<1> QED
    BY <1>3, <1>4, Zenon DEF checkFriend

\* A new row of friend_requests keeps the ones before it.
LEMMA CreateRequestStep ==
    ASSUME SocialInv, NEW c \in Clerks, createRequest(c)
    PROVE  SocialInv' /\ [F!FriendsNext]_<<friendships, friend_requests>>
<1> DEFINE u == clerk[c].u
           v == clerk[c].v
           item == [from |-> u, to |-> v, status |-> "pending"]
<1>1. SocialTypeOK /\ ClerkInv(c) /\ u \in Users /\ v \in Users /\ u # v
    BY Zenon DEF SocialInv, SocialTypeOK, ClerkInv, createRequest
<1>2. finish(c) /\ UNCHANGED <<friendships, groupVars>>
    BY Zenon DEF createRequest
<1>3. CASE UNCHANGED <<friend_requests, answered>>
    BY <1>2, <1>3, EndOfCall, Zenon
<1>4. CASE PendingBetween(u, v) = {} /\ friend_requests' = Append(friend_requests, item)
           /\ answered' = Append(answered, 0)
    <2>1. item \in Request
        BY <1>1, Zenon DEF Request
    <2>2. /\ friend_requests \in Seq(Request) /\ Len(friend_requests) \in Nat
          /\ answered \in Seq(Nat) /\ Len(answered) = Len(friend_requests)
        BY <1>1 DEF SocialTypeOK
    <2>3. /\ friend_requests' \in Seq(Request) /\ Len(friend_requests') = Len(friend_requests) + 1
          /\ \A i \in 1 .. Len(friend_requests) : friend_requests'[i] = friend_requests[i]
        BY <1>4, <2>1, <2>2
    <2>4. /\ answered' \in Seq(Nat) /\ Len(answered') = Len(answered) + 1
          /\ \A i \in 1 .. Len(answered) : answered'[i] = answered[i]
          /\ answered'[Len(answered) + 1] = 0
        BY <1>4, <2>2
    <2>5. SocialTypeOK'
        BY <1>1, <1>2, <2>2, <2>3, <2>4, ClerkFinishes, Zenon DEF SocialTypeOK, groupVars
    <2>6. AnsweredOnce'
        <3> SUFFICES ASSUME NEW i \in 1 .. Len(answered')
                     PROVE  answered'[i] <= 1 /\ (answered'[i] = 1 => friend_requests'[i].status # "pending")
            BY Zenon DEF AnsweredOnce
        <3>1. CASE i \in 1 .. Len(answered)
            <4>1. answered'[i] = answered[i] /\ friend_requests'[i] = friend_requests[i]
                BY <2>2, <2>3, <2>4, <3>1, Zenon
            <4> QED
                BY <3>1, <4>1, Zenon DEF SocialInv, AnsweredOnce
        <3>2. CASE i = Len(answered) + 1
            BY <2>4, <3>2
        <3> QED
            BY <2>2, <2>4, <3>1, <3>2
    <2>7. OwnerStays' /\ (group => group') /\ (blindLeave => blindLeave')
        BY <1>2, Zenon DEF SocialInv, OwnerStays, groupVars
    <2>8. \A x \in Clerks : Accepting(x) => friend_requests'[clerk[x].id].status = "pending"
        BY <2>3, Zenon DEF SocialInv, RequestInv, ClerkInv, Accepting
    <2>9. SocialInv'
        <3>1. ClerkInv(c)' /\ ~ Accepting(c)' /\ \A x \in Clerks : x # c => clerk'[x] = clerk[x]
            BY <1>1, <1>2, ClerkFinishes, Zenon
        <3>2. Len(friend_requests') >= Len(friend_requests)
            BY <2>2, <2>3
        <3>3. \A i \in 1 .. Len(friend_requests) : /\ friend_requests'[i].from = friend_requests[i].from
                                                   /\ friend_requests'[i].to = friend_requests[i].to
            BY <2>3, Zenon
        <3> QED
            BY <2>5, <2>6, <2>7, <2>8, <3>1, <3>2, <3>3, OneClerkStep, Zenon
    <2>10. \A i \in 1 .. Len(friend_requests) : friend_requests[i].status = "pending" =>
               {friend_requests[i].from, friend_requests[i].to} # {u, v}
        BY <1>4, Zenon DEF PendingBetween, Between
    <2>11. F!Ask(u, v)
        BY <1>2, <1>4, <2>10, Zenon DEF F!Ask
    <2> QED
        BY <1>1, <2>9, <2>11, Zenon DEF F!FriendsNext
<1> QED
    BY <1>2, <1>3, <1>4, Zenon DEF createRequest

\* Accept and reject look at the request, once more inside the transaction, before they change it.
LEMMA GetByRequestIdStep ==
    ASSUME SocialInv, NEW c \in Clerks, getByRequestId(c)
    PROVE  SocialInv'
<1>1. UNCHANGED <<friend_requests, answered, groupVars>> /\ clerk[c].pc \in {"accept", "select", "reject"}
    BY Zenon DEF getByRequestId
<1>2. SocialTypeOK /\ ClerkInv(c)
    BY Zenon DEF SocialInv
<1>3. CASE finish(c)
    BY <1>1, <1>3, EndOfCall, Zenon
<1>4. ASSUME NEW place \in {"select", "status"}, step(c, place), place = "select" => clerk[c].pc = "accept"
      PROVE  SocialInv'
    <2>1. place \in CallPlaces
        BY Zenon DEF CallPlaces
    <2>2. ClerkInv(c)' /\ ~ Accepting(c)'
        BY <1>1, <1>2, <1>4, <2>1, ClerkSteps, Zenon DEF ClerkInv, Accepting
    <2> QED
        BY <1>1, <1>2, <1>4, <2>1, <2>2, ClerkSteps, ReadStep, Zenon
<1>5. finish(c) \/ (step(c, "select") /\ clerk[c].pc = "accept") \/ step(c, "status")
    BY Zenon DEF getByRequestId
<1> QED
    BY <1>3, <1>4, <1>5, Zenon

\* Ending a pending request that nobody else is accepting: its status is final, and at
\* most this caller is told so.
LEMMA AnswerStep ==
    ASSUME SocialInv, NEW c \in Clerks, finish(c), NEW id \in 1 .. Len(friend_requests),
           friend_requests[id].status = "pending",
           \A x \in Clerks : x # c /\ Accepting(x) => clerk[x].id # id,
           NEW status \in {"accepted", "rejected"},
           friend_requests' = [friend_requests EXCEPT ![id].status = status],
           AnswerOk(id) \/ UNCHANGED answered, UNCHANGED groupVars
    PROVE  SocialInv'
<1>1. SocialTypeOK /\ friend_requests \in Seq(Request) /\ Len(friend_requests) \in Nat
      /\ answered \in Seq(Nat) /\ Len(answered) = Len(friend_requests)
    BY DEF SocialInv, SocialTypeOK
<1>2. \A i \in 1 .. Len(friend_requests) : friend_requests[i] \in Request
    BY <1>1
<1>3. [friend_requests[id] EXCEPT !.status = status] \in Request
    BY <1>2, Zenon DEF Request
<1>4. /\ friend_requests' \in Seq(Request) /\ Len(friend_requests') = Len(friend_requests)
      /\ \A i \in 1 .. Len(friend_requests) : i # id => friend_requests'[i] = friend_requests[i]
      /\ friend_requests'[id] = [friend_requests[id] EXCEPT !.status = status]
    BY <1>1, <1>3
<1>5. friend_requests'[id].status = status /\ friend_requests'[id].from = friend_requests[id].from
      /\ friend_requests'[id].to = friend_requests[id].to
    BY <1>2, <1>4 DEF Request
<1>6. /\ answered' \in Seq(Nat) /\ Len(answered') = Len(answered)
      /\ \A i \in 1 .. Len(answered) : i # id => answered'[i] = answered[i]
      /\ answered'[id] \in {answered[id], answered[id] + 1}
    BY <1>1 DEF AnswerOk
<1>7. SocialTypeOK'
    BY <1>1, <1>4, <1>6, ClerkFinishes, Zenon DEF SocialTypeOK, groupVars
<1>8. answered[id] = 0
    BY <1>1 DEF SocialInv, AnsweredOnce
<1>9. AnsweredOnce'
    <2> SUFFICES ASSUME NEW i \in 1 .. Len(answered)
                 PROVE  answered'[i] <= 1 /\ (answered'[i] = 1 => friend_requests'[i].status # "pending")
        BY <1>6, Zenon DEF AnsweredOnce
    <2>1. CASE i = id
        BY <1>5, <1>6, <1>8, <2>1
    <2>2. CASE i # id
        <3>1. answered'[i] = answered[i] /\ friend_requests'[i] = friend_requests[i]
            BY <1>1, <1>4, <1>6, <2>2, Zenon
        <3> QED
            BY <3>1, Zenon DEF SocialInv, AnsweredOnce
    <2> QED
        BY <2>1, <2>2, Zenon
<1>10. OwnerStays' /\ (group => group') /\ (blindLeave => blindLeave')
    BY Zenon DEF SocialInv, OwnerStays, groupVars
<1>11. \A x \in Clerks : x # c /\ Accepting(x) => friend_requests'[clerk[x].id].status = "pending"
    <2> SUFFICES ASSUME NEW x \in Clerks, x # c, Accepting(x)
                 PROVE  friend_requests'[clerk[x].id].status = "pending"
        BY Zenon
    <2>1. clerk[x].id \in 1 .. Len(friend_requests) /\ clerk[x].id # id
        BY Zenon DEF SocialInv, ClerkInv, Accepting
    <2> QED
        BY <1>4, <2>1, Zenon DEF SocialInv, RequestInv
<1>12. ClerkInv(c)' /\ ~ Accepting(c)' /\ \A x \in Clerks : x # c => clerk'[x] = clerk[x]
    BY <1>1, ClerkFinishes, Zenon
<1>13. \A i \in 1 .. Len(friend_requests) : /\ friend_requests'[i].from = friend_requests[i].from
                                            /\ friend_requests'[i].to = friend_requests[i].to
    BY <1>4, <1>5, Zenon
<1>14. Len(friend_requests') >= Len(friend_requests)
    BY <1>1, <1>4
<1> QED
    BY <1>7, <1>9, <1>10, <1>11, <1>12, <1>13, <1>14, OneClerkStep, Zenon

\* A row lock on a request keeps out every other call that accepts it.
LEMMA RowLocks ==
    ASSUME SocialInv, NEW c \in Clerks, NEW id, RequestRow(id) \notin LockedFor(c)
    PROVE  \A x \in Clerks : x # c /\ Accepting(x) => clerk[x].id # id
<1> SUFFICES ASSUME NEW x \in Clerks, x # c, Accepting(x), clerk[x].id = id PROVE FALSE
    BY Zenon
<1>1. RequestRow(id) \in clerk[x].held
    BY Zenon DEF SocialInv, ClerkInv, Accepting
<1> QED
    BY <1>1, Zenon DEF LockedFor

\* The conditional UPDATE answers a pending request, and locks its row until the commit of an accept.
LEMMA UpdateStatusStep ==
    ASSUME SocialInv, NEW c \in Clerks, updateStatus(c)
    PROVE  SocialInv' /\ [F!FriendsNext]_<<friendships, friend_requests>>
<1> DEFINE id == clerk[c].id
<1>1. SocialTypeOK /\ ClerkInv(c) /\ id \in 1 .. Len(friend_requests) /\ clerk[c].pc = "status"
    BY Zenon DEF SocialInv, ClerkInv, updateStatus
<1>2. \A x \in Clerks : x # c /\ Accepting(x) => clerk[x].id # id
    BY RowLocks, Zenon DEF updateStatus
<1>3. UNCHANGED <<friendships, groupVars>>
    BY Zenon DEF updateStatus
<1>4. CASE finish(c) /\ UNCHANGED <<friend_requests, answered>>
    BY <1>3, <1>4, EndOfCall, Zenon
<1>5. CASE /\ finish(c) /\ friend_requests[id].status = "pending"
           /\ friend_requests' = [friend_requests EXCEPT ![id].status = "rejected"]
           /\ AnswerOk(id) \/ UNCHANGED answered
    <2>1. SocialInv'
        BY <1>1, <1>2, <1>3, <1>5, AnswerStep, Zenon
    <2>2. F!RejectRequest(id)
        BY <1>3, <1>5, Zenon DEF F!RejectRequest
    <2> QED
        BY <1>1, <2>1, <2>2, Zenon DEF F!FriendsNext
<1>6. CASE /\ friend_requests[id].status = "pending" /\ clerk[c].op = "accept"
           /\ clerk' = [clerk EXCEPT ![c].pc = "edge1", ![c].held = {RequestRow(id)}]
           /\ UNCHANGED <<friend_requests, answered>>
    <2>1. /\ clerk'[c].pc = "edge1" /\ clerk'[c].op = clerk[c].op /\ clerk'[c].u = clerk[c].u
          /\ clerk'[c].v = clerk[c].v /\ clerk'[c].id = clerk[c].id /\ clerk'[c].held = {RequestRow(id)}
          /\ \A x \in Clerks : x # c => clerk'[x] = clerk[x]
        BY <1>1, <1>6 DEF SocialTypeOK
    <2>2. {RequestRow(id)} \in SUBSET Rows /\ "edge1" \in CallPlaces
        BY <1>1 DEF Rows, CallPlaces
    <2>3. clerk' \in [Clerks -> [op : CallOps, pc : CallPlaces, u : Users, v : Users, id : Nat,
                                 held : SUBSET Rows]]
        BY <1>1, <1>6, <2>2, ZenonT(40) DEF SocialTypeOK
    <2>4. ClerkInv(c)'
        BY <1>1, <1>3, <1>6, <2>1, Zenon DEF ClerkInv, groupVars
    <2>5. OwnerStays' /\ members' \in [Users -> Int] /\ group' \in BOOLEAN /\ blindLeave' \in BOOLEAN
          /\ (group => group') /\ (blindLeave => blindLeave')
        BY <1>1, <1>3, Zenon DEF SocialInv, OwnerStays, groupVars, SocialTypeOK
    <2> QED
        BY <1>2, <1>3, <1>6, <2>1, <2>3, <2>4, <2>5, QuietClerkStep
<1> QED
    BY <1>4, <1>5, <1>6, Zenon DEF updateStatus

\* DeleteFriend looks whether there is a friendship to delete.
LEMMA CheckDeleteStep ==
    ASSUME SocialInv, NEW c \in Clerks, checkDelete(c)
    PROVE  SocialInv'
<1>1. UNCHANGED <<friend_requests, answered, groupVars>> /\ clerk[c].pc = "delete"
    BY Zenon DEF checkDelete
<1>2. SocialTypeOK /\ ClerkInv(c)
    BY Zenon DEF SocialInv
<1>3. CASE finish(c)
    BY <1>1, <1>3, EndOfCall, Zenon
<1>4. CASE step(c, "edge1")
    <2>1. "edge1" \in CallPlaces
        BY Zenon DEF CallPlaces
    <2>2. ClerkInv(c)' /\ ~ Accepting(c)'
        BY <1>1, <1>2, <1>4, <2>1, ClerkSteps, Zenon DEF ClerkInv, Accepting
    <2> QED
        BY <1>1, <1>2, <1>4, <2>1, <2>2, ClerkSteps, ReadStep, Zenon
<1> QED
    BY <1>3, <1>4, Zenon DEF checkDelete

\* The two rows of a friendship are locked one after the other.
LEMMA WriteEdgeStep ==
    ASSUME SocialInv, NEW c \in Clerks, writeEdge(c)
    PROVE  SocialInv'
<1> DEFINE next == IF clerk[c].pc = "edge1" THEN "edge2" ELSE "commit"
           rows == clerk[c].held \cup {NextEdge(c)}
<1>1. UNCHANGED <<friend_requests, answered, groupVars>> /\ clerk[c].pc \in {"edge1", "edge2"}
    BY Zenon DEF writeEdge
<1>2. SocialTypeOK /\ ClerkInv(c) /\ clerk[c].u \in Users /\ clerk[c].v \in Users
    BY Zenon DEF SocialInv, SocialTypeOK
<1>3. CASE finish(c)
    BY <1>1, <1>3, EndOfCall, Zenon
<1>4. CASE clerk' = [clerk EXCEPT ![c].pc = IF @ = "edge1" THEN "edge2" ELSE "commit",
                                  ![c].held = @ \cup {NextEdge(c)}]
    <2>0. next \in {"edge2", "commit"} /\ next \in CallPlaces
        BY Zenon DEF CallPlaces
    <2>1. /\ clerk'[c].pc = next /\ clerk'[c].op = clerk[c].op /\ clerk'[c].u = clerk[c].u
          /\ clerk'[c].v = clerk[c].v /\ clerk'[c].id = clerk[c].id /\ clerk'[c].held = rows
          /\ \A x \in Clerks : x # c => clerk'[x] = clerk[x]
        BY <1>2, <1>4 DEF SocialTypeOK
    <2>2. rows \in SUBSET Rows
        BY <1>2 DEF Rows, NextEdge, SocialTypeOK
    <2>3. clerk' \in [Clerks -> [op : CallOps, pc : CallPlaces, u : Users, v : Users, id : Nat,
                                 held : SUBSET Rows]]
        BY <1>2, <1>4, <2>0, <2>2, ZenonT(40) DEF SocialTypeOK
    <2>4. ClerkInv(c)'
        <3>1. CASE clerk[c].pc = "edge1"
            BY <1>1, <1>2, <2>1, <3>1, Zenon DEF ClerkInv, groupVars, NextEdge
        <3>2. CASE clerk[c].pc = "edge2"
            <4>1. rows = (IF clerk[c].op = "accept" THEN {RequestRow(clerk[c].id)} ELSE {})
                         \cup {<<clerk[c].u, clerk[c].v>>, <<clerk[c].v, clerk[c].u>>}
                BY <1>2, <3>2, Zenon DEF ClerkInv, NextEdge
            <4> QED
                BY <1>1, <1>2, <2>1, <3>2, <4>1, Zenon DEF ClerkInv, groupVars
        <3> QED
            BY <1>1, <3>1, <3>2, Zenon
    <2>5. Accepting(c)' => Accepting(c) /\ clerk'[c].id = clerk[c].id
        BY <1>1, <2>1, Zenon DEF Accepting
    <2> QED
        BY <1>1, <2>1, <2>3, <2>4, <2>5, ReadStep, Zenon
<1> QED
    BY <1>3, <1>4, Zenon DEF writeEdge

\* The victim of a deadlock is rolled back: its locks and writes are gone.
LEMMA DeadlockVictimStep ==
    ASSUME SocialInv, NEW c \in Clerks, deadlockVictim(c)
    PROVE  SocialInv'
    BY EndOfCall, Zenon DEF deadlockVictim

\* A commit makes the rows of one call visible together: a friendship and the request it
\* answers, or both rows of a friendship that ends.
LEMMA CommitTxStep ==
    ASSUME SocialInv, NEW c \in Clerks, commitTx(c)
    PROVE  SocialInv' /\ [F!FriendsNext]_<<friendships, friend_requests>>
<1> DEFINE id == clerk[c].id
           edges == clerk[c].held \ {RequestRow(id)}
<1>1. SocialTypeOK /\ ClerkInv(c) /\ clerk[c].u \in Users /\ clerk[c].v \in Users
    BY Zenon DEF SocialInv, SocialTypeOK
<1>2. clerk[c].pc = "commit" /\ clerk[c].op \in {"accept", "delete"} /\ finish(c) /\ UNCHANGED groupVars
    BY <1>1, Zenon DEF ClerkInv, commitTx
<1>3. edges = F!Both(clerk[c].u, clerk[c].v)
    <2>1. RequestRow(id) # <<clerk[c].u, clerk[c].v>> /\ RequestRow(id) # <<clerk[c].v, clerk[c].u>>
        BY Zenon DEF RequestRow
    <2> QED
        BY <1>1, <1>2, <2>1, Zenon DEF ClerkInv, F!Both
<1>4. CASE UNCHANGED <<friendships, friend_requests, answered>>
    BY <1>2, <1>4, EndOfCall, Zenon
<1>5. CASE /\ clerk[c].op = "accept" /\ friendships' = friendships \cup edges
           /\ friend_requests' = [friend_requests EXCEPT ![id].status = "accepted"]
           /\ AnswerOk(id) \/ UNCHANGED answered
    <2>1. /\ id \in 1 .. Len(friend_requests) /\ friend_requests[id].status = "pending"
          /\ \A x \in Clerks : x # c /\ Accepting(x) => clerk[x].id # id
          /\ clerk[c].u = friend_requests[id].from /\ clerk[c].v = friend_requests[id].to
        BY <1>1, <1>2, <1>5, Zenon DEF SocialInv, RequestInv, Accepting, ClerkInv
    <2>2. SocialInv'
        BY <1>2, <1>5, <2>1, AnswerStep, Zenon
    <2>3. F!AcceptRequest(id)
        BY <1>3, <1>5, <2>1, Zenon DEF F!AcceptRequest
    <2> QED
        BY <2>1, <2>2, <2>3, Zenon DEF F!FriendsNext
<1>6. CASE /\ clerk[c].op = "delete" /\ friendships' = friendships \ edges
           /\ UNCHANGED <<friend_requests, answered>>
    <2>1. SocialInv'
        BY <1>2, <1>6, EndOfCall, Zenon
    <2>2. F!Unfriend(clerk[c].u, clerk[c].v)
        BY <1>3, <1>6, Zenon DEF F!Unfriend
    <2>3. clerk[c].u # clerk[c].v
        BY <1>1, <1>6, Zenon DEF ClerkInv
    <2> QED
        BY <1>1, <2>1, <2>2, <2>3, Zenon DEF F!FriendsNext
<1> QED
    BY <1>2, <1>4, <1>5, <1>6, Zenon DEF commitTx

\* A step on the group whose call ends.
LEMMA GroupStep ==
    ASSUME SocialInv, NEW c \in Clerks, finish(c), UNCHANGED <<friend_requests, answered>>,
           members' \in [Users -> Int], group' \in BOOLEAN, group => group', UNCHANGED blindLeave,
           group' /\ ~ blindLeave => members'[Owner] = 1
    PROVE  SocialInv'
<1>1. SocialTypeOK /\ blindLeave' \in BOOLEAN
    BY Zenon DEF SocialInv, SocialTypeOK
<1>2. OwnerStays'
    BY Zenon DEF OwnerStays
<1> QED
    BY <1>1, <1>2, ClerkFinishes, QuietClerkStep, Zenon

\* CreateGroup inserts the group and its owner.
LEMMA CreateGroupStep ==
    ASSUME SocialInv, NEW c \in Clerks, createGroup(c)
    PROVE  SocialInv'
<1>1. SocialTypeOK /\ OwnerStays
    BY Zenon DEF SocialInv
<1>2. CASE group' = TRUE /\ members' = [members EXCEPT ![Owner] = 1]
    <2>1. members' \in [Users -> Int] /\ members'[Owner] = 1
        BY <1>1, <1>2, SocialAssumption DEF SocialTypeOK
    <2> QED
        BY <1>2, <2>1, GroupStep, Zenon DEF createGroup
<1>3. CASE UNCHANGED <<group, members>>
    BY <1>1, <1>3, EndOfCall, Zenon DEF createGroup, groupVars
<1> QED
    BY <1>2, <1>3, Zenon DEF createGroup

\* JoinGroup inserts a member and leaves a row that is there, the owner's included.
LEMMA AddMemberStep ==
    ASSUME SocialInv, NEW c \in Clerks, addMember(c)
    PROVE  SocialInv'
<1>1. SocialTypeOK /\ OwnerStays /\ clerk[c].u \in Users /\ group
    BY Zenon DEF SocialInv, SocialTypeOK, ClerkInv, addMember
<1>2. members' \in [Users -> Int] /\ (members[Owner] = 1 => members'[Owner] = 1)
    BY <1>1, SocialAssumption DEF addMember, SocialTypeOK
<1> QED
    BY <1>1, <1>2, GroupStep, Zenon DEF addMember, OwnerStays

\* LeaveGroup deletes a member whose role it looked up before.
LEMMA RemoveMemberStep ==
    ASSUME SocialInv, NEW c \in Clerks, removeMember(c)
    PROVE  SocialInv'
<1>1. SocialTypeOK /\ OwnerStays /\ clerk[c].u \in Users /\ group /\ (~ blindLeave => clerk[c].u # Owner)
    BY Zenon DEF SocialInv, SocialTypeOK, ClerkInv, removeMember
<1>2. members' \in [Users -> Int] /\ (~ blindLeave => members'[Owner] = members[Owner])
    BY <1>1, SocialAssumption DEF removeMember, SocialTypeOK
<1> QED
    BY <1>1, <1>2, GroupStep, Zenon DEF removeMember, OwnerStays

\* JoinGroup looks whether the group exists and the user is a member.
LEMMA CheckMemberStep ==
    ASSUME SocialInv, NEW c \in Clerks, checkMember(c)
    PROVE  SocialInv'
<1>1. UNCHANGED <<friend_requests, answered, groupVars>> /\ clerk[c].pc \in {"join", "leave"}
    BY Zenon DEF checkMember
<1>2. SocialTypeOK /\ ClerkInv(c)
    BY Zenon DEF SocialInv
<1>3. CASE finish(c)
    BY <1>1, <1>3, EndOfCall, Zenon
<1>4. ASSUME NEW place \in {"add", "owner"}, group, step(c, place) PROVE SocialInv'
    <2>1. place \in CallPlaces
        BY Zenon DEF CallPlaces
    <2>2. ClerkInv(c)' /\ ~ Accepting(c)'
        BY <1>1, <1>2, <1>4, <2>1, ClerkSteps, Zenon DEF ClerkInv, Accepting, groupVars
    <2> QED
        BY <1>1, <1>2, <1>4, <2>1, <2>2, ClerkSteps, ReadStep, Zenon
<1>5. finish(c) \/ (group /\ (step(c, "add") \/ step(c, "owner")))
    BY Zenon DEF checkMember
<1> QED
    BY <1>3, <1>4, <1>5, Zenon

\* LeaveGroup refuses the owner, unless the lookup of the role failed.
LEMMA CheckOwnerStep ==
    ASSUME SocialInv, NEW c \in Clerks, checkOwner(c)
    PROVE  SocialInv'
<1>1. UNCHANGED <<friend_requests, answered, members, group>> /\ clerk[c].pc = "owner"
    BY Zenon DEF checkOwner
<1>2. SocialTypeOK /\ ClerkInv(c) /\ OwnerStays /\ group
    BY <1>1, Zenon DEF SocialInv, ClerkInv
<1>3. CASE finish(c) /\ UNCHANGED blindLeave
    BY <1>1, <1>3, EndOfCall, Zenon DEF groupVars
<1>4. CASE step(c, "remove") /\ blindLeave' \in BOOLEAN /\ (blindLeave => blindLeave')
           /\ (~ blindLeave' => members[clerk[c].u] # 1)
    <2>1. "remove" \in CallPlaces
        BY Zenon DEF CallPlaces
    <2>2. ~ blindLeave' => clerk[c].u # Owner
        BY <1>2, <1>4, Zenon DEF OwnerStays
    <2>3. ClerkInv(c)' /\ ~ Accepting(c)'
        BY <1>1, <1>2, <1>4, <2>1, <2>2, ClerkSteps, Zenon DEF ClerkInv, Accepting
    <2>4. OwnerStays' /\ members' \in [Users -> Int] /\ group' \in BOOLEAN
        BY <1>1, <1>2, <1>4, Zenon DEF OwnerStays, SocialTypeOK
    <2>5. \A x \in Clerks : x # c => clerk'[x] = clerk[x]
        BY <1>2, <1>4, <2>1, ClerkSteps, Zenon
    <2>6. clerk' \in [Clerks -> [op : CallOps, pc : CallPlaces, u : Users, v : Users, id : Nat,
                                 held : SUBSET Rows]]
        BY <1>2, <1>4, <2>1, ClerkSteps, Zenon
    <2> QED
        BY <1>1, <1>4, <2>3, <2>4, <2>5, <2>6, QuietClerkStep, Zenon
<1>5. blindLeave \in BOOLEAN
    BY <1>2, Zenon DEF SocialTypeOK
<1>6. CASE members[clerk[c].u] # 1 /\ step(c, "remove") /\ UNCHANGED blindLeave
    BY <1>4, <1>5, <1>6, Zenon
<1>7. CASE step(c, "remove") /\ blindLeave' = TRUE
    BY <1>4, <1>7, Zenon
<1> QED
    BY <1>3, <1>6, <1>7, Zenon DEF checkOwner

\* Every step of the service keeps the invariant, and is a step of Friends or none.
LEMMA SocialStep ==
    ASSUME SocialInv, [SocialNext]_socialVars
    PROVE  SocialInv' /\ [F!FriendsNext]_<<friendships, friend_requests>>
<1>1. CASE UNCHANGED socialVars
    <2>1. SocialTypeOK' /\ AnsweredOnce' /\ OwnerStays'
        BY <1>1, Zenon DEF socialVars, SocialInv, SocialTypeOK, AnsweredOnce, OwnerStays
    <2>2. \A c \in Clerks : ClerkInv(c)' /\ (Accepting(c)' <=> Accepting(c))
        <3>1. /\ clerk' = clerk /\ friend_requests' = friend_requests
              /\ group' = group /\ blindLeave' = blindLeave
            BY <1>1 DEF socialVars, groupVars
        <3>2. ASSUME NEW c \in Clerks PROVE ClerkInv(c)' <=> ClerkInv(c)
            BY <3>1, ZenonT(40) DEF ClerkInv
        <3> QED
            BY <3>1, <3>2, Zenon DEF SocialInv, Accepting
    <2>3. RequestInv'
        BY <1>1, <2>2, Zenon DEF socialVars, SocialInv, RequestInv
    <2> QED
        BY <1>1, <2>1, <2>2, <2>3, Zenon DEF SocialInv, socialVars
<1>2. ASSUME NEW c \in Clerks, NEW u \in Users, NEW v \in Users, u # v,
             SendFriendRequest(c, u, v) \/ DeleteFriend(c, u, v)
      PROVE  SocialInv' /\ UNCHANGED <<friendships, friend_requests>>
    BY <1>2, StartStep DEF SendFriendRequest, DeleteFriend, startCall, CallOps
<1>3. ASSUME NEW c \in Clerks, NEW i \in 1 .. Len(friend_requests),
             AcceptFriendRequest(c, i) \/ RejectFriendRequest(c, i)
      PROVE  SocialInv' /\ UNCHANGED <<friendships, friend_requests>>
    <2>1. i \in Nat /\ friend_requests[i].from \in Users /\ friend_requests[i].to \in Users
        BY <1>3, ClerkFacts DEF Request
    <2> QED
        BY <1>3, <2>1, StartStep DEF AcceptFriendRequest, RejectFriendRequest, startCall, CallOps
<1>4. ASSUME NEW c \in Clerks, CreateGroup(c) \/ \E u \in Users : JoinGroup(c, u) \/ LeaveGroup(c, u)
      PROVE  SocialInv' /\ UNCHANGED <<friendships, friend_requests>>
    BY <1>4, SocialAssumption, StartStep DEF CreateGroup, JoinGroup, LeaveGroup, startCall, CallOps
<1>5. ASSUME NEW c \in Clerks, checkFriend(c) \/ getByRequestId(c) \/ checkDelete(c) \/ writeEdge(c)
             \/ deadlockVictim(c)
      PROVE  SocialInv' /\ UNCHANGED <<friendships, friend_requests>>
    <2>1. UNCHANGED <<friendships, friend_requests>>
        BY <1>5, Zenon DEF checkFriend, getByRequestId, checkDelete, writeEdge, deadlockVictim
    <2> QED
        BY Zenon, <1>5, <2>1, CheckFriendStep, GetByRequestIdStep, CheckDeleteStep, WriteEdgeStep,
           DeadlockVictimStep
<1>6. ASSUME NEW c \in Clerks, createGroup(c) \/ checkMember(c) \/ addMember(c) \/ checkOwner(c)
             \/ removeMember(c)
      PROVE  SocialInv' /\ UNCHANGED <<friendships, friend_requests>>
    <2>1. UNCHANGED <<friendships, friend_requests>>
        BY <1>6, Zenon DEF createGroup, checkMember, addMember, checkOwner, removeMember
    <2> QED
        BY <1>6, <2>1, CreateGroupStep, CheckMemberStep, AddMemberStep, CheckOwnerStep, RemoveMemberStep, Zenon
<1> QED
    BY <1>1, <1>2, <1>3, <1>4, <1>5, <1>6, CreateRequestStep, UpdateStatusStep, CommitTxStep, Zenon
    DEF SocialNext

\* Concurrent calls of RelationServiceImpl keep what it promises: for every number of
\* threads and users its SQL statements, lost answers and rollbacks implement Friends, so
\* a request is answered once and friendship is mutual at every moment; at most one caller
\* is told that it answered a request, and the group keeps its owner.
THEOREM RelationsHold == SocialSpec => RelationsAreKept
<1>1. SocialInit => SocialInv /\ F!FriendsInit
    BY SocialInitially, Zenon
<1>2. SocialInv /\ [SocialNext]_socialVars => SocialInv' /\ [F!FriendsNext]_<<friendships, friend_requests>>
    BY SocialStep, Zenon
<1>3. SocialInv => AnsweredOnce /\ OwnerStays
    BY Zenon DEF SocialInv
<1> QED
    BY <1>1, <1>2, <1>3, PTL DEF SocialSpec, RelationsAreKept, FriendsRefined, F!FriendsSpec

-----------------------------------------------------------------------------
(* RateLimit: a new bucket gives no more than the old one would have        *)

RateTypeOK ==
    /\ clock \in Nat
    /\ \E n \in Nat : store \in [1 .. n -> [tokens : 0 .. Capacity, last : Nat]]
    /\ entry \in [Keys -> [bucket : Nat, used : Nat]]
    /\ stage \in [Loops -> [pc : {"rest", "lookup", "take"}, key : Keys \cup {Rest.key},
                            now : Nat, bucket : Nat]]
    /\ \A l \in Loops : stage[l].pc # "rest" => stage[l].key \in Keys
    /\ admitted \in [Keys -> Nat]

\* No call is older than MaxStall, and a loop that is about to take a token uses the
\* bucket that its key has
CallInv ==
    \A l \in Loops :
        /\ stage[l].pc # "rest" => stage[l].now <= clock /\ clock <= stage[l].now + MaxStall
        /\ stage[l].pc = "take" => /\ stage[l].bucket = entry[stage[l].key].bucket
                                   /\ stage[l].bucket # NoBucket
                                   /\ stage[l].now <= entry[stage[l].key].used + MaxStall

\* A key has a bucket of its own, and last_used is not far behind its last refill,
\* although a call that is late can set it back
BucketInv ==
    \A k \in Keys : entry[k].bucket # NoBucket =>
        /\ entry[k].bucket \in DOMAIN store /\ entry[k].used <= clock
        /\ store[entry[k].bucket].last <= clock
        /\ store[entry[k].bucket].last <= entry[k].used + 2 * MaxStall
        /\ \A j \in Keys : entry[j].bucket = entry[k].bucket => j = k

\* What a key could take now; without a bucket it would get a full one
Allowance(k) == IF entry[k].bucket = NoBucket THEN Capacity ELSE refilled(store[entry[k].bucket]).tokens

\* What a key took, and could take now, is a full bucket and what time refilled
AllowanceInv == \A k \in Keys : admitted[k] + Allowance(k) <= Capacity + clock

PresentInv == IsFiniteSet(Present(entry)) /\ BucketsAreBounded

RateInv == RateTypeOK /\ CallInv /\ BucketInv /\ AllowanceInv /\ PresentInv

\* The types of one bucket.
LEMMA BucketFacts ==
    ASSUME RateInv, NEW k \in Keys, entry[k].bucket # NoBucket
    PROVE  /\ store[entry[k].bucket].tokens \in 0 .. Capacity
           /\ store[entry[k].bucket].last \in Nat
           /\ store[entry[k].bucket].last <= clock
           /\ entry[k].bucket \in DOMAIN store
           /\ clock \in Nat /\ entry[k].used \in Nat
    BY Zenon DEF RateInv, RateTypeOK, BucketInv

\* The invariant bounds what was admitted.
LEMMA RateFromInv == RateInv => RateIsKept
<1> SUFFICES ASSUME RateInv PROVE RateIsKept
    BY Zenon
<1>1. ASSUME NEW k \in Keys PROVE Allowance(k) >= 0 /\ Allowance(k) \in Int
    <2>1. CASE entry[k].bucket = NoBucket
        BY <2>1, RateLimitAssumption DEF Allowance
    <2>2. CASE entry[k].bucket # NoBucket
        <3>1. PICK tokens \in 0 .. Capacity, last \in Nat :
                  /\ tokens = store[entry[k].bucket].tokens /\ last = store[entry[k].bucket].last
                  /\ last <= clock /\ clock \in Nat
            BY <2>2, BucketFacts, Zenon
        <3>2. Allowance(k) = IF tokens + (clock - last) > Capacity THEN Capacity ELSE tokens + (clock - last)
            BY <2>2, <3>1, Zenon DEF Allowance, refilled
        <3> QED
            BY <3>1, <3>2, RateLimitAssumption
    <2> QED
        BY <2>1, <2>2, Zenon
<1>2. ASSUME NEW k \in Keys PROVE admitted[k] <= Capacity + clock
    BY <1>1, RateLimitAssumption DEF RateInv, RateTypeOK, AllowanceInv
<1> QED
    BY <1>2, Zenon DEF RateInv, PresentInv, RateIsKept

\* Time refills what it lets a key have.
LEMMA TickStep == ASSUME RateInv, tick PROVE RateInv'
<1>0. RateTypeOK /\ CallInv /\ BucketInv /\ AllowanceInv /\ PresentInv /\ clock \in Nat
    BY Zenon DEF RateInv, RateTypeOK
<1>1. clock' = clock + 1 /\ UNCHANGED <<store, entry, stage, admitted>>
    BY Zenon DEF tick
<1>2. RateTypeOK'
    <2>1. clock' \in Nat
        BY <1>0, <1>1
    <2> QED
        BY <1>0, <1>1, <2>1, Zenon DEF RateTypeOK
<1>3. CallInv'
    <2> SUFFICES ASSUME NEW l \in Loops
                 PROVE  /\ stage[l].pc # "rest" => stage[l].now <= clock' /\ clock' <= stage[l].now + MaxStall
                        /\ stage[l].pc = "take" => /\ stage[l].bucket = entry[stage[l].key].bucket
                                                   /\ stage[l].bucket # NoBucket
                                                   /\ stage[l].now <= entry[stage[l].key].used + MaxStall
        BY <1>1, Zenon DEF CallInv
    <2>1. stage[l].now \in Nat
        BY <1>0, Zenon DEF RateTypeOK
    <2>2. stage[l].pc # "rest" => clock' - stage[l].now <= MaxStall
        BY Zenon DEF tick
    <2> QED
        BY <1>0, <1>1, <2>1, <2>2, RateLimitAssumption DEF CallInv
<1>4. BucketInv'
    <2> SUFFICES ASSUME NEW k \in Keys, entry[k].bucket # NoBucket
                 PROVE  /\ entry[k].used <= clock' /\ store[entry[k].bucket].last <= clock'
        BY <1>0, <1>1, Zenon DEF BucketInv
    <2> QED
        BY <1>0, <1>1, BucketFacts DEF BucketInv
<1>5. AllowanceInv'
    <2> SUFFICES ASSUME NEW k \in Keys PROVE admitted'[k] + Allowance(k)' <= Capacity + clock'
        BY Zenon DEF AllowanceInv
    <2>1. admitted[k] + Allowance(k) <= Capacity + clock /\ admitted[k] \in Nat
        BY <1>0, Zenon DEF AllowanceInv, RateTypeOK
    <2>2. CASE entry[k].bucket = NoBucket
        BY <1>0, <1>1, <2>1, <2>2, RateLimitAssumption DEF Allowance
    <2>3. CASE entry[k].bucket # NoBucket
        <3>1. PICK tokens \in 0 .. Capacity, last \in Nat :
                  /\ tokens = store[entry[k].bucket].tokens /\ last = store[entry[k].bucket].last /\ last <= clock
            BY <2>3, BucketFacts, Zenon
        <3>2. Allowance(k) = IF tokens + (clock - last) > Capacity THEN Capacity ELSE tokens + (clock - last)
            BY <2>3, <3>1, Zenon DEF Allowance, refilled
        <3>3. Allowance(k)' = IF tokens + (clock' - last) > Capacity THEN Capacity ELSE tokens + (clock' - last)
            BY <1>1, <2>3, <3>1, Zenon DEF Allowance, refilled
        <3> QED
            BY <1>0, <1>1, <2>1, <3>1, <3>2, <3>3, RateLimitAssumption, SMTT(20)
    <2> QED
        BY <2>2, <2>3, Zenon
<1>6. PresentInv'
    BY <1>0, <1>1, Zenon DEF PresentInv, BucketsAreBounded, Present
<1> QED
    BY <1>2, <1>3, <1>4, <1>5, <1>6, Zenon DEF RateInv

\* A call begins.
LEMMA EnterStep == ASSUME RateInv, NEW l \in Loops, NEW k \in Keys, enterAllow(l, k) PROVE RateInv'
<1>0. RateTypeOK /\ CallInv /\ BucketInv /\ AllowanceInv /\ PresentInv /\ clock \in Nat
    BY Zenon DEF RateInv, RateTypeOK
<1>1. /\ UNCHANGED <<clock, store, entry, admitted>>
      /\ stage' = [stage EXCEPT ![l] = [pc |-> "lookup", key |-> k, now |-> clock, bucket |-> NoBucket]]
    BY Zenon DEF enterAllow
<1>2. /\ stage'[l].pc = "lookup" /\ stage'[l].key = k /\ stage'[l].now = clock
      /\ \A x \in Loops : x # l => stage'[x] = stage[x]
    BY <1>0, <1>1, Zenon DEF RateTypeOK
<1>3. RateTypeOK'
    <2>1. stage' \in [Loops -> [pc : {"rest", "lookup", "take"}, key : Keys \cup {Rest.key},
                                now : Nat, bucket : Nat]]
        BY <1>0, <1>1, Zenon DEF RateTypeOK, NoBucket
    <2> QED
        BY <1>0, <1>1, <1>2, <2>1, Zenon DEF RateTypeOK
<1>4. CallInv'
    BY <1>0, <1>1, <1>2, RateLimitAssumption DEF CallInv
<1>5. BucketInv' /\ AllowanceInv' /\ PresentInv'
    BY <1>0, <1>1, Zenon DEF BucketInv, AllowanceInv, Allowance, refilled, PresentInv, BucketsAreBounded, Present
<1> QED
    BY <1>3, <1>4, <1>5, Zenon DEF RateInv

\* A token is taken under the bucket's mutex.
LEMMA TakeStep == ASSUME RateInv, NEW l \in Loops, take(l) PROVE RateInv'
<1> DEFINE b == stage[l].bucket
           mine == stage[l].key
           left == refilled(store[b]).tokens
<1>0. RateTypeOK /\ CallInv /\ BucketInv /\ AllowanceInv /\ PresentInv /\ clock \in Nat
    BY Zenon DEF RateInv, RateTypeOK
<1>1. /\ mine \in Keys /\ b = entry[mine].bucket /\ b # NoBucket
      /\ stage[l].now <= entry[mine].used + MaxStall /\ clock <= stage[l].now + MaxStall
      /\ stage[l].now \in Nat
    BY <1>0, Zenon DEF take, CallInv, RateTypeOK
<1>2. /\ b \in DOMAIN store /\ store[b].tokens \in 0 .. Capacity /\ store[b].last \in Nat
      /\ store[b].last <= clock /\ entry[mine].used \in Nat
    BY <1>1, BucketFacts, Zenon
<1>3. left \in 0 .. Capacity /\ refilled(store[b]).last = clock
    BY <1>0, <1>2, RateLimitAssumption DEF refilled
<1>n. PICK n \in Nat : store \in [1 .. n -> [tokens : 0 .. Capacity, last : Nat]]
    BY <1>0, Zenon DEF RateTypeOK
<1>4. /\ UNCHANGED <<clock, entry>> /\ stage' = [stage EXCEPT ![l] = Rest]
      /\ admitted' \in [Keys -> Nat] /\ store' \in [1 .. n -> [tokens : 0 .. Capacity, last : Nat]]
      /\ store'[b].last = clock /\ store'[b].tokens \in 0 .. Capacity
      /\ admitted'[mine] + store'[b].tokens = admitted[mine] + left
      /\ \A k \in Keys : k # mine => admitted'[k] = admitted[k]
      /\ \A c \in DOMAIN store : c # b => store'[c] = store[c]
    <2>1. store[b] \in [tokens : 0 .. Capacity, last : Nat] /\ refilled(store[b]) = [tokens |-> left, last |-> clock]
        BY <1>0, <1>2, <1>3, Zenon DEF RateTypeOK, refilled
    <2>2. admitted \in [Keys -> Nat] /\ store = [c \in DOMAIN store |-> store[c]]
        BY <1>0, Zenon DEF RateTypeOK
    <2>3. CASE left < 1
        <3>1. store' = [store EXCEPT ![b] = [tokens |-> left, last |-> clock]] /\ UNCHANGED admitted
            BY <2>1, <2>3, Zenon DEF take
        <3>2. UNCHANGED <<clock, entry>> /\ stage' = [stage EXCEPT ![l] = Rest]
            BY Zenon DEF take
        <3> HIDE DEF left, b, mine
        <3> QED
            BY <1>0, <1>1, <1>2, <1>3, <1>n, <2>2, <3>1, <3>2, Zenon
    <2>4. CASE ~ (left < 1)
        <3>1. /\ store' = [store EXCEPT ![b] = [tokens |-> left - 1, last |-> clock]]
              /\ admitted' = [admitted EXCEPT ![mine] = @ + 1]
            BY <2>1, <2>4 DEF take
        <3>2. UNCHANGED <<clock, entry>> /\ stage' = [stage EXCEPT ![l] = Rest]
            BY Zenon DEF take
        <3> HIDE DEF left, b, mine
        <3>3. left - 1 \in 0 .. Capacity
            BY <1>3, <2>4, RateLimitAssumption
        <3>4. /\ store' \in [1 .. n -> [tokens : 0 .. Capacity, last : Nat]]
              /\ store'[b] = [tokens |-> left - 1, last |-> clock]
              /\ \A c \in DOMAIN store : c # b => store'[c] = store[c]
            BY <1>0, <1>2, <1>n, <3>1, <3>3, Zenon
        <3>5. /\ admitted' \in [Keys -> Nat] /\ admitted'[mine] = admitted[mine] + 1 /\ admitted[mine] \in Nat
              /\ \A k \in Keys : k # mine => admitted'[k] = admitted[k]
            BY <1>1, <2>2, <3>1
        <3>6. admitted[mine] + 1 + (left - 1) = admitted[mine] + left
            BY <1>3, <3>5
        <3> QED
            BY <3>2, <3>3, <3>4, <3>5, <3>6
    <2> QED
        BY <2>3, <2>4, Zenon
<1>5. stage'[l] = Rest /\ \A x \in Loops : x # l => stage'[x] = stage[x]
    BY <1>0, <1>4, Zenon DEF RateTypeOK
<1> HIDE DEF b, mine, left
<1>6. RateTypeOK'
    <2>2. store' \in [1 .. n -> [tokens : 0 .. Capacity, last : Nat]]
        BY <1>4, Zenon
    <2>3. stage' \in [Loops -> [pc : {"rest", "lookup", "take"}, key : Keys \cup {Rest.key},
                                now : Nat, bucket : Nat]]
        BY <1>0, <1>4, Zenon DEF RateTypeOK, Rest, NoBucket
    <2>4. \A x \in Loops : stage'[x].pc # "rest" => stage'[x].key \in Keys
        <3>1. Rest.pc = "rest" /\ \A x \in Loops : stage[x].pc # "rest" => stage[x].key \in Keys
            BY <1>0, Zenon DEF RateTypeOK, Rest
        <3> QED
            BY <1>5, <3>1, Zenon
    <2> QED
        BY <1>0, <1>4, <2>2, <2>3, <2>4, Zenon DEF RateTypeOK
<1>7. CallInv'
    BY <1>0, <1>4, <1>5 DEF CallInv, Rest
<1>d. DOMAIN store' = DOMAIN store
    BY <1>n, <1>4, Zenon
<1>8. \A k \in Keys : k # mine /\ entry[k].bucket # NoBucket =>
          entry[k].bucket \in DOMAIN store /\ store'[entry[k].bucket] = store[entry[k].bucket]
    BY <1>0, <1>1, <1>4, Zenon DEF BucketInv
<1>9. BucketInv'
    <2> SUFFICES ASSUME NEW k \in Keys, entry[k].bucket # NoBucket
                 PROVE  /\ entry[k].bucket \in DOMAIN store' /\ entry[k].used <= clock
                        /\ store'[entry[k].bucket].last <= clock
                        /\ store'[entry[k].bucket].last <= entry[k].used + 2 * MaxStall
                        /\ \A j \in Keys : entry[j].bucket = entry[k].bucket => j = k
        BY <1>4, Zenon DEF BucketInv
    <2>1. CASE k = mine
        <3>1. clock <= entry[mine].used + 2 * MaxStall
            BY <1>0, <1>1, <1>2, RateLimitAssumption
        <3>2. entry[mine].used <= clock /\ \A j \in Keys : entry[j].bucket = entry[mine].bucket => j = mine
            BY <1>0, <1>1, Zenon DEF BucketInv
        <3> QED
            <4>1. store'[b].last = clock /\ b \in DOMAIN store' /\ b = entry[mine].bucket /\ clock <= clock
                BY <1>0, <1>1, <1>2, <1>4, <1>d
            <4> QED
                BY <2>1, <3>1, <3>2, <4>1, Zenon
    <2>2. CASE k # mine
        BY <1>0, <1>4, <1>8, <1>d, <2>2, Zenon DEF BucketInv
    <2> QED
        BY <2>1, <2>2, Zenon
<1>10. AllowanceInv'
    <2> SUFFICES ASSUME NEW k \in Keys PROVE admitted'[k] + Allowance(k)' <= Capacity + clock
        BY <1>4, Zenon DEF AllowanceInv
    <2>0. admitted[k] + Allowance(k) <= Capacity + clock
        BY <1>0, Zenon DEF AllowanceInv
    <2>1. CASE k = mine
        <3>1. Allowance(k) = left
            BY <1>1, <2>1, Zenon DEF Allowance, left
        <3>2. Allowance(k)' = store'[b].tokens
            <4>1. PICK t \in 0 .. Capacity : store'[b].tokens = t
                BY <1>4, Zenon
            <4>2. entry'[k].bucket = b /\ store'[b].last = clock /\ clock' = clock
                BY <1>1, <1>4, <2>1, Zenon
            <4>3. Allowance(k)' = IF t + (clock - clock) > Capacity THEN Capacity ELSE t + (clock - clock)
                BY <1>1, <4>1, <4>2, Zenon DEF Allowance, refilled
            <4> QED
                BY <1>0, <4>1, <4>3, RateLimitAssumption
        <3> QED
            BY <1>4, <2>0, <2>1, <3>1, <3>2, Zenon
    <2>2. CASE k # mine
        <3>1. Allowance(k)' = Allowance(k)
            BY <1>4, <1>8, <2>2, Zenon DEF Allowance, refilled
        <3> QED
            BY <1>4, <2>0, <2>2, <3>1, Zenon
    <2> QED
        BY <2>1, <2>2, Zenon
<1>11. PresentInv'
    BY <1>0, <1>4, Zenon DEF PresentInv, BucketsAreBounded, Present
<1> QED
    BY <1>6, <1>7, <1>9, <1>10, <1>11, Zenon DEF RateInv

\* pruneLocked takes only buckets that are full again and that no call holds.
LEMMA PruneFacts ==
    ASSUME RateInv, NEW l \in Loops, stage[l].pc = "lookup", NEW k \in Keys,
           entry[k].bucket # NoBucket, stage[l].now - entry[k].used >= IdleLimit
    PROVE  /\ Allowance(k) = Capacity
           /\ \A x \in Loops : stage[x].pc = "take" => stage[x].key # k
<1>0. /\ stage[l].now \in Nat /\ stage[l].now <= clock /\ clock \in Nat
      /\ entry[k].used \in Nat
    BY Zenon DEF RateInv, RateTypeOK, CallInv
<1>1. store[entry[k].bucket].last <= entry[k].used + 2 * MaxStall
    BY Zenon DEF RateInv, BucketInv
<1>2. PICK tokens \in 0 .. Capacity, last \in Nat :
          tokens = store[entry[k].bucket].tokens /\ last = store[entry[k].bucket].last
    BY BucketFacts, Zenon
<1>3. tokens + (clock - last) >= Capacity
    BY <1>0, <1>1, <1>2, RateLimitAssumption
<1>4. Allowance(k) = Capacity
    <2>1. Allowance(k) = IF tokens + (clock - last) > Capacity THEN Capacity ELSE tokens + (clock - last)
        BY <1>2, Zenon DEF Allowance, refilled
    <2> QED
        BY <1>0, <1>2, <1>3, <2>1, RateLimitAssumption
<1>5. ASSUME NEW x \in Loops, stage[x].pc = "take", stage[x].key = k PROVE FALSE
    <2>1. stage[x].now \in Nat /\ stage[x].now <= entry[k].used + MaxStall /\ clock <= stage[x].now + MaxStall
        BY <1>5, Zenon DEF RateInv, RateTypeOK, CallInv
    <2>2. PICK now \in Nat, used \in Nat, taken \in Nat, time \in Nat :
              now = stage[l].now /\ used = entry[k].used /\ taken = stage[x].now /\ time = clock
        BY <1>0, <2>1, Zenon
    <2>3. /\ now - used >= IdleLimit /\ now <= time
          /\ taken <= used + MaxStall /\ time <= taken + MaxStall
        BY <1>0, <2>1, <2>2, Zenon
    <2> QED
        BY <2>3, RateLimitAssumption
<1> QED
    BY <1>4, <1>5, Zenon

Sizes == INSTANCE FiniteSetTheorems

\* Finite sets and their sizes are those that FiniteSetTheorems speaks of.
LEMMA SizesAgree == \A S : /\ Sizes!IsFiniteSet(S) <=> IsFiniteSet(S)
                           /\ Sizes!Cardinality(S) = Cardinality(S)
BY Zenon DEF IsFiniteSet, Cardinality, Sizes!IsFiniteSet, Sizes!Cardinality

\* No bucket, no call.
LEMMA RateInitially == RateLimitInit => RateInv
<1> SUFFICES ASSUME RateLimitInit PROVE RateInv
    BY Zenon
<1>1. RateTypeOK
    <2>1. 1 .. 0 = {} /\ 0 \in Nat
        OBVIOUS
    <2>2. store \in [1 .. 0 -> [tokens : 0 .. Capacity, last : Nat]]
        BY <2>1, Zenon DEF RateLimitInit
    <2>3. stage \in [Loops -> [pc : {"rest", "lookup", "take"}, key : Keys \cup {Rest.key},
                               now : Nat, bucket : Nat]]
        BY Zenon DEF RateLimitInit, Rest, NoBucket
    <2>4. \A l \in Loops : stage[l].pc = "rest"
        BY Zenon DEF RateLimitInit, Rest
    <2> QED
        BY <2>1, <2>2, <2>3, <2>4, Zenon DEF RateLimitInit, RateTypeOK, NoEntry, NoBucket
<1>2. CallInv
    BY Zenon DEF RateLimitInit, CallInv, Rest
<1>3. BucketInv /\ AllowanceInv
    BY RateLimitAssumption DEF RateLimitInit, BucketInv, AllowanceInv, Allowance, NoEntry, NoBucket
<1>4. PresentInv
    <2>1. Present(entry) = {}
        BY Zenon DEF RateLimitInit, Present, NoEntry
    <2> QED
        BY <2>1, SizesAgree, Sizes!FS_EmptySet, RateLimitAssumption DEF PresentInv, BucketsAreBounded
<1> QED
    BY <1>1, <1>2, <1>3, <1>4, Zenon DEF RateInv

\* The part of allow() that prunes, then looks the key's bucket up or makes one.
LEMMA FindStep == ASSUME RateInv, NEW l \in Loops, findBucket(l) PROVE RateInv'
<1> DEFINE k == stage[l].key
           full == Cardinality(Present(entry)) >= MaxBuckets
<1>0. RateTypeOK /\ CallInv /\ BucketInv /\ AllowanceInv /\ PresentInv /\ clock \in Nat
    BY Zenon DEF RateInv, RateTypeOK
<1>1. /\ stage[l].pc = "lookup" /\ k \in Keys /\ stage[l].now \in Nat
      /\ stage[l].now <= clock /\ clock <= stage[l].now + MaxStall
    BY <1>0, Zenon DEF findBucket, RateTypeOK, CallInv
<1>2. PICK swept \in {TRUE, full} :
          LET kept == IF swept THEN pruned(stage[l].now) ELSE entry
              known == kept[k].bucket # NoBucket
              b == IF known THEN kept[k].bucket ELSE Cardinality(DOMAIN store) + 1
          IN  IF ~known /\ Cardinality(Present(kept)) >= MaxBuckets
              THEN entry' = kept /\ stage' = [stage EXCEPT ![l] = Rest] /\ UNCHANGED store
              ELSE /\ entry' = [kept EXCEPT ![k] = [bucket |-> b, used |-> stage[l].now]]
                   /\ store' = IF known THEN store
                               ELSE [x \in 1 .. b |-> IF x = b THEN [tokens |-> Capacity, last |-> clock]
                                                      ELSE store[x]]
                   /\ stage' = [stage EXCEPT ![l].pc = "take", ![l].bucket = b]
    BY Zenon DEF findBucket
<1> DEFINE kept == IF swept THEN pruned(stage[l].now) ELSE entry
           known == kept[k].bucket # NoBucket
           b == IF known THEN kept[k].bucket ELSE Cardinality(DOMAIN store) + 1
<1>3. UNCHANGED <<clock, admitted>>
    BY Zenon DEF findBucket
<1>4. /\ kept \in [Keys -> [bucket : Nat, used : Nat]]
      /\ \A j \in Keys : kept[j] = entry[j]
                         \/ /\ kept[j].bucket = NoBucket
                            /\ stage[l].now - entry[j].used >= IdleLimit
    BY <1>0, Zenon DEF RateTypeOK, pruned, NoEntry, NoBucket
<1>5. PICK n \in Nat : store \in [1 .. n -> [tokens : 0 .. Capacity, last : Nat]]
    BY <1>0, Zenon DEF RateTypeOK
<1>6. DOMAIN store = 1 .. n /\ Cardinality(DOMAIN store) = n
    <2>1. DOMAIN store = 1 .. n
        BY <1>5, Zenon
    <2>2. Cardinality(1 .. n) = IF 1 > n THEN 0 ELSE n - 1 + 1
        BY <1>5, SizesAgree, Sizes!FS_Interval
    <2> QED
        BY <1>5, <2>1, <2>2
<1>7. ASSUME NEW j \in Keys, kept[j] # entry[j], entry[j].bucket # NoBucket
      PROVE  Allowance(j) = Capacity /\ \A x \in Loops : stage[x].pc = "take" => stage[x].key # j
    BY <1>1, <1>4, <1>7, PruneFacts, Zenon
<1>8. Present(kept) \subseteq Present(entry)
    BY <1>4, Zenon DEF Present
<1>9. IsFiniteSet(Present(kept)) /\ Cardinality(Present(kept)) <= MaxBuckets
    <2>1. IsFiniteSet(Present(entry)) /\ Cardinality(Present(entry)) <= MaxBuckets
        BY <1>0, Zenon DEF PresentInv, BucketsAreBounded
    <2>2. IsFiniteSet(Present(kept)) /\ Cardinality(Present(kept)) <= Cardinality(Present(entry))
        BY <1>8, <2>1, SizesAgree, Sizes!FS_Subset, Zenon
    <2>3. Cardinality(Present(entry)) \in Nat /\ Cardinality(Present(kept)) \in Nat
        BY <2>1, <2>2, SizesAgree, Sizes!FS_CardinalityType, Zenon
    <2> QED
        BY <2>1, <2>2, <2>3, RateLimitAssumption
<1>10. ASSUME NEW j \in Keys, kept[j].bucket # NoBucket PROVE kept[j] = entry[j] /\ kept[j].bucket \in 1 .. n
    BY <1>0, <1>4, <1>6, <1>10, Zenon DEF BucketInv
<1>11. \A x \in Loops : x # l => stage'[x] = stage[x]
    BY <1>0, <1>2, Zenon DEF RateTypeOK
<1>12. CASE ~known /\ Cardinality(Present(kept)) >= MaxBuckets
    <2>1. entry' = kept /\ stage' = [stage EXCEPT ![l] = Rest] /\ UNCHANGED store
        BY <1>2, <1>12, Zenon
    <2> HIDE DEF kept, known, k
    <2>2. stage'[l] = Rest
        BY <1>0, <2>1, Zenon DEF RateTypeOK
    <2>3. RateTypeOK'
        <3>1. stage' \in [Loops -> [pc : {"rest", "lookup", "take"}, key : Keys \cup {Rest.key},
                                    now : Nat, bucket : Nat]]
            BY <1>0, <2>1, Zenon DEF RateTypeOK, Rest, NoBucket
        <3>2. Rest.pc = "rest" /\ \A x \in Loops : stage[x].pc # "rest" => stage[x].key \in Keys
            BY <1>0, Zenon DEF RateTypeOK, Rest
        <3>3. \A x \in Loops : stage'[x].pc # "rest" => stage'[x].key \in Keys
            BY <1>11, <2>2, <3>2, Zenon
        <3> QED
            BY <1>0, <1>3, <1>4, <2>1, <3>1, <3>3, Zenon DEF RateTypeOK
    <2>4. CallInv'
        <3>1. ASSUME NEW x \in Loops, stage[x].pc = "take" PROVE kept[stage[x].key] = entry[stage[x].key]
            BY <1>0, <1>7, <3>1, Zenon DEF CallInv, RateTypeOK
        <3> QED
            BY <1>0, <1>3, <1>11, <2>1, <2>2, <3>1, SMTT(20) DEF CallInv, Rest
    <2>5. BucketInv'
        BY <1>0, <1>3, <1>10, <2>1, SMTT(20) DEF BucketInv
    <2>6. AllowanceInv'
        <3> SUFFICES ASSUME NEW j \in Keys PROVE admitted[j] + Allowance(j)' <= Capacity + clock
            BY <1>3, Zenon DEF AllowanceInv
        <3>1. Allowance(j)' = Allowance(j)
            <4>1. CASE kept[j] = entry[j]
                BY <1>3, <2>1, <4>1, Zenon DEF Allowance, refilled
            <4>2. CASE kept[j] # entry[j]
                BY <1>4, <1>7, <2>1, <4>2, Zenon DEF Allowance
            <4> QED
                BY <4>1, <4>2, Zenon
        <3> QED
            BY <1>0, <3>1, Zenon DEF AllowanceInv
    <2>7. PresentInv'
        BY <1>9, <2>1, Zenon DEF PresentInv, BucketsAreBounded, Present
    <2> QED
        BY <2>3, <2>4, <2>5, <2>6, <2>7, Zenon DEF RateInv
<1>13. CASE ~ (~known /\ Cardinality(Present(kept)) >= MaxBuckets)
    <2>1. /\ entry' = [kept EXCEPT ![k] = [bucket |-> b, used |-> stage[l].now]]
          /\ store' = IF known THEN store
                      ELSE [x \in 1 .. b |-> IF x = b THEN [tokens |-> Capacity, last |-> clock]
                                             ELSE store[x]]
          /\ stage' = [stage EXCEPT ![l].pc = "take", ![l].bucket = b]
        BY <1>2, <1>13, Zenon
    <2>2. (known => b = entry[k].bucket /\ b \in 1 .. n) /\ (~known => b = n + 1) /\ b \in Nat /\ b # NoBucket
        <3>1. known => b = entry[k].bucket /\ b \in 1 .. n
            BY <1>1, <1>10, Zenon
        <3>2. ~known => b = n + 1
            BY <1>6, Zenon
        <3> HIDE DEF b, known, k
        <3> QED
            BY <1>5, <3>1, <3>2 DEF NoBucket
    <2> HIDE DEF kept, b, k
    <2>3. /\ entry'[k].bucket = b /\ entry'[k].used = stage[l].now
          /\ \A j \in Keys : j # k => entry'[j] = kept[j]
          /\ entry' \in [Keys -> [bucket : Nat, used : Nat]]
        BY <1>1, <1>4, <2>1, <2>2, Zenon
    <2>4. /\ stage'[l].pc = "take" /\ stage'[l].bucket = b /\ stage'[l].key = stage[l].key
          /\ stage'[l].now = stage[l].now
          /\ stage' \in [Loops -> [pc : {"rest", "lookup", "take"}, key : Keys \cup {Rest.key},
                                   now : Nat, bucket : Nat]]
        <3>1. stage \in [Loops -> [pc : {"rest", "lookup", "take"}, key : Keys \cup {Rest.key},
                                   now : Nat, bucket : Nat]]
            BY <1>0, Zenon DEF RateTypeOK
        <3> HIDE DEF known
        <3>2. stage' = [stage EXCEPT ![l] = [stage[l] EXCEPT !.pc = "take", !.bucket = b]]
            BY <2>1, <3>1, Zenon
        <3>3. stage[l] \in [pc : {"rest", "lookup", "take"}, key : Keys \cup {Rest.key},
                            now : Nat, bucket : Nat]
            BY <3>1, Zenon
        <3>4. [stage[l] EXCEPT !.pc = "take", !.bucket = b]
                  \in [pc : {"rest", "lookup", "take"}, key : Keys \cup {Rest.key}, now : Nat, bucket : Nat]
            BY <2>2, <3>3, Zenon
        <3>5. stage'[l] = [stage[l] EXCEPT !.pc = "take", !.bucket = b]
            BY <3>1, <3>2, Zenon
        <3>6. /\ stage'[l].pc = "take" /\ stage'[l].bucket = b /\ stage'[l].key = stage[l].key
              /\ stage'[l].now = stage[l].now
            BY <3>3, <3>5, Zenon
        <3> QED
            BY <3>1, <3>2, <3>4, <3>6, Zenon
    <2>5. /\ \A c \in 1 .. n : store'[c] = store[c] /\ c \in DOMAIN store'
          /\ b \in DOMAIN store'
          /\ ~known => store'[b] = [tokens |-> Capacity, last |-> clock]
        BY <1>5, <1>6, <2>1, <2>2
    <2>6. \E m \in Nat : store' \in [1 .. m -> [tokens : 0 .. Capacity, last : Nat]]
        <3>1. CASE known
            BY <1>5, <2>1, <3>1, Zenon
        <3>2. CASE ~known
            <4>1. store' \in [1 .. n + 1 -> [tokens : 0 .. Capacity, last : Nat]]
                BY <1>0, <1>5, <2>1, <2>2, <3>2, RateLimitAssumption, SMTT(20)
            <4> QED
                BY <1>5, <4>1
        <3> QED
            BY <3>1, <3>2, Zenon
    <2>7. RateTypeOK'
        <3>1. \A x \in Loops : stage[x].pc # "rest" => stage[x].key \in Keys
            BY <1>0, Zenon DEF RateTypeOK
        <3>2. \A x \in Loops : stage'[x].pc # "rest" => stage'[x].key \in Keys
            BY <1>1, <1>11, <2>4, <3>1, Zenon DEF k
        <3> QED
            BY <1>0, <1>3, <2>3, <2>4, <2>6, <3>2, Zenon DEF RateTypeOK
    <2>8. ASSUME NEW x \in Loops, x # l, stage[x].pc = "take", stage[x].key = k
          PROVE  known
        BY <1>0, <1>1, <1>7, <2>8, Zenon DEF CallInv, known
    <2>9. CallInv'
        <3> SUFFICES ASSUME NEW x \in Loops
                     PROVE  /\ stage'[x].pc # "rest" => stage'[x].now <= clock /\ clock <= stage'[x].now + MaxStall
                            /\ stage'[x].pc = "take" =>
                                   /\ stage'[x].bucket = entry'[stage'[x].key].bucket
                                   /\ stage'[x].bucket # NoBucket
                                   /\ stage'[x].now <= entry'[stage'[x].key].used + MaxStall
            BY <1>3, Zenon DEF CallInv
        <3>1. CASE x = l
            BY <1>1, <2>2, <2>3, <2>4, <3>1, RateLimitAssumption, SMTT(20) DEF k
        <3>2. CASE x # l /\ stage[x].pc = "take" /\ stage[x].key = k
            <4>1. stage'[x] = stage[x] /\ known /\ b = entry[k].bucket
                BY <1>11, <2>2, <2>8, <3>2, Zenon
            <4>2. stage[x].now <= stage[l].now + MaxStall
                <5>1. stage[x].now \in Nat /\ stage[x].now <= clock
                    BY <1>0, <3>2, Zenon DEF CallInv, RateTypeOK
                <5> QED
                    BY <1>0, <1>1, <5>1, RateLimitAssumption
            <4> QED
                BY <1>0, <2>3, <3>2, <4>1, <4>2, Zenon DEF CallInv
        <3>3. CASE x # l /\ stage[x].pc = "take" /\ stage[x].key # k
            <4>1. stage'[x] = stage[x] /\ stage[x].key \in Keys
                BY <1>0, <1>11, <3>3, Zenon DEF RateTypeOK
            <4>2. entry'[stage[x].key] = entry[stage[x].key]
                BY <1>0, <1>7, <2>3, <3>3, <4>1, Zenon DEF CallInv
            <4> QED
                BY <1>0, <3>3, <4>1, <4>2, Zenon DEF CallInv
        <3>4. CASE x # l /\ stage[x].pc # "take"
            BY <1>0, <1>11, <3>4, Zenon DEF CallInv
        <3> QED
            BY <3>1, <3>2, <3>3, <3>4, Zenon
    <2>10. ASSUME NEW j \in Keys, j # k, entry'[j].bucket # NoBucket
           PROVE  entry'[j] = entry[j] /\ entry[j].bucket \in 1 .. n /\ entry[j].bucket # b
        <3>1. entry'[j] = entry[j] /\ entry[j].bucket \in 1 .. n
            BY <1>10, <2>3, <2>10, Zenon
        <3> QED
            BY <1>0, <1>1, <1>5, <2>2, <2>10, <3>1, SMTT(20) DEF BucketInv
    <2>11. BucketInv'
        <3> SUFFICES ASSUME NEW j \in Keys, entry'[j].bucket # NoBucket
                     PROVE  /\ entry'[j].bucket \in DOMAIN store' /\ entry'[j].used <= clock
                            /\ store'[entry'[j].bucket].last <= clock
                            /\ store'[entry'[j].bucket].last <= entry'[j].used + 2 * MaxStall
                            /\ \A i \in Keys : entry'[i].bucket = entry'[j].bucket => i = j
            BY <1>3, Zenon DEF BucketInv
        <3>1. CASE j = k
            <4>1. store'[b].last <= clock /\ store'[b].last \in Nat
                <5>1. CASE known
                    BY <1>1, <2>2, <2>5, <5>1, BucketFacts, Zenon
                <5>2. CASE ~known
                    BY <1>0, <2>5, <5>2, SMTT(20)
                <5> QED
                    BY <5>1, <5>2, Zenon
            <4>2. store'[b].last <= stage[l].now + 2 * MaxStall
                BY <1>0, <1>1, <4>1, RateLimitAssumption
            <4> QED
                BY <1>1, <2>2, <2>3, <2>5, <2>10, <3>1, <4>1, <4>2, Zenon
        <3>2. CASE j # k
            <4>1. entry'[j] = entry[j] /\ entry[j].bucket \in 1 .. n /\ entry[j].bucket # b
                BY <2>10, <3>2, Zenon
            <4>2. \A i \in Keys : entry'[i].bucket = entry[j].bucket => i # k /\ entry'[i].bucket # NoBucket
                BY <2>3, <4>1, Zenon DEF NoBucket
            <4> QED
                BY <1>0, <2>5, <2>10, <3>2, <4>1, <4>2, SMTT(20) DEF BucketInv, NoBucket
        <3> QED
            BY <3>1, <3>2, Zenon
    <2>12. AllowanceInv'
        <3> SUFFICES ASSUME NEW j \in Keys PROVE admitted[j] + Allowance(j)' <= Capacity + clock
            BY <1>3, Zenon DEF AllowanceInv
        <3>1. CASE j # k /\ entry'[j].bucket # NoBucket
            <4>1. entry'[j] = entry[j] /\ store'[entry[j].bucket] = store[entry[j].bucket] /\ clock' = clock
                BY <1>3, <2>5, <2>10, <3>1, Zenon
            <4> QED
                BY <1>0, <4>1, Zenon DEF AllowanceInv, Allowance, refilled
        <3>2. CASE j # k /\ entry'[j].bucket = NoBucket
            <4>1. Allowance(j) = Capacity
                BY <1>7, <2>3, <3>2, Zenon DEF Allowance
            <4>2. Allowance(j)' = Capacity
                BY <3>2, Zenon DEF Allowance
            <4> QED
                BY <1>0, <4>1, <4>2, Zenon DEF AllowanceInv
        <3>3. CASE j = k /\ known
            <4>1. entry'[k].bucket = entry[k].bucket /\ store'[b] = store[b] /\ clock' = clock /\ b = entry[k].bucket
                BY <1>3, <2>2, <2>3, <2>5, <3>3, Zenon
            <4> QED
                BY <1>0, <2>2, <3>3, <4>1, Zenon DEF AllowanceInv, Allowance, refilled
        <3>4. CASE j = k /\ ~known
            <4>1. Allowance(k) = Capacity
                BY <1>1, <1>7, <3>4, Zenon DEF Allowance, known
            <4>2. Allowance(j)' = Capacity
                <5>1. entry'[j].bucket = b /\ store'[b] = [tokens |-> Capacity, last |-> clock] /\ clock' = clock
                    BY <1>3, <2>3, <2>5, <3>4, Zenon
                <5>2. Allowance(j)' = IF Capacity + (clock - clock) > Capacity THEN Capacity
                                      ELSE Capacity + (clock - clock)
                    BY <2>2, <3>4, <5>1 DEF Allowance, refilled
                <5> QED
                    BY <1>0, <5>2, RateLimitAssumption
            <4>3. admitted[k] + Allowance(k) <= Capacity + clock
                BY <1>0, <1>1, Zenon DEF AllowanceInv
            <4> QED
                BY <3>4, <4>1, <4>2, <4>3, Zenon
        <3> QED
            BY <3>1, <3>2, <3>3, <3>4, Zenon
    <2>13. PresentInv'
        <3>1. CASE known
            <4>1. Present(entry') = Present(kept)
                BY <1>1, <2>2, <2>3, <3>1, Zenon DEF Present, known
            <4> QED
                BY <1>9, <4>1, Zenon DEF PresentInv, BucketsAreBounded, Present
        <3>2. CASE ~known
            <4>1. Present(entry') = Present(kept) \cup {k} /\ k \notin Present(kept)
                BY <1>1, <2>2, <2>3, <3>2, Zenon DEF Present, known
            <4>2. Cardinality(Present(kept)) < MaxBuckets
                BY <1>9, <1>13, <3>2, SizesAgree, Sizes!FS_CardinalityType, RateLimitAssumption, SMTT(20)
            <4>3. IsFiniteSet(Present(entry')) /\ Cardinality(Present(entry')) = Cardinality(Present(kept)) + 1
                BY <1>9, <4>1, SizesAgree, Sizes!FS_AddElement, Zenon
            <4>4. Cardinality(Present(entry')) <= MaxBuckets
                BY <1>9, <4>2, <4>3, SizesAgree, Sizes!FS_CardinalityType, RateLimitAssumption, SMTT(20)
            <4> QED
                BY <4>3, <4>4, Zenon DEF PresentInv, BucketsAreBounded, Present
        <3> QED
            BY <3>1, <3>2, Zenon
    <2> QED
        BY <2>7, <2>9, <2>11, <2>12, <2>13, Zenon DEF RateInv
<1> QED
    BY <1>12, <1>13, Zenon

\* Every step of the limiter keeps the invariant.
LEMMA RateStep == RateInv /\ [RateLimitNext]_limitVars => RateInv'
<1> SUFFICES ASSUME RateInv, [RateLimitNext]_limitVars PROVE RateInv'
    BY Zenon
<1>1. CASE UNCHANGED limitVars
    BY <1>1, Zenon DEF limitVars, RateInv, RateTypeOK, CallInv, BucketInv, AllowanceInv, Allowance, refilled,
                PresentInv, BucketsAreBounded, Present
<1> QED
    BY <1>1, TickStep, EnterStep, TakeStep, FindStep, Zenon DEF RateLimitNext

\* However many loops use the limiter and however often idle buckets are thrown away and
\* made again, a key is admitted no more than a full bucket and what time refilled, as
\* long as a bucket is idle for the time to fill and for two calls before it is pruned
\* (RateLimiter::allow, pruneLocked).
THEOREM RateLimitHolds == RateLimitSpec => []RateIsKept
    BY RateInitially, RateStep, RateFromInv, PTL DEF RateLimitSpec
=============================================================================
