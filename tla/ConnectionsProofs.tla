------------------------- MODULE ConnectionsProofs -------------------------
(***************************************************************************)
(* What is proved of Connections, for any number of connections, addresses *)
(* and notifiers, and any thresholds: its types, with the bounds of the    *)
(* counters behind a ban, and that the session registry is true.           *)
(***************************************************************************)
EXTENDS Connections, Integers, FiniteSetTheorems, TLAPS

----------------------------------------------------------------------------
Admitting(c) == [at |-> "admit", conn |-> c]
Ended == [at |-> "ended"]
Places == {"none", "backlog", "accepted"} \cup Serving

\* TypeOK but for the bounds of the counters and the sign of perIP.
Types ==
  /\ server \in {"serving", "cancelled", "stopped"}
  /\ listening \in BOOLEAN /\ vardiffRuns \in BOOLEAN
  /\ acceptor \in {AtAccept, Ended} \cup [at : {"admit"}, conn : Conns]
  /\ place \in [Conns -> Places]
  /\ hung \subseteq Conns /\ oversized \subseteq Conns
  /\ malformed \in [Conns -> 0..MalformedPerConn]
  /\ sessions \subseteq Conns /\ perIP \in [IPs -> Int] /\ maxConnPerIP \in Caps
  /\ banned \subseteq IPs
  /\ stats \in [IPs -> [valid : Nat, invalid : Nat, malformed : Nat]]
  /\ notifying \in [Notifiers -> SUBSET Conns] /\ writing \in [Notifiers -> SUBSET Conns]
  /\ inputs \in 0..MaxInputs /\ faults \in 0..MaxFaults

\* A connection that has used up its malformed lines is on its way out, and the one
\* the acceptor holds is accepted.
Ways ==
  /\ \A c \in Conns :
       malformed[c] = MalformedPerConn => place[c] \in {"dropped", "leaving", "closing"}
  /\ \A c \in Conns : acceptor = Admitting(c) => place[c] = "accepted"

Base == Types /\ Ways

Registered == {"top", "reading", "replying", "banned", "dropped", "leaving"}
SessionsAreTrue == sessions = {c \in Conns : place[c] \in Registered}

SessionsOf(ip) == {c \in sessions : IPOf[c] = ip}
CountsAreTrue ==
  \A ip \in IPs :
    /\ perIP[ip] = Cardinality(SessionsOf(ip))
    /\ maxConnPerIP > 0 => perIP[ip] <= maxConnPerIP

\* A counter beyond its threshold is that of an address whose connections are about
\* to ban it: each of them may have counted once more.
Waiting(p, ip) == {c \in Conns : IPOf[c] = ip /\ place[c] = p}
ThresholdsHold ==
  \A ip \in IPs :
    /\ stats[ip].valid + stats[ip].invalid < CheckThreshold + Cardinality(Waiting("banned", ip))
    /\ stats[ip].malformed < MalformedThreshold + Cardinality(Waiting("dropped", ip))

IInv == Base /\ SessionsAreTrue /\ CountsAreTrue /\ ThresholdsHold

LEMMA AcceptorFacts ==
  /\ \A c : Admitting(c) # AtAccept /\ Admitting(c) # Ended /\ AtAccept # Ended
  /\ \A c, d : Admitting(c) = Admitting(d) => c = d
<1>1. ASSUME NEW c PROVE Admitting(c).at = "admit" /\ Admitting(c).conn = c
  BY DEF Admitting
<1>2. AtAccept.at = "accept" /\ Ended.at = "ended"
  BY DEF AtAccept, Ended
<1> QED BY <1>1, <1>2

----------------------------------------------------------------------------
(***************************************************************************)
(* Types and ways.                                                         *)
(***************************************************************************)
LEMMA BaseStep == Base /\ [Next]_vars => Base'
<1> SUFFICES ASSUME Base, [Next]_vars PROVE Base'
  OBVIOUS
<1> USE ConnectionsAssumption DEF main, registry, bans, notifiers, bounds
<1>a. /\ place \in [Conns -> Places] /\ malformed \in [Conns -> 0..MalformedPerConn]
      /\ MalformedPerConn \in Nat \ {0}
      /\ stats \in [IPs -> [valid : Nat, invalid : Nat, malformed : Nat]]
      /\ \A c \in Conns : IPOf[c] \in IPs
  BY DEF Base, Types
\* A connection moves that the acceptor does not hold.
<1>m. ASSUME NEW c \in Conns, NEW to \in Places, Moves(c, to), place[c] # "accepted",
             acceptor' \in {acceptor, AtAccept}, malformed' = malformed,
             malformed[c] = MalformedPerConn => to \in {"dropped", "leaving", "closing"}
      PROVE  place' \in [Conns -> Places] /\ Ways'
  <2>1. \A d \in Conns : place'[d] = IF d = c THEN to ELSE place[d]
    BY <1>a, <1>m DEF Moves
  <2>2. place' \in [Conns -> Places]
    BY <1>a, <1>m DEF Moves
  <2>3. ASSUME NEW d \in Conns, malformed'[d] = MalformedPerConn
        PROVE  place'[d] \in {"dropped", "leaving", "closing"}
    BY <1>m, <2>1, <2>3 DEF Base, Ways
  <2>4. ASSUME NEW d \in Conns, acceptor' = Admitting(d) PROVE place'[d] = "accepted"
    BY <1>m, <2>1, <2>4, AcceptorFacts DEF Base, Ways
  <2> QED BY <2>2, <2>3, <2>4 DEF Ways
<1>1. ASSUME NEW c \in Conns, Dial(c) \/ Refuse(c) PROVE Base'
  <2>1. PICK to \in {"backlog", "none"} : Moves(c, to)
    BY <1>1 DEF Dial, Refuse
  <2>2. place[c] # "accepted" /\ malformed[c] # MalformedPerConn
    BY <1>1 DEF Dial, Refuse, Base, Ways
  <2>3. place' \in [Conns -> Places] /\ Ways'
    BY <1>1, <1>m, <2>1, <2>2 DEF Dial, Refuse, Places
  <2>4. inputs' \in 0..MaxInputs
    BY <1>1 DEF Dial, Refuse, Input, Base, Types
  <2> QED BY <1>1, <2>3, <2>4 DEF Dial, Refuse, Base, Types
<1>2. ASSUME NEW c \in Conns, Accept(c) PROVE Base'
  <2>1. /\ acceptor' = Admitting(c) /\ place' = [place EXCEPT ![c] = "accepted"]
        /\ place[c] = "backlog" /\ malformed' = malformed
    BY <1>2 DEF Accept, Moves, Admitting
  <2>2. Admitting(c) \in [at : {"admit"}, conn : Conns]
    BY DEF Admitting
  <2>3. /\ place' \in [Conns -> Places]
        /\ \A d \in Conns : place'[d] = IF d = c THEN "accepted" ELSE place[d]
    BY <1>a, <2>1 DEF Places
  <2>4. Ways'
    <3>1. malformed[c] # MalformedPerConn
      BY <2>1 DEF Base, Ways
    <3>2. \A d \in Conns : acceptor' = Admitting(d) => place'[d] = "accepted"
      BY <2>1, <2>3, AcceptorFacts
    <3> QED BY <2>1, <2>3, <3>1, <3>2 DEF Base, Ways
  <2> QED BY <1>2, <2>1, <2>2, <2>3, <2>4 DEF Accept, Base, Types
<1>3. ASSUME NEW c \in Conns, Admit(c) PROVE Base'
  <2>1. /\ acceptor = Admitting(c) /\ acceptor' = AtAccept /\ malformed' = malformed
        /\ \E to \in {"none", "top"} : place' = [place EXCEPT ![c] = to]
    BY <1>3 DEF Admit, Moves, Admitting
  <2>2. place[c] = "accepted" /\ malformed[c] # MalformedPerConn
    BY <2>1 DEF Base, Ways
  <2>3. place' \in [Conns -> Places] /\ \A d \in Conns : d # c => place'[d] = place[d]
    BY <1>a, <2>1 DEF Places, Serving
  <2>4. Ways'
    BY <2>1, <2>2, <2>3, AcceptorFacts DEF Base, Ways
  <2>5. sessions' \subseteq Conns /\ perIP' \in [IPs -> Int]
    BY <1>3, <1>a DEF Admit, Base, Types
  <2> QED BY <1>3, <2>1, <2>3, <2>4, <2>5 DEF Admit, Base, Types
<1>4. CASE AcceptFails
  <2>1. acceptor' = Ended /\ faults' \in 0..MaxFaults
    BY <1>4 DEF AcceptFails, Ended, Fault, Base, Types
  <2>2. Ways'
    BY <1>4, <2>1, AcceptorFacts DEF AcceptFails, Base, Ways
  <2> QED BY <1>4, <2>1, <2>2 DEF AcceptFails, Base, Types
<1>5. ASSUME NEW c \in Conns, EntersRead(c) \/ ReadFails(c) \/ ReadsRequest(c) \/ Replies(c)
      PROVE  Base'
  <2>1. PICK to \in {"top", "reading", "replying", "leaving"} : Moves(c, to)
    BY <1>5 DEF EntersRead, ReadFails, ReadsRequest, Replies
  <2>2. place[c] # "accepted" /\ malformed[c] # MalformedPerConn
    BY <1>5 DEF EntersRead, ReadFails, ReadsRequest, Replies, Base, Ways
  <2>3. place' \in [Conns -> Places] /\ Ways'
    BY <1>5, <1>m, <2>1, <2>2 DEF EntersRead, ReadFails, ReadsRequest, Replies, Places, Serving
  <2>4. inputs' \in 0..MaxInputs
    BY <1>5 DEF EntersRead, ReadFails, ReadsRequest, Replies, Input, Base, Types
  <2> QED BY <1>5, <2>3, <2>4 DEF EntersRead, ReadFails, ReadsRequest, Replies, Base, Types
<1>6. ASSUME NEW c \in Conns, ReadsShare(c) PROVE Base'
  <2>1. PICK to \in {"banned", "replying"} : Moves(c, to)
    BY <1>6 DEF ReadsShare
  <2>2. place[c] # "accepted" /\ malformed[c] # MalformedPerConn
    BY <1>6 DEF ReadsShare, Base, Ways
  <2>3. place' \in [Conns -> Places] /\ Ways'
    BY <1>6, <1>m, <2>1, <2>2 DEF ReadsShare, Places, Serving
  <2>4. inputs' \in 0..MaxInputs
    BY <1>6 DEF ReadsShare, Input, Base, Types
  <2>5. stats' \in [IPs -> [valid : Nat, invalid : Nat, malformed : Nat]]
    <3>1. stats[IPOf[c]] \in [valid : Nat, invalid : Nat, malformed : Nat]
      BY <1>a
    <3>2. PICK counts \in {[stats[IPOf[c]] EXCEPT !.valid = @ + 1],
                           [stats[IPOf[c]] EXCEPT !.invalid = @ + 1]} :
            \/ stats' = [stats EXCEPT ![IPOf[c]] = counts]
            \/ stats' = [stats EXCEPT ![IPOf[c]] = [counts EXCEPT !.valid = 0, !.invalid = 0]]
      BY <1>6 DEF ReadsShare
    <3>3. counts \in [valid : Nat, invalid : Nat, malformed : Nat]
      BY <3>1, <3>2
    <3>4. [counts EXCEPT !.valid = 0, !.invalid = 0]
            \in [valid : Nat, invalid : Nat, malformed : Nat]
      BY <3>3
    <3> QED BY <1>a, <3>2, <3>3, <3>4
  <2> QED BY <1>6, <2>3, <2>4, <2>5 DEF ReadsShare, Base, Types
<1>7. ASSUME NEW c \in Conns, ReadsMalformed(c) PROVE Base'
  <2>1. /\ malformed' = [malformed EXCEPT ![c] = @ + 1] /\ place[c] = "reading"
        /\ acceptor' = acceptor
        /\ \E to \in {"dropped", "leaving", "top"} :
             Moves(c, to) /\ (to = "top" => malformed'[c] < MalformedPerConn)
    <3>1. /\ malformed' = [malformed EXCEPT ![c] = @ + 1] /\ place[c] = "reading"
          /\ acceptor' = acceptor
      BY <1>7 DEF ReadsMalformed
    <3>2. malformed'[c] \in Nat
      BY <1>a, <3>1
    <3>3. CASE Moves(c, "dropped") \/ Moves(c, "leaving")
      BY <3>1, <3>3
    <3>4. CASE Moves(c, "top") /\ ~TooMany(malformed'[c])
      BY <1>a, <3>1, <3>2, <3>4 DEF TooMany
    <3>5. \/ Moves(c, "dropped") \/ Moves(c, "leaving")
          \/ (Moves(c, "top") /\ ~TooMany(malformed'[c]))
      BY <1>7 DEF ReadsMalformed
    <3> QED BY <3>3, <3>4, <3>5
  <2>2. PICK to \in {"dropped", "leaving", "top"} :
             place' = [place EXCEPT ![c] = to] /\ (to = "top" => malformed'[c] < MalformedPerConn)
    BY <2>1 DEF Moves
  <2>3. /\ place' \in [Conns -> Places]
        /\ \A d \in Conns : place'[d] = IF d = c THEN to ELSE place[d]
    BY <1>a, <2>2 DEF Places, Serving
  <2>4. malformed[c] < MalformedPerConn
    <3>1. malformed[c] # MalformedPerConn
      BY <2>1 DEF Base, Ways
    <3>2. malformed[c] \in 0..MalformedPerConn
      BY <1>a
    <3>3. \A n, m : m \in Nat /\ n \in 0..m /\ n # m => n < m
      OBVIOUS
    <3>4. MalformedPerConn \in Nat
      BY <1>a
    <3> QED BY <3>1, <3>2, <3>3, <3>4
  <2>5. malformed' \in [Conns -> 0..MalformedPerConn]
    BY <1>a, <2>1, <2>4
  <2>6. Ways'
    <3>1. ASSUME NEW d \in Conns, malformed'[d] = MalformedPerConn
          PROVE  place'[d] \in {"dropped", "leaving", "closing"}
      <4>1. CASE d = c
        BY <1>a, <2>2, <2>3, <3>1, <4>1
      <4>2. CASE d # c
        BY <1>a, <2>1, <2>3, <3>1, <4>2 DEF Base, Ways
      <4> QED BY <4>1, <4>2
    <3>2. ASSUME NEW d \in Conns, acceptor' = Admitting(d) PROVE place'[d] = "accepted"
      BY <2>1, <2>3, <3>2 DEF Base, Ways
    <3> QED BY <3>1, <3>2 DEF Ways
  <2>7. /\ inputs' \in 0..MaxInputs /\ oversized' \subseteq Conns
    BY <1>7 DEF ReadsMalformed, Input, Base, Types
  <2>8. stats' \in [IPs -> [valid : Nat, invalid : Nat, malformed : Nat]]
    BY <1>7, <1>a DEF ReadsMalformed
  <2> QED BY <1>7, <2>3, <2>5, <2>6, <2>7, <2>8 DEF ReadsMalformed, Base, Types
<1>8. ASSUME NEW c \in Conns, Ban(c) PROVE Base'
  <2>1. PICK to \in {"leaving", "replying"} :
          Moves(c, to) /\ (place[c] = "banned" \/ to = "leaving")
    BY <1>8 DEF Ban
  <2>2. place[c] # "accepted" /\ (malformed[c] = MalformedPerConn => to = "leaving")
    BY <1>8, <2>1 DEF Ban, Base, Ways
  <2>3. place' \in [Conns -> Places] /\ Ways'
    BY <1>8, <1>m, <2>1, <2>2 DEF Ban, Places, Serving
  <2>4. /\ stats' \in [IPs -> [valid : Nat, invalid : Nat, malformed : Nat]]
        /\ banned' \subseteq IPs
    BY <1>8, <1>a DEF Ban, NoCounts, Base, Types
  <2> QED BY <1>8, <2>3, <2>4 DEF Ban, Base, Types
<1>9. ASSUME NEW c \in Conns, Remove(c) PROVE Base'
  <2>1. place' \in [Conns -> Places] /\ Ways'
    BY <1>9, <1>m DEF Remove, Places, Serving
  <2>2. sessions' \subseteq Conns /\ perIP' \in [IPs -> Int]
    BY <1>9, <1>a DEF Remove, Base, Types
  <2> QED BY <1>9, <2>1, <2>2 DEF Remove, Base, Types
<1>10. ASSUME NEW c \in Conns, Close(c) PROVE Base'
  <2>1. /\ place[c] = "closing" /\ place' = [place EXCEPT ![c] = "none"]
        /\ malformed' = [malformed EXCEPT ![c] = 0] /\ acceptor' = acceptor
    BY <1>10 DEF Close, Moves
  <2>2. /\ place' \in [Conns -> Places] /\ malformed' \in [Conns -> 0..MalformedPerConn]
        /\ \A d \in Conns : place'[d] = IF d = c THEN "none" ELSE place[d]
        /\ \A d \in Conns : malformed'[d] = IF d = c THEN 0 ELSE malformed[d]
    BY <1>a, <2>1 DEF Places
  <2>3. Ways'
    <3>1. ASSUME NEW d \in Conns, malformed'[d] = MalformedPerConn
          PROVE  place'[d] \in {"dropped", "leaving", "closing"}
      BY <1>a, <2>2, <3>1 DEF Base, Ways
    <3>2. ASSUME NEW d \in Conns, acceptor' = Admitting(d) PROVE place'[d] = "accepted"
      BY <2>1, <2>2, <3>2 DEF Base, Ways
    <3> QED BY <3>1, <3>2 DEF Ways
  <2>4. /\ notifying' \in [Notifiers -> SUBSET Conns]
        /\ writing' \in [Notifiers -> SUBSET Conns]
    BY <1>10 DEF Close, Base, Types
  <2> QED BY <1>10, <2>2, <2>3, <2>4 DEF Close, Base, Types
<1>11. CASE CloseListeners
  <2>1. /\ place' \in [Conns -> Places]
        /\ \A d \in Conns : place'[d] = IF place[d] = "backlog" THEN "none" ELSE place[d]
    BY <1>11, <1>a DEF CloseListeners, Places
  <2>2. Ways'
    BY <1>11, <2>1 DEF CloseListeners, Base, Ways
  <2> QED BY <1>11, <2>1, <2>2 DEF CloseListeners, Base, Types
\* The other steps move no connection.
<1>w. ASSUME UNCHANGED <<place, acceptor, malformed>> PROVE Ways'
  BY <1>w DEF Base, Ways
<1>12. ASSUME NEW c \in Conns, MinerHangs(c) \/ MinerReads(c) PROVE Base'
  <2>1. faults' \in 0..MaxFaults
    BY <1>12 DEF MinerHangs, MinerReads, Fault, Base, Types
  <2> QED BY <1>12, <1>w, <2>1 DEF MinerHangs, MinerReads, Base, Types
<1>13. ASSUME NEW n \in Notifiers,
              NotifierStarts(n) \/ NotifierWrites(n) \/ \E c \in Conns : NotifierTurns(n, c)
       PROVE  Base'
  <2>1. /\ notifying' \in [Notifiers -> SUBSET Conns]
        /\ writing' \in [Notifiers -> SUBSET Conns]
    <3>1. CASE NotifierStarts(n) \/ NotifierWrites(n)
      BY <3>1 DEF NotifierStarts, NotifierWrites, Base, Types
    <3>2. ASSUME NEW c \in Conns, NotifierTurns(n, c)
          PROVE  /\ notifying' \in [Notifiers -> SUBSET Conns]
                 /\ writing' \in [Notifiers -> SUBSET Conns]
      BY <3>2 DEF NotifierTurns, Base, Types
    <3> QED BY <1>13, <3>1, <3>2
  <2>2. UNCHANGED <<main, acceptor, place, hung, oversized, malformed, registry, bans, bounds>>
    BY <1>13 DEF NotifierStarts, NotifierWrites, NotifierTurns
  <2> QED BY <1>w, <2>1, <2>2 DEF Base, Types
<1>14. ASSUME NEW ip \in IPs, BanExpires(ip) PROVE Base'
  BY <1>14, <1>w DEF BanExpires, Base, Types
<1>15. CASE VardiffEnds \/ Cancel \/ WaitReturns \/ UNCHANGED vars
  BY <1>15, <1>w DEF VardiffEnds, Cancel, WaitReturns, vars, Base, Types
<1> QED BY <1>1, <1>2, <1>3, <1>4, <1>5, <1>6, <1>7, <1>8, <1>9, <1>10, <1>11, <1>12, <1>13,
           <1>14, <1>15
        DEF Next, AcceptLoop, Handler, Reads

----------------------------------------------------------------------------
(***************************************************************************)
(* The registry.                                                           *)
(***************************************************************************)
\* The sessions are the connections between Manager.Add and Manager.Remove.
LEMMA SessionsStep == Base /\ SessionsAreTrue /\ [Next]_vars => SessionsAreTrue'
<1> SUFFICES ASSUME Base, SessionsAreTrue, [Next]_vars PROVE SessionsAreTrue'
  OBVIOUS
<1> USE DEF main, registry, bans, notifiers, bounds
<1>a. place \in [Conns -> Places] /\ \A c \in Conns : c \in sessions <=> place[c] \in Registered
  BY DEF Base, Types, SessionsAreTrue
\* A step moves a connection within, or outside, of the registry,
<1>m. ASSUME NEW c \in Conns, NEW to, Moves(c, to), sessions' = sessions,
             place[c] \in Registered <=> to \in Registered
      PROVE  SessionsAreTrue'
  <2>1. \A d \in Conns : place'[d] = IF d = c THEN to ELSE place[d]
    BY <1>a, <1>m DEF Moves
  <2> QED BY <1>a, <1>m, <2>1 DEF Base, Types, SessionsAreTrue
\* or none at all.
<1>u. ASSUME UNCHANGED <<place, sessions>> PROVE SessionsAreTrue'
  BY <1>u DEF SessionsAreTrue
<1>1. ASSUME NEW c \in Conns, Dial(c) \/ Refuse(c) \/ Accept(c) \/ Close(c)
      PROVE  SessionsAreTrue'
  <2>1. PICK to \in {"backlog", "none", "accepted"} : Moves(c, to)
    BY <1>1 DEF Dial, Refuse, Accept, Close
  <2>2. place[c] \notin Registered /\ sessions' = sessions
    BY <1>1 DEF Dial, Refuse, Accept, Close, Registered
  <2> QED BY <1>m, <2>1, <2>2 DEF Registered
<1>2. ASSUME NEW c \in Conns, Admit(c) PROVE SessionsAreTrue'
  <2>1. place[c] = "accepted"
    BY <1>2 DEF Admit, Admitting, Base, Ways
  <2>2. CASE AtCap(IPOf[c])
    BY <1>2, <1>m, <2>1, <2>2 DEF Admit, Registered
  <2>3. CASE ~AtCap(IPOf[c])
    <3>1. sessions' = sessions \cup {c} /\ place' = [place EXCEPT ![c] = "top"]
      BY <1>2, <2>3 DEF Admit, Moves
    <3>2. \A d \in Conns : place'[d] = IF d = c THEN "top" ELSE place[d]
      BY <1>a, <3>1
    <3> QED BY <1>a, <3>1, <3>2 DEF Base, Types, SessionsAreTrue, Registered
  <2> QED BY <2>2, <2>3
<1>3. ASSUME NEW c \in Conns, EntersRead(c) \/ Reads(c) \/ Ban(c) \/ Replies(c)
      PROVE  SessionsAreTrue'
  <2>1. \E to \in {"top", "reading", "replying", "banned", "dropped", "leaving"} : Moves(c, to)
    BY <1>3 DEF EntersRead, Reads, ReadFails, ReadsRequest, ReadsShare, ReadsMalformed, Ban, Replies
  <2>2. place[c] \in Registered /\ sessions' = sessions
    BY <1>3 DEF EntersRead, Reads, ReadFails, ReadsRequest, ReadsShare, ReadsMalformed, Ban,
                Replies, Registered
  <2> QED BY <1>m, <2>1, <2>2 DEF Registered
<1>4. ASSUME NEW c \in Conns, Remove(c) PROVE SessionsAreTrue'
  <2>1. sessions' = sessions \ {c} /\ place' = [place EXCEPT ![c] = "closing"]
    BY <1>4 DEF Remove, Moves
  <2>2. \A d \in Conns : place'[d] = IF d = c THEN "closing" ELSE place[d]
    BY <1>a, <2>1
  <2> QED BY <1>a, <2>1, <2>2 DEF Base, Types, SessionsAreTrue, Registered
<1>5. CASE CloseListeners
  <2>1. /\ sessions' = sessions
        /\ place' = [c \in Conns |-> IF place[c] = "backlog" THEN "none" ELSE place[c]]
    BY <1>5 DEF CloseListeners
  <2> QED BY <1>a, <2>1 DEF Base, Types, SessionsAreTrue, Registered
<1>6. ASSUME NEW c \in Conns,
             MinerHangs(c) \/ MinerReads(c) \/ \E n \in Notifiers : NotifierTurns(n, c)
      PROVE  SessionsAreTrue'
  BY <1>6, <1>u DEF MinerHangs, MinerReads, NotifierTurns
<1>7. CASE \/ AcceptFails \/ VardiffEnds \/ Cancel \/ WaitReturns \/ UNCHANGED vars
           \/ \E n \in Notifiers : NotifierStarts(n) \/ NotifierWrites(n)
           \/ \E ip \in IPs : BanExpires(ip)
  BY <1>7, <1>u DEF AcceptFails, VardiffEnds, Cancel, WaitReturns, vars, NotifierStarts,
              NotifierWrites, BanExpires
<1> QED BY <1>1, <1>2, <1>3, <1>4, <1>5, <1>6, <1>7 DEF Next, AcceptLoop, Handler

\* Adding and removing count, below the cap.
LEMMA CountsStep ==
  Base /\ SessionsAreTrue /\ CountsAreTrue /\ [Next]_vars => CountsAreTrue'
<1> SUFFICES ASSUME Base, SessionsAreTrue, CountsAreTrue, [Next]_vars PROVE CountsAreTrue'
  OBVIOUS
<1> USE DEF main, registry, bans, notifiers, bounds
<1>a. \A ip \in IPs : IsFiniteSet(SessionsOf(ip)) /\ Cardinality(SessionsOf(ip)) \in Nat
  <2> SUFFICES ASSUME NEW ip \in IPs
               PROVE  IsFiniteSet(SessionsOf(ip)) /\ Cardinality(SessionsOf(ip)) \in Nat
    OBVIOUS
  <2>1. SessionsOf(ip) \in SUBSET Conns /\ IsFiniteSet(Conns)
    BY ConnectionsAssumption DEF SessionsOf, Base, Types
  <2>2. IsFiniteSet(SessionsOf(ip))
    BY <2>1, FS_Subset
  <2> QED BY <2>2, FS_CardinalityType
<1>b. perIP \in [IPs -> Int] /\ maxConnPerIP \in Nat /\ \A c \in Conns : IPOf[c] \in IPs
  BY ConnectionsAssumption DEF Base, Types
<1>u. ASSUME UNCHANGED registry PROVE CountsAreTrue'
  BY <1>u DEF CountsAreTrue, SessionsOf
<1>1. ASSUME NEW c \in Conns, Admit(c), ~AtCap(IPOf[c]) PROVE CountsAreTrue'
  <2>1. /\ sessions' = sessions \cup {c} /\ maxConnPerIP' = maxConnPerIP
        /\ perIP' = [perIP EXCEPT ![IPOf[c]] = @ + 1]
    BY <1>1 DEF Admit
  <2>2. c \notin sessions
    BY <1>1 DEF Admit, Admitting, Base, Ways, SessionsAreTrue, Registered
  <2> SUFFICES ASSUME NEW ip \in IPs
               PROVE  /\ perIP'[ip] = Cardinality(SessionsOf(ip)')
                      /\ maxConnPerIP' > 0 => perIP'[ip] <= maxConnPerIP'
    BY DEF CountsAreTrue
  <2>3. CASE ip = IPOf[c]
    <3>1. SessionsOf(ip)' = SessionsOf(ip) \cup {c} /\ c \notin SessionsOf(ip)
      BY <2>1, <2>2, <2>3 DEF SessionsOf
    <3>2. Cardinality(SessionsOf(ip)') = Cardinality(SessionsOf(ip)) + 1
      BY <1>a, <3>1, FS_AddElement
    <3>3. perIP'[ip] = perIP[ip] + 1 /\ (maxConnPerIP > 0 => perIP[ip] < maxConnPerIP)
      BY <1>1, <1>b, <2>1, <2>3 DEF AtCap
    <3>4. perIP[ip] = Cardinality(SessionsOf(ip))
      BY DEF CountsAreTrue
    <3> QED BY <1>b, <2>1, <3>2, <3>3, <3>4
  <2>4. CASE ip # IPOf[c]
    <3>1. SessionsOf(ip)' = SessionsOf(ip) /\ perIP'[ip] = perIP[ip]
      BY <1>b, <2>1, <2>4 DEF SessionsOf
    <3> QED BY <2>1, <3>1 DEF CountsAreTrue
  <2> QED BY <2>3, <2>4
<1>2. ASSUME NEW c \in Conns, Remove(c) PROVE CountsAreTrue'
  <2>1. /\ sessions' = sessions \ {c} /\ maxConnPerIP' = maxConnPerIP
        /\ perIP' = [perIP EXCEPT ![IPOf[c]] = @ - 1]
    BY <1>2 DEF Remove
  <2>2. c \in sessions
    BY <1>2 DEF Remove, SessionsAreTrue, Registered
  <2> SUFFICES ASSUME NEW ip \in IPs
               PROVE  /\ perIP'[ip] = Cardinality(SessionsOf(ip)')
                      /\ maxConnPerIP' > 0 => perIP'[ip] <= maxConnPerIP'
    BY DEF CountsAreTrue
  <2>3. CASE ip = IPOf[c]
    <3>1. SessionsOf(ip)' = SessionsOf(ip) \ {c} /\ c \in SessionsOf(ip)
      BY <2>1, <2>2, <2>3 DEF SessionsOf
    <3>2. Cardinality(SessionsOf(ip)') = Cardinality(SessionsOf(ip)) - 1
      BY <1>a, <3>1, FS_RemoveElement
    <3>3. perIP'[ip] = perIP[ip] - 1
      BY <1>b, <2>1, <2>3
    <3>4. perIP[ip] = Cardinality(SessionsOf(ip)) /\ (maxConnPerIP > 0 => perIP[ip] <= maxConnPerIP)
      BY DEF CountsAreTrue
    <3> QED BY <1>b, <2>1, <3>2, <3>3, <3>4
  <2>4. CASE ip # IPOf[c]
    <3>1. SessionsOf(ip)' = SessionsOf(ip) /\ perIP'[ip] = perIP[ip]
      BY <1>b, <2>1, <2>4 DEF SessionsOf
    <3> QED BY <2>1, <3>1 DEF CountsAreTrue
  <2> QED BY <2>3, <2>4
<1>3. ASSUME NEW c \in Conns,
             \/ Dial(c) \/ Refuse(c) \/ Accept(c) \/ (Admit(c) /\ AtCap(IPOf[c])) \/ EntersRead(c)
             \/ Ban(c) \/ Replies(c) \/ Close(c) \/ Reads(c) \/ MinerHangs(c) \/ MinerReads(c)
             \/ \E n \in Notifiers : NotifierTurns(n, c)
      PROVE  CountsAreTrue'
  <2>1. UNCHANGED registry
    BY <1>3 DEF Dial, Refuse, Accept, Admit, EntersRead, Ban, Replies, Close, Reads, ReadFails,
                ReadsRequest, ReadsShare, ReadsMalformed, MinerHangs, MinerReads, NotifierTurns
  <2> QED BY <1>u, <2>1
<1>4. CASE \/ AcceptFails \/ VardiffEnds \/ Cancel \/ CloseListeners \/ WaitReturns
           \/ UNCHANGED vars
           \/ \E n \in Notifiers : NotifierStarts(n) \/ NotifierWrites(n)
           \/ \E ip \in IPs : BanExpires(ip)
  <2>1. UNCHANGED registry
    BY <1>4 DEF AcceptFails, VardiffEnds, Cancel, CloseListeners, WaitReturns, vars,
                NotifierStarts, NotifierWrites, BanExpires
  <2> QED BY <1>u, <2>1
<1> QED BY <1>1, <1>2, <1>3, <1>4 DEF Next, AcceptLoop, Handler

----------------------------------------------------------------------------
(***************************************************************************)
(* The thresholds of the bans.                                             *)
(***************************************************************************)
LEMMA WaitingIsFinite == \A p, ip : IsFiniteSet(Waiting(p, ip))
<1> SUFFICES ASSUME NEW p, NEW ip PROVE IsFiniteSet(Waiting(p, ip))
  OBVIOUS
<1>1. Waiting(p, ip) \in SUBSET Conns /\ IsFiniteSet(Conns)
  BY ConnectionsAssumption DEF Waiting
<1> QED BY <1>1, FS_Subset

\* An address passes a threshold by as many shares, or lines, as it has connections
\* about to ban it; the ban forgets them.
LEMMA ThresholdsStep == Base /\ ThresholdsHold /\ [Next]_vars => ThresholdsHold'
<1> SUFFICES ASSUME Base, ThresholdsHold, [Next]_vars PROVE ThresholdsHold'
  OBVIOUS
<1> USE DEF main, registry, bans, notifiers, bounds
<1>a. /\ place \in [Conns -> Places]
      /\ stats \in [IPs -> [valid : Nat, invalid : Nat, malformed : Nat]]
      /\ CheckThreshold \in Nat \ {0} /\ MalformedThreshold \in Nat \ {0}
      /\ \A c \in Conns : IPOf[c] \in IPs
  BY ConnectionsAssumption DEF Base, Types
<1>f. ASSUME NEW p, NEW ip
      PROVE  Cardinality(Waiting(p, ip)) \in Nat /\ Cardinality(Waiting(p, ip)') \in Nat
  <2>1. /\ Waiting(p, ip) \in SUBSET Conns /\ Waiting(p, ip)' \in SUBSET Conns
        /\ IsFiniteSet(Conns)
    BY ConnectionsAssumption DEF Waiting
  <2>2. IsFiniteSet(Waiting(p, ip)) /\ IsFiniteSet(Waiting(p, ip)')
    BY <2>1, FS_Subset
  <2> QED BY <2>2, FS_CardinalityType
\* A connection that starts to wait,
<1>g. ASSUME NEW c \in Conns, NEW p, Moves(c, p), place[c] # p
      PROVE  Cardinality(Waiting(p, IPOf[c])') = Cardinality(Waiting(p, IPOf[c])) + 1
  <2>1. \A d \in Conns : place'[d] = IF d = c THEN p ELSE place[d]
    BY <1>a, <1>g DEF Moves
  <2>2. /\ Waiting(p, IPOf[c])' = Waiting(p, IPOf[c]) \cup {c}
        /\ c \notin Waiting(p, IPOf[c])
    BY <1>g, <2>1 DEF Waiting
  <2> QED BY <2>2, WaitingIsFinite, FS_AddElement
\* and what a move leaves.
<1>o. ASSUME NEW c \in Conns, NEW to, Moves(c, to), NEW p, NEW ip,
             ip # IPOf[c] \/ p \notin {place[c], to}
      PROVE  Waiting(p, ip)' = Waiting(p, ip)
  <2>1. \A d \in Conns : place'[d] = IF d = c THEN to ELSE place[d]
    BY <1>a, <1>o DEF Moves
  <2> QED BY <1>o, <2>1 DEF Waiting
\* A step that changes the counters of the address of c only.
<1>s. ASSUME NEW c \in Conns, NEW to, Moves(c, to), NEW counts,
             stats' = [stats EXCEPT ![IPOf[c]] = counts],
             counts.valid + counts.invalid
               < CheckThreshold + Cardinality(Waiting("banned", IPOf[c])'),
             counts.malformed < MalformedThreshold + Cardinality(Waiting("dropped", IPOf[c])')
      PROVE  ThresholdsHold'
  <2> SUFFICES ASSUME NEW ip \in IPs
               PROVE  /\ stats'[ip].valid + stats'[ip].invalid
                           < CheckThreshold + Cardinality(Waiting("banned", ip)')
                      /\ stats'[ip].malformed
                           < MalformedThreshold + Cardinality(Waiting("dropped", ip)')
    BY DEF ThresholdsHold
  <2>1. CASE ip = IPOf[c]
    BY <1>a, <1>s, <2>1
  <2>2. CASE ip # IPOf[c]
    <3>1. stats'[ip] = stats[ip]
      BY <1>a, <1>s, <2>2
    <3>2. /\ Waiting("banned", ip)' = Waiting("banned", ip)
          /\ Waiting("dropped", ip)' = Waiting("dropped", ip)
      BY <1>o, <1>s, <2>2
    <3> QED BY <3>1, <3>2 DEF ThresholdsHold
  <2> QED BY <2>1, <2>2
\* Whom a step leaves waiting, it leaves the counters.
<1>u. ASSUME stats' = stats,
             \A ip \in IPs : /\ Waiting("banned", ip)' = Waiting("banned", ip)
                             /\ Waiting("dropped", ip)' = Waiting("dropped", ip)
      PROVE  ThresholdsHold'
  BY <1>u DEF ThresholdsHold
<1>m. ASSUME NEW c \in Conns, NEW to, Moves(c, to), stats' = stats,
             {place[c], to} \cap {"banned", "dropped"} = {}
      PROVE  ThresholdsHold'
  <2>1. \A d \in Conns : place'[d] = IF d = c THEN to ELSE place[d]
    BY <1>a, <1>m DEF Moves
  <2> QED BY <1>m, <1>u, <2>1 DEF Waiting
<1>n. ASSUME stats' = stats, place' = place PROVE ThresholdsHold'
  BY <1>n, <1>u DEF Waiting
<1>1. ASSUME NEW c \in Conns, Dial(c) \/ Refuse(c) \/ Accept(c) \/ Admit(c) \/ EntersRead(c)
               \/ ReadFails(c) \/ ReadsRequest(c) \/ Replies(c) \/ Remove(c) \/ Close(c)
      PROVE  ThresholdsHold'
  <2>1. \E to \in Places \ {"banned", "dropped"} : Moves(c, to)
    BY <1>1 DEF Dial, Refuse, Accept, Admit, EntersRead, ReadFails, ReadsRequest, Replies, Remove,
                Close, Places, Serving
  <2>2. place[c] \notin {"banned", "dropped"} /\ stats' = stats
    BY <1>1 DEF Dial, Refuse, Accept, Admit, Admitting, EntersRead, ReadFails, ReadsRequest,
                Replies, Remove, Close, Base, Ways
  <2> QED BY <1>m, <2>1, <2>2
<1>2. CASE CloseListeners
  <2>1. /\ stats' = stats
        /\ \A d \in Conns : place'[d] = IF place[d] = "backlog" THEN "none" ELSE place[d]
    BY <1>2 DEF CloseListeners
  <2> QED BY <1>u, <2>1 DEF Waiting
\* The counters of the address of c as they are.
<1>b. ASSUME NEW c \in Conns
      PROVE  LET counts == stats[IPOf[c]] IN
             /\ counts \in [valid : Nat, invalid : Nat, malformed : Nat]
             /\ counts.valid + counts.invalid
                  < CheckThreshold + Cardinality(Waiting("banned", IPOf[c]))
             /\ counts.malformed < MalformedThreshold + Cardinality(Waiting("dropped", IPOf[c]))
  BY <1>a DEF ThresholdsHold
<1>3. ASSUME NEW c \in Conns, ReadsShare(c) PROVE ThresholdsHold'
  <2> DEFINE ip == IPOf[c]
             old == stats[ip]
             B == Cardinality(Waiting("banned", ip))
             D == Cardinality(Waiting("dropped", ip))
  <2>1. place[c] = "reading"
    BY <1>3 DEF ReadsShare
  <2>2. PICK counts \in {[old EXCEPT !.valid = @ + 1], [old EXCEPT !.invalid = @ + 1]} :
          \/ Moves(c, "banned") /\ stats' = [stats EXCEPT ![ip] = counts]
          \/ /\ Moves(c, "replying") /\ stats' = [stats EXCEPT ![ip] = counts]
             /\ ~(counts.valid + counts.invalid >= CheckThreshold)
          \/ /\ Moves(c, "replying")
             /\ stats' = [stats EXCEPT ![ip] = [counts EXCEPT !.valid = 0, !.invalid = 0]]
    BY <1>3 DEF ReadsShare
  <2>3. /\ counts \in [valid : Nat, invalid : Nat, malformed : Nat]
        /\ counts.valid + counts.invalid = old.valid + old.invalid + 1
        /\ counts.malformed = old.malformed
    BY <1>b, <2>2
  <2>4. ASSUME NEW to \in {"banned", "replying"}, Moves(c, to)
        PROVE  Waiting("dropped", ip)' = Waiting("dropped", ip)
    BY <1>o, <2>1, <2>4
  <2>5. CASE Moves(c, "banned") /\ stats' = [stats EXCEPT ![ip] = counts]
    <3>1. Cardinality(Waiting("banned", ip)') = B + 1
      BY <1>g, <2>1, <2>5
    <3>2. counts.valid + counts.invalid < CheckThreshold + (B + 1)
      <4>1. old.valid + old.invalid < CheckThreshold + B
        BY <1>b
      <4>2. old.valid \in Nat /\ old.invalid \in Nat /\ B \in Nat
        BY <1>b, <1>f
      <4> QED BY <1>a, <2>3, <4>1, <4>2
    <3>3. counts.malformed < MalformedThreshold + Cardinality(Waiting("dropped", ip)')
      BY <1>b, <2>3, <2>4, <2>5
    <3> QED BY <1>s, <2>5, <3>1, <3>2, <3>3
  <2>6. CASE /\ Moves(c, "replying") /\ stats' = [stats EXCEPT ![ip] = counts]
             /\ ~(counts.valid + counts.invalid >= CheckThreshold)
    <3>1. counts.valid + counts.invalid < CheckThreshold + Cardinality(Waiting("banned", ip)')
      <4>1. Cardinality(Waiting("banned", ip)') \in Nat
        BY <1>f
      <4>2. counts.valid \in Nat /\ counts.invalid \in Nat
        BY <2>3
      <4> QED BY <1>a, <2>6, <4>1, <4>2
    <3>2. counts.malformed < MalformedThreshold + Cardinality(Waiting("dropped", ip)')
      BY <1>b, <2>3, <2>4, <2>6
    <3> QED BY <1>s, <2>6, <3>1, <3>2
  <2>7. CASE /\ Moves(c, "replying")
             /\ stats' = [stats EXCEPT ![ip] = [counts EXCEPT !.valid = 0, !.invalid = 0]]
    <3> DEFINE new == [counts EXCEPT !.valid = 0, !.invalid = 0]
    <3>1. new.valid = 0 /\ new.invalid = 0 /\ new.malformed = counts.malformed
      BY <2>3
    <3>2. Cardinality(Waiting("banned", ip)') \in Nat
      BY <1>f
    <3>3. new.valid + new.invalid < CheckThreshold + Cardinality(Waiting("banned", ip)')
      BY <1>a, <3>1, <3>2
    <3>4. new.malformed < MalformedThreshold + Cardinality(Waiting("dropped", ip)')
      BY <1>b, <2>3, <2>4, <2>7, <3>1
    <3> QED BY <1>s, <2>7, <3>3, <3>4
  <2> QED BY <2>2, <2>5, <2>6, <2>7
<1>4. ASSUME NEW c \in Conns, ReadsMalformed(c) PROVE ThresholdsHold'
  <2> DEFINE ip == IPOf[c]
             old == stats[ip]
             new == [old EXCEPT !.malformed = @ + 1]
             D == Cardinality(Waiting("dropped", ip))
  <2>1. place[c] = "reading" /\ stats' = [stats EXCEPT ![ip] = new]
    BY <1>4 DEF ReadsMalformed
  <2>2. /\ new.valid = old.valid /\ new.invalid = old.invalid
        /\ new.malformed = old.malformed + 1 /\ new.malformed \in Nat
    BY <1>b
  <2>3. stats'[ip] = new
    BY <1>a, <2>1
  <2>4. \/ Moves(c, "dropped")
        \/ (Moves(c, "leaving") \/ Moves(c, "top")) /\ ~(new.malformed >= MalformedThreshold)
    BY <1>4, <2>3 DEF ReadsMalformed
  <2>5. Waiting("banned", ip)' = Waiting("banned", ip)
    BY <1>o, <2>1, <2>4
  <2>6. new.valid + new.invalid < CheckThreshold + Cardinality(Waiting("banned", ip)')
    BY <1>b, <2>2, <2>5
  <2>7. CASE Moves(c, "dropped")
    <3>1. Cardinality(Waiting("dropped", ip)') = D + 1
      BY <1>g, <2>1, <2>7
    <3>2. new.malformed < MalformedThreshold + (D + 1)
      <4>1. old.malformed < MalformedThreshold + D /\ old.malformed \in Nat /\ D \in Nat
        BY <1>b, <1>f
      <4> QED BY <1>a, <2>2, <4>1
    <3> QED BY <1>s, <2>1, <2>6, <2>7, <3>1, <3>2
  <2>8. CASE (Moves(c, "leaving") \/ Moves(c, "top")) /\ ~(new.malformed >= MalformedThreshold)
    <3>1. Cardinality(Waiting("dropped", ip)') \in Nat
      BY <1>f
    <3>2. new.malformed < MalformedThreshold + Cardinality(Waiting("dropped", ip)')
      BY <1>a, <2>2, <2>8, <3>1
    <3> QED BY <1>s, <2>1, <2>6, <2>8, <3>2
  <2> QED BY <2>4, <2>7, <2>8
<1>5. ASSUME NEW c \in Conns, Ban(c) PROVE ThresholdsHold'
  <2>1. stats' = [stats EXCEPT ![IPOf[c]] = NoCounts] /\ \E to \in Places : Moves(c, to)
    BY <1>5 DEF Ban, Places, Serving
  <2>2. NoCounts.valid = 0 /\ NoCounts.invalid = 0 /\ NoCounts.malformed = 0
    BY DEF NoCounts
  <2>3. /\ Cardinality(Waiting("banned", IPOf[c])') \in Nat
        /\ Cardinality(Waiting("dropped", IPOf[c])') \in Nat
    BY <1>f
  <2>4. /\ 0 + 0 < CheckThreshold + Cardinality(Waiting("banned", IPOf[c])')
        /\ 0 < MalformedThreshold + Cardinality(Waiting("dropped", IPOf[c])')
    BY <1>a, <2>3
  <2> QED BY <1>s, <2>1, <2>2, <2>4
<1>6. ASSUME NEW c \in Conns,
             MinerHangs(c) \/ MinerReads(c) \/ \E n \in Notifiers : NotifierTurns(n, c)
      PROVE  ThresholdsHold'
  BY <1>6, <1>n DEF MinerHangs, MinerReads, NotifierTurns
<1>7. CASE \/ AcceptFails \/ VardiffEnds \/ Cancel \/ WaitReturns \/ UNCHANGED vars
           \/ \E n \in Notifiers : NotifierStarts(n) \/ NotifierWrites(n)
           \/ \E ip \in IPs : BanExpires(ip)
  BY <1>7, <1>n DEF AcceptFails, VardiffEnds, Cancel, WaitReturns, vars, NotifierStarts,
              NotifierWrites, BanExpires
<1> QED BY <1>1, <1>2, <1>3, <1>4, <1>5, <1>6, <1>7 DEF Next, AcceptLoop, Handler, Reads

----------------------------------------------------------------------------
(***************************************************************************)
(* The inductive invariant and the theorems.                               *)
(***************************************************************************)
LEMMA Inductive == Spec => []IInv
<1>1. Init => IInv
  <2> SUFFICES ASSUME Init PROVE IInv
    OBVIOUS
  <2>1. Base
    <3>1. Types
      BY ConnectionsAssumption DEF Init, Types, Places, Serving, NoCounts
    <3>2. Ways
      BY ConnectionsAssumption, AcceptorFacts DEF Init, Ways
    <3> QED BY <3>1, <3>2 DEF Base
  <2>2. SessionsAreTrue
    BY DEF Init, SessionsAreTrue, Registered
  <2>3. CountsAreTrue
    <3>1. \A ip \in IPs : SessionsOf(ip) = {} /\ perIP[ip] = 0
      BY DEF Init, SessionsOf
    <3>2. maxConnPerIP \in Nat
      BY ConnectionsAssumption DEF Init
    <3> QED BY <3>1, <3>2, FS_EmptySet DEF CountsAreTrue
  <2>4. ThresholdsHold
    <3> SUFFICES ASSUME NEW ip \in IPs
                 PROVE  /\ stats[ip].valid + stats[ip].invalid
                             < CheckThreshold + Cardinality(Waiting("banned", ip))
                        /\ stats[ip].malformed
                             < MalformedThreshold + Cardinality(Waiting("dropped", ip))
      BY DEF ThresholdsHold
    <3>1. stats[ip].valid = 0 /\ stats[ip].invalid = 0 /\ stats[ip].malformed = 0
      BY DEF Init, NoCounts
    <3>2. /\ Cardinality(Waiting("banned", ip)) \in Nat
          /\ Cardinality(Waiting("dropped", ip)) \in Nat
      BY WaitingIsFinite, FS_CardinalityType
    <3> QED BY <3>1, <3>2, ConnectionsAssumption
  <2> QED BY <2>1, <2>2, <2>3, <2>4 DEF IInv
<1>2. IInv /\ [Next]_vars => IInv'
  BY BaseStep, SessionsStep, CountsStep, ThresholdsStep DEF IInv
<1> QED BY <1>1, <1>2, PTL DEF Spec

\* The types of the server's state, and how far the counters behind a ban can pass
\* their thresholds: by one for each connection of the address.
THEOREM TypeCorrect == Spec => []TypeOK
<1>1. IInv => TypeOK
  <2> SUFFICES ASSUME IInv PROVE TypeOK
    OBVIOUS
  <2>1. Types /\ CountsAreTrue /\ ThresholdsHold
    BY DEF IInv, Base
  <2>2. perIP \in [IPs -> Nat]
    <3>1. ASSUME NEW ip \in IPs PROVE perIP[ip] \in Nat
      <4>1. SessionsOf(ip) \in SUBSET Conns /\ IsFiniteSet(Conns)
        BY <2>1, ConnectionsAssumption DEF SessionsOf, Types
      <4>2. IsFiniteSet(SessionsOf(ip))
        BY <4>1, FS_Subset
      <4>3. Cardinality(SessionsOf(ip)) \in Nat
        BY <4>2, FS_CardinalityType
      <4> QED BY <2>1, <4>3 DEF CountsAreTrue
    <3> QED BY <2>1, <3>1 DEF Types
  <2>3. ASSUME NEW ip \in IPs
        PROVE  /\ stats[ip].valid + stats[ip].invalid < CheckThreshold + CountOf(ip)
               /\ stats[ip].malformed < MalformedThreshold + CountOf(ip)
    <3> DEFINE all == {c \in Conns : IPOf[c] = ip}
    <3>1. IsFiniteSet(all)
      <4>1. all \in SUBSET Conns /\ IsFiniteSet(Conns)
        BY ConnectionsAssumption
      <4> QED BY <4>1, FS_Subset
    <3>2. ASSUME NEW p
          PROVE  /\ Cardinality(Waiting(p, ip)) \in Nat /\ CountOf(ip) \in Nat
                 /\ Cardinality(Waiting(p, ip)) <= CountOf(ip)
      <4>1. Waiting(p, ip) \in SUBSET all
        BY DEF Waiting
      <4>2. Cardinality(Waiting(p, ip)) <= Cardinality(all)
        BY <3>1, <4>1, FS_Subset
      <4>3. Cardinality(Waiting(p, ip)) \in Nat /\ Cardinality(all) \in Nat
        BY <3>1, WaitingIsFinite, FS_CardinalityType
      <4> QED BY <4>2, <4>3 DEF CountOf
    <3>3. /\ stats[ip].valid \in Nat /\ stats[ip].invalid \in Nat /\ stats[ip].malformed \in Nat
          /\ CheckThreshold \in Nat /\ MalformedThreshold \in Nat
      BY <2>1, ConnectionsAssumption DEF Types
    <3>4. stats[ip].valid + stats[ip].invalid < CheckThreshold + CountOf(ip)
      <4>1. stats[ip].valid + stats[ip].invalid
              < CheckThreshold + Cardinality(Waiting("banned", ip))
        BY <2>1 DEF ThresholdsHold
      <4>2. /\ Cardinality(Waiting("banned", ip)) \in Nat /\ CountOf(ip) \in Nat
            /\ Cardinality(Waiting("banned", ip)) <= CountOf(ip)
        BY <3>2
      <4> QED BY <3>3, <4>1, <4>2
    <3>5. stats[ip].malformed < MalformedThreshold + CountOf(ip)
      <4>1. stats[ip].malformed < MalformedThreshold + Cardinality(Waiting("dropped", ip))
        BY <2>1 DEF ThresholdsHold
      <4>2. /\ Cardinality(Waiting("dropped", ip)) \in Nat /\ CountOf(ip) \in Nat
            /\ Cardinality(Waiting("dropped", ip)) <= CountOf(ip)
        BY <3>2
      <4> QED BY <3>3, <4>1, <4>2
    <3> QED BY <3>4, <3>5
  <2> QED BY <2>1, <2>2, <2>3 DEF TypeOK, Types, Places, Ended
<1> QED BY <1>1, Inductive, PTL

\* The registry has each connection that is served, counts those of each address,
\* and keeps to the cap, over accepts, drops, bans and the shutdown.
THEOREM RegistryCorrect == Spec => []RegistryIsTrue
<1>1. IInv => RegistryIsTrue
  <2> SUFFICES ASSUME IInv PROVE RegistryIsTrue
    OBVIOUS
  <2>1. sessions = {c \in Conns : place[c] \in Serving \ {"closing"}}
    <3>1. Serving \ {"closing"} = Registered
      BY DEF Serving, Registered
    <3> QED BY <3>1 DEF IInv, SessionsAreTrue
  <2>2. \A ip \in IPs :
          /\ perIP[ip] = Cardinality({c \in sessions : IPOf[c] = ip})
          /\ maxConnPerIP > 0 => perIP[ip] <= maxConnPerIP
    BY DEF IInv, CountsAreTrue, SessionsOf
  <2> QED BY <2>1, <2>2 DEF RegistryIsTrue
<1> QED BY <1>1, Inductive, PTL
=============================================================================
