---------------------------- MODULE Connections ----------------------------
(***************************************************************************)
(* The connections of one stratum port (internal/stratum/server.go): the   *)
(* accept loop, the session registry with its counts per IP, the bans      *)
(* (internal/bans), the goroutine of each connection, the loops that write *)
(* to all of them (vardiff, and the broadcasts of the pollers), and the    *)
(* shutdown that waits for them.                                           *)
(*                                                                         *)
(* A write has no deadline: it waits while the miner's program does not    *)
(* read.  Responses and notifications to a connection exclude each other.  *)
(* What the requests do is in module Stratum.                              *)
(***************************************************************************)
EXTENDS Naturals, FiniteSets

CONSTANTS
  Conns, IPs,
  IPOf,               \* the IP of each connection
  Notifiers,          \* "vardiff" and the pollers
  Caps,               \* configured values of maxConnPerIP, 0 for no cap
  MalformedPerConn,   \* maxMalformedPerConn
  MalformedThreshold, CheckThreshold, InvalidPercent,  \* of the bans
  MaxInputs, MaxFaults \* bounds on a behaviour

ASSUME ConnectionsAssumption ==
  /\ IsFiniteSet(Conns) /\ IPOf \in [Conns -> IPs]
  /\ "vardiff" \in Notifiers
  /\ Caps \subseteq Nat /\ MalformedPerConn \in Nat \ {0}
  /\ MalformedThreshold \in Nat \ {0} /\ CheckThreshold \in Nat \ {0}
  /\ InvalidPercent \in 1..100
  /\ MaxInputs \in Nat /\ MaxFaults \in Nat

VARIABLES
  server,        \* main: serving, its context cancelled, or Wait has returned
  listening,     \* is the listener open?
  acceptor,      \* the accept loop: at Accept, with a connection, or ended
  place,         \* where each connection is
  hung,          \* connections whose miner does not read
  oversized,     \* connections that sent a line beyond the cap
  malformed,     \* handleConn's count
  sessions, perIP, maxConnPerIP,  \* the session registry
  banned, stats, \* the ban registry
  notifying,     \* the sessions each notifier has still to come to
  writing,       \* the one it is writing to, if any
  vardiffRuns,   \* is the vardiff loop running?
  inputs, faults

registry == <<sessions, perIP, maxConnPerIP>>
bans == <<banned, stats>>
main == <<server, listening, vardiffRuns>>
notifiers == <<notifying, writing>>
bounds == <<inputs, faults>>
vars == <<main, acceptor, place, hung, oversized, malformed, registry, bans, notifiers, bounds>>

Serving == {"top", "reading", "replying", "banned", "dropped", "leaving", "closing"}

AtAccept == [at |-> "accept"]
NoCounts == [valid |-> 0, invalid |-> 0, malformed |-> 0]
CountOf(ip) == Cardinality({c \in Conns : IPOf[c] = ip})

TypeOK ==
  /\ server \in {"serving", "cancelled", "stopped"}
  /\ listening \in BOOLEAN /\ vardiffRuns \in BOOLEAN
  /\ acceptor \in {AtAccept, [at |-> "ended"]} \cup [at : {"admit"}, conn : Conns]
  /\ place \in [Conns -> {"none", "backlog", "accepted"} \cup Serving]
  /\ hung \subseteq Conns /\ oversized \subseteq Conns
  /\ malformed \in [Conns -> 0..MalformedPerConn]
  /\ sessions \subseteq Conns /\ perIP \in [IPs -> Nat] /\ maxConnPerIP \in Caps
  /\ banned \subseteq IPs
  /\ stats \in [IPs -> [valid : Nat, invalid : Nat, malformed : Nat]]
  /\ \A ip \in IPs :
       /\ stats[ip].valid + stats[ip].invalid < CheckThreshold + CountOf(ip)
       /\ stats[ip].malformed < MalformedThreshold + CountOf(ip)
  /\ notifying \in [Notifiers -> SUBSET Conns] /\ writing \in [Notifiers -> SUBSET Conns]
  /\ inputs \in 0..MaxInputs /\ faults \in 0..MaxFaults

Init ==
  /\ server = "serving" /\ listening = TRUE /\ vardiffRuns = TRUE
  /\ acceptor = AtAccept
  /\ place = [c \in Conns |-> "none"]
  /\ hung = {} /\ oversized = {}
  /\ malformed = [c \in Conns |-> 0]
  /\ sessions = {} /\ perIP = [ip \in IPs |-> 0] /\ maxConnPerIP \in Caps
  /\ banned = {} /\ stats = [ip \in IPs |-> NoCounts]
  /\ notifying = [n \in Notifiers |-> {}] /\ writing = [n \in Notifiers |-> {}]
  /\ inputs = 0 /\ faults = 0

Fault == faults < MaxFaults /\ faults' = faults + 1
Input == inputs < MaxInputs /\ inputs' = inputs + 1
Moves(c, to) == place' = [place EXCEPT ![c] = to]

------------------------------------------------------------------------------
(* The accept loop. *)

\* A miner connects: the kernel has the connection until it is accepted.
Dial(c) ==
  /\ place[c] = "none" /\ listening /\ Input
  /\ Moves(c, "backlog")
  /\ UNCHANGED <<main, acceptor, hung, oversized, malformed, registry, bans, notifiers, faults>>

\* An accepted connection of a banned IP, or of a pool that is disabled, is
\* closed.
Refuse(c) ==
  /\ acceptor = AtAccept /\ place[c] = "backlog"
  /\ Moves(c, "none")
  /\ UNCHANGED <<main, acceptor, hung, oversized, malformed, registry, bans, notifiers, bounds>>

Accept(c) ==
  /\ acceptor = AtAccept /\ place[c] = "backlog" /\ IPOf[c] \notin banned
  /\ Moves(c, "accepted")
  /\ acceptor' = [at |-> "admit", conn |-> c]
  /\ UNCHANGED <<main, hung, oversized, malformed, registry, bans, notifiers, bounds>>

AtCap(ip) == maxConnPerIP > 0 /\ perIP[ip] >= maxConnPerIP

\* Manager.Add, and the connection's goroutine.
Admit(c) ==
  /\ acceptor = [at |-> "admit", conn |-> c]
  /\ acceptor' = AtAccept
  /\ IF AtCap(IPOf[c])
       THEN Moves(c, "none") /\ UNCHANGED registry
       ELSE /\ Moves(c, "top")
            /\ sessions' = sessions \cup {c}
            /\ perIP' = [perIP EXCEPT ![IPOf[c]] = @ + 1]
            /\ UNCHANGED maxConnPerIP
  /\ UNCHANGED <<main, hung, oversized, malformed, bans, notifiers, bounds>>

\* Mutant: every error is taken for a timeout.
AcceptFailsAndGoesOn ==
  /\ acceptor = AtAccept
  /\ Fault
  /\ UNCHANGED <<main, acceptor, place, hung, oversized, malformed, registry, bans, notifiers,
                 inputs>>

\* Accept returns an error: the listener is closed, or out of descriptors.
AcceptFails ==
  /\ acceptor = AtAccept
  /\ \/ ~listening /\ UNCHANGED faults
     \/ Fault
  /\ acceptor' = [at |-> "ended"]
  /\ UNCHANGED <<main, place, hung, oversized, malformed, registry, bans, notifiers, inputs>>

------------------------------------------------------------------------------
(* handleConn. *)

EntersRead(c) ==
  /\ place[c] = "top"
  /\ Moves(c, IF server = "serving" THEN "reading" ELSE "leaving")
  /\ UNCHANGED <<main, acceptor, hung, oversized, malformed, registry, bans, notifiers, bounds>>

\* The stream ends, an error, or the read deadline.
ReadFails(c) ==
  /\ place[c] = "reading"
  /\ Moves(c, "leaving")
  /\ UNCHANGED <<main, acceptor, hung, oversized, malformed, registry, bans, notifiers, bounds>>

\* A line that is empty, or a request other than a share.
ReadsRequest(c) ==
  /\ place[c] = "reading" /\ c \notin oversized /\ Input
  /\ \E to \in {"top", "replying"} : Moves(c, to)
  /\ UNCHANGED <<main, acceptor, hung, oversized, malformed, registry, bans, notifiers, faults>>

\* RecordShare: once CheckThreshold shares are there, the ratio decides; a clean
\* window is forgotten.  The ban itself takes the lock anew.
ReadsShare(c) ==
  /\ place[c] = "reading" /\ c \notin oversized /\ Input
  /\ LET ip == IPOf[c] IN
     \E counts \in {[stats[ip] EXCEPT !.valid = @ + 1], [stats[ip] EXCEPT !.invalid = @ + 1]} :
       LET total == counts.valid + counts.invalid
           bad == counts.invalid * 100 >= InvalidPercent * total IN
         IF total >= CheckThreshold /\ bad
           THEN Moves(c, "banned") /\ stats' = [stats EXCEPT ![ip] = counts]
           ELSE /\ Moves(c, "replying")
                /\ stats' = [stats EXCEPT ![ip] =
                     IF total >= CheckThreshold
                       THEN [counts EXCEPT !.valid = 0, !.invalid = 0] ELSE counts]
  /\ UNCHANGED <<main, acceptor, hung, oversized, malformed, registry, banned, notifiers, faults>>

\* Mutant: one malformed line more.
TooManyOrOne(n) == n > MalformedPerConn
TooMany(n) == n >= MalformedPerConn

\* A malformed or oversized line.  The scanner stays at an oversized line: every
\* further read fails the same way, whatever the miner sends.
ReadsMalformed(c) ==
  /\ place[c] = "reading"
  /\ \/ c \in oversized /\ UNCHANGED <<oversized, inputs>>
     \/ Input /\ oversized' \in {oversized, oversized \cup {c}}
  /\ malformed' = [malformed EXCEPT ![c] = @ + 1]
  /\ stats' = [stats EXCEPT ![IPOf[c]].malformed = @ + 1]
  /\ Moves(c, IF stats'[IPOf[c]].malformed >= MalformedThreshold THEN "dropped"
              ELSE IF TooMany(malformed'[c]) THEN "leaving" ELSE "top")
  /\ UNCHANGED <<main, acceptor, hung, registry, banned, notifiers, faults>>

\* Manager.Ban.  Only a malformed flood ends the connection.
Ban(c) ==
  /\ place[c] \in {"banned", "dropped"}
  /\ banned' = banned \cup {IPOf[c]}
  /\ stats' = [stats EXCEPT ![IPOf[c]] = NoCounts]
  /\ Moves(c, IF place[c] = "dropped" THEN "leaving" ELSE "replying")
  /\ UNCHANGED <<main, acceptor, hung, oversized, malformed, registry, notifiers, bounds>>

BanExpires(ip) ==
  /\ ip \in banned
  /\ banned' = banned \ {ip}
  /\ UNCHANGED <<main, acceptor, place, hung, oversized, malformed, registry, stats, notifiers,
                 bounds>>

\* The response is written, or the write fails.
Replies(c) ==
  /\ place[c] = "replying" /\ c \notin hung
  /\ \E to \in {"top", "leaving"} : Moves(c, to)
  /\ UNCHANGED <<main, acceptor, hung, oversized, malformed, registry, bans, notifiers, bounds>>

\* Mutant: the count of the IP is left.
RemoveKeepsCount(c) ==
  /\ place[c] = "leaving"
  /\ Moves(c, "closing")
  /\ sessions' = sessions \ {c}
  /\ UNCHANGED <<main, acceptor, hung, oversized, malformed, perIP, maxConnPerIP, bans,
                 notifiers, bounds>>

\* The deferred Manager.Remove,
Remove(c) ==
  /\ place[c] = "leaving"
  /\ Moves(c, "closing")
  /\ sessions' = sessions \ {c}
  /\ perIP' = [perIP EXCEPT ![IPOf[c]] = @ - 1]
  /\ UNCHANGED <<main, acceptor, hung, oversized, malformed, maxConnPerIP, bans, notifiers, bounds>>

\* and Close.  A notifier's write to the connection fails from now on.
Close(c) ==
  /\ place[c] = "closing"
  /\ Moves(c, "none")
  /\ hung' = hung \ {c} /\ oversized' = oversized \ {c}
  /\ malformed' = [malformed EXCEPT ![c] = 0]
  /\ notifying' = [n \in Notifiers |-> notifying[n] \ {c}]
  /\ writing' = [n \in Notifiers |-> writing[n] \ {c}]
  /\ UNCHANGED <<main, acceptor, registry, bans, bounds>>

\* A miner's program stops reading, and goes on.
MinerHangs(c) ==
  /\ place[c] \in Serving /\ c \notin hung /\ Fault
  /\ hung' = hung \cup {c}
  /\ UNCHANGED <<main, acceptor, place, oversized, malformed, registry, bans, notifiers, inputs>>

MinerReads(c) ==
  /\ c \in hung
  /\ hung' = hung \ {c}
  /\ UNCHANGED <<main, acceptor, place, oversized, malformed, registry, bans, notifiers, bounds>>

------------------------------------------------------------------------------
(* The notifiers, and the shutdown. *)

\* A broadcast or a round of vardiff takes a copy of the sessions,
NotifierStarts(n) ==
  /\ notifying[n] = {} /\ writing[n] = {} /\ sessions # {} /\ server # "stopped"
  /\ n = "vardiff" => vardiffRuns
  /\ notifying' = [notifying EXCEPT ![n] = sessions]
  /\ UNCHANGED <<main, acceptor, place, hung, oversized, malformed, registry, bans, writing,
                 bounds>>

\* comes to them one after the other, in the order of a Go map, and has something
\* to write or not;
NotifierTurns(n, c) ==
  /\ writing[n] = {} /\ c \in notifying[n]
  /\ notifying' = [notifying EXCEPT ![n] = @ \ {c}]
  /\ \E to \in {{}, {c}} : writing' = [writing EXCEPT ![n] = to]
  /\ UNCHANGED <<main, acceptor, place, hung, oversized, malformed, registry, bans, bounds>>

\* the next has to wait until the miner reads.
NotifierWrites(n) ==
  /\ writing[n] # {} /\ writing[n] \cap hung = {}
  /\ writing' = [writing EXCEPT ![n] = {}]
  /\ UNCHANGED <<main, acceptor, place, hung, oversized, malformed, registry, bans, notifying,
                 bounds>>

VardiffEnds ==
  /\ server = "cancelled" /\ vardiffRuns
  /\ notifying["vardiff"] = {} /\ writing["vardiff"] = {}
  /\ vardiffRuns' = FALSE
  /\ UNCHANGED <<server, listening, acceptor, place, hung, oversized, malformed, registry, bans,
                 notifiers, bounds>>

\* The signal.
Cancel ==
  /\ server = "serving"
  /\ server' = "cancelled"
  /\ UNCHANGED <<listening, vardiffRuns, acceptor, place, hung, oversized, malformed, registry,
                 bans, notifiers, bounds>>

\* closeListeners.  Connections that were not accepted are reset.
CloseListeners ==
  /\ server # "serving" /\ listening
  /\ listening' = FALSE
  /\ place' = [c \in Conns |-> IF place[c] = "backlog" THEN "none" ELSE place[c]]
  /\ UNCHANGED <<server, vardiffRuns, acceptor, hung, oversized, malformed, registry, bans,
                 notifiers, bounds>>

\* Wait returns when the accept loop, vardiff and the connections are done.
WaitReturns ==
  /\ server = "cancelled" /\ ~vardiffRuns
  /\ acceptor = [at |-> "ended"]
  /\ \A c \in Conns : place[c] \notin Serving
  /\ server' = "stopped"
  /\ UNCHANGED <<listening, vardiffRuns, acceptor, place, hung, oversized, malformed, registry,
                 bans, notifiers, bounds>>

------------------------------------------------------------------------------
Handler(c) == EntersRead(c) \/ Ban(c) \/ Replies(c) \/ Remove(c) \/ Close(c)
Reads(c) == ReadFails(c) \/ ReadsRequest(c) \/ ReadsShare(c) \/ ReadsMalformed(c)
AcceptLoop == AcceptFails \/ \E c \in Conns : Refuse(c) \/ Accept(c) \/ Admit(c)

Next ==
  \/ AcceptLoop
  \/ \E c \in Conns :
       \/ Dial(c) \/ Handler(c) \/ Reads(c) \/ MinerHangs(c) \/ MinerReads(c)
       \/ \E n \in Notifiers : NotifierTurns(n, c)
  \/ \E n \in Notifiers : NotifierStarts(n) \/ NotifierWrites(n)
  \/ \E ip \in IPs : BanExpires(ip)
  \/ VardiffEnds \/ Cancel \/ CloseListeners \/ WaitReturns

Spec == Init /\ [][Next]_vars

\* Every goroutine goes on when it can.  A read ends at its deadline at the
\* latest; a vardiff loop that finds its tick and the end of its context both
\* due takes the latter sooner or later.
Fairness ==
  /\ \A c \in Conns : WF_vars(Handler(c) \/ Reads(c))
  /\ \A n \in Notifiers : WF_vars(NotifierWrites(n) \/ \E c \in Conns : NotifierTurns(n, c))
  /\ WF_vars((AcceptFails /\ ~listening) \/ \E c \in Conns : Admit(c))
  /\ SF_vars(VardiffEnds) /\ WF_vars(CloseListeners) /\ WF_vars(WaitReturns)

FairSpec == Spec /\ Fairness

------------------------------------------------------------------------------
\* The registry counts the sessions of each IP, never more than the cap, and has
\* each connection that is served, whatever accepts, drops, bans and the shutdown
\* interleave.
RegistryIsTrue ==
  /\ sessions = {c \in Conns : place[c] \in Serving \ {"closing"}}
  /\ \A ip \in IPs :
       /\ perIP[ip] = Cardinality({c \in sessions : IPOf[c] = ip})
       /\ maxConnPerIP > 0 => perIP[ip] <= maxConnPerIP

\* "Graceful shutdown: stop accepting, then tear down pools": after the signal
\* Wait returns, if no miner stops reading for ever.
ShutdownEnds ==
  <>[](hung = {}) => <>[](server # "cancelled")
=============================================================================
