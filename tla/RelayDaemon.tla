----------------------------- MODULE RelayDaemon -----------------------------
(***************************************************************************)
(* The origin-relay daemon and its operator (bin/relay_main.rs): the       *)
(* eviction set lives in eviction.bin, which `serve` loads once and writes *)
(* back every minute and at shutdown, and which the `evict` and `pardon`   *)
(* commands load, change and save in processes of their own. A connecting  *)
(* agent passes the flood gate of its address (gate.rs), authenticates and *)
(* is registered unless evicted (relay.rs).                                *)
(***************************************************************************)
EXTENDS Integers, FiniteSets, Sequences

CONSTANTS
    Agents,     \* fingerprints
    Admins,     \* processes running evict or pardon
    Capacity,   \* TokenBucket capacity
    Refill,     \* ticks per token
    LastDTick,  \* bound on the clock
    MaxAttempts,\* bound on connection attempts
    MaxOrders   \* bound on evict and pardon commands

ASSUME GateAssumption == Capacity \in Nat /\ Refill \in Nat \ {0}

VARIABLES
    evictionFile,   \* eviction.bin
    daemon,         \* the serving process: up, and its eviction set
    admin,          \* per admin process: its command and the set it loaded
    registered,     \* agents online
    bucket,         \* tokens and time of the last refill, for one address
    dtick,          \* the daemon's clock
    admits,         \* the times at which the gate admitted an attempt
    attempts, orders,
    banned,         \* agents evicted by a command and not pardoned since
    contended       \* a command ran while the daemon or another command did

daemonVars == <<evictionFile, daemon, admin, registered, bucket, dtick,
                admits, attempts, orders, banned, contended>>

NoAdmin == [cmd |-> "none", who |-> "none", set |-> {}]
Down == [up |-> FALSE, evicted |-> {}]

\* The daemon keeps one bucket per address; it is full for a new address.
DaemonInit ==
    /\ evictionFile = {} /\ daemon = Down
    /\ admin = [a \in Admins |-> NoAdmin]
    /\ registered = {}
    /\ bucket = [tokens |-> Capacity, last |-> 0] /\ dtick = 0
    /\ admits = <<>> /\ attempts = 0 /\ orders = 0
    /\ banned = {} /\ contended = FALSE

(***************************************************************************)
(* The daemon.                                                             *)
(***************************************************************************)

\* serve: the eviction set is read once; state and buckets start afresh.
Serve ==
    /\ ~ daemon.up
    /\ daemon' = [up |-> TRUE, evicted |-> evictionFile]
    /\ registered' = {}
    /\ bucket' = [tokens |-> Capacity, last |-> dtick]
    /\ admits' = <<>>
    /\ contended' = (contended \/ \E a \in Admins : admin[a] # NoAdmin)
    /\ UNCHANGED <<evictionFile, admin, dtick, attempts, orders, banned>>

\* The periodic save, every minute.
PersistTick ==
    /\ daemon.up
    /\ evictionFile' = daemon.evicted
    /\ UNCHANGED <<daemon, admin, registered, bucket, dtick, admits,
                   attempts, orders, banned, contended>>

\* SIGTERM or SIGINT: a last save.
ShutDown ==
    /\ daemon.up
    /\ evictionFile' = daemon.evicted
    /\ daemon' = Down /\ registered' = {}
    /\ UNCHANGED <<admin, bucket, dtick, admits, attempts, orders, banned, contended>>

Killed ==
    /\ daemon.up
    /\ daemon' = Down /\ registered' = {}
    /\ UNCHANGED <<evictionFile, admin, bucket, dtick, admits, attempts, orders,
                   banned, contended>>

(***************************************************************************)
(* The operator's commands.                                                *)
(***************************************************************************)

\* Mutant of AdminLoads: the command starts from an empty set.
AdminStartsEmpty(a, cmd, fp) ==
    /\ admin[a] = NoAdmin /\ orders < MaxOrders
    /\ orders' = orders + 1
    /\ admin' = [admin EXCEPT ![a] = [cmd |-> cmd, who |-> fp, set |-> {}]]
    /\ contended' = (contended \/ daemon.up \/ \E b \in Admins \ {a} : admin[b] # NoAdmin)
    /\ UNCHANGED <<evictionFile, daemon, registered, bucket, dtick, admits, attempts, banned>>

\* EvictionSet::load
AdminLoads(a, cmd, fp) ==
    /\ admin[a] = NoAdmin /\ orders < MaxOrders
    /\ orders' = orders + 1
    /\ admin' = [admin EXCEPT ![a] = [cmd |-> cmd, who |-> fp, set |-> evictionFile]]
    /\ contended' = (contended \/ daemon.up \/ \E b \in Admins \ {a} : admin[b] # NoAdmin)
    /\ UNCHANGED <<evictionFile, daemon, registered, bucket, dtick, admits, attempts, banned>>

\* revoke or pardon, then EvictionSet::save: an atomic write of the whole set.
AdminSaves(a) ==
    LET c == admin[a]
        with(S) == IF c.cmd = "evict" THEN S \cup {c.who} ELSE S \ {c.who}
    IN  /\ c # NoAdmin
        /\ evictionFile' = with(c.set)
        /\ banned' = with(banned)
        /\ admin' = [admin EXCEPT ![a] = NoAdmin]
        /\ UNCHANGED <<daemon, registered, bucket, dtick, admits, attempts, orders, contended>>

AdminDies(a) ==
    /\ admin[a] # NoAdmin
    /\ admin' = [admin EXCEPT ![a] = NoAdmin]
    /\ UNCHANGED <<evictionFile, daemon, registered, bucket, dtick, admits,
                   attempts, orders, banned, contended>>

(***************************************************************************)
(* A connection: flood gate, authentication, registration.                 *)
(***************************************************************************)

\* TokenBucket::allow, refill.
Refilled ==
    LET due == (dtick - bucket.last) \div Refill
    IN  IF due > 0
        THEN [tokens |-> IF bucket.tokens + due > Capacity THEN Capacity
                         ELSE bucket.tokens + due,
              last |-> dtick]
        ELSE bucket

\* handle_connection; the attempt counts whatever becomes of it. An agent that
\* is not evicted may still fail to authenticate.
Connect(fp) ==
    /\ daemon.up /\ attempts < MaxAttempts
    /\ attempts' = attempts + 1
    /\ IF Refilled.tokens > 0
       THEN /\ bucket' = [Refilled EXCEPT !.tokens = @ - 1]
            /\ admits' = Append(admits, dtick)
            /\ \/ fp \notin daemon.evicted /\ registered' = registered \cup {fp}
               \/ UNCHANGED registered
       ELSE /\ bucket' = Refilled
            /\ UNCHANGED <<admits, registered>>
    /\ UNCHANGED <<evictionFile, daemon, admin, dtick, orders, banned, contended>>

LeaveRelay(fp) ==
    /\ fp \in registered
    /\ registered' = registered \ {fp}
    /\ UNCHANGED <<evictionFile, daemon, admin, bucket, dtick, admits,
                   attempts, orders, banned, contended>>

DTick ==
    /\ dtick < LastDTick /\ dtick' = dtick + 1
    /\ UNCHANGED <<evictionFile, daemon, admin, registered, bucket, admits,
                   attempts, orders, banned, contended>>

DaemonNext ==
    \/ Serve \/ PersistTick \/ ShutDown \/ Killed \/ DTick
    \/ \E a \in Admins : \/ \E fp \in Agents, cmd \in {"evict", "pardon"} : AdminLoads(a, cmd, fp)
                         \/ AdminSaves(a)
                         \/ AdminDies(a)
    \/ \E fp \in Agents : Connect(fp) \/ LeaveRelay(fp)

DaemonSpec == DaemonInit /\ [][DaemonNext]_daemonVars

(***************************************************************************)
(* Properties.                                                             *)
(***************************************************************************)

\* As long as every evict and pardon runs alone, with the daemon stopped, an
\* evicted agent stays in the file through restarts, crashes, the periodic
\* save and other commands, and is never registered (relay.rs:376-377). Beside
\* a running daemon this is lost: the daemon never reloads the file and its
\* next save writes its own older set (relay_main.rs:296).
BansHold ==
    ~ contended => banned \subseteq evictionFile /\ registered \cap banned = {}

\* The flood gate: between any two of the attempts it admitted from an
\* address lie at most the capacity and one token per refill period of the
\* time between them, and one for the period already begun (gate.rs:140-159).
FloodBounded ==
    \A i, j \in DOMAIN admits :
        i <= j => j - i + 1 <= Capacity + (admits[j] - admits[i]) \div Refill + 1

\* The relay's two gates hold: who was evicted stays out, and a flood from one
\* address is bounded, through restarts, crashes and saves.
AdmissionHolds == BansHold /\ FloodBounded
=============================================================================
