----------------------------- MODULE RateWindow -----------------------------
(* The two sliding windows a log-in passes: first the one of requests per  *)
(* client and path (the middleware of main.py, on the event loop), then,   *)
(* in a thread of the pool, the one of log-ins per account                 *)
(* (auth_routes.py).  A log-in reads the clock before it takes the lock of *)
(* its window, so that two of them may note their times out of order.      *)
EXTENDS Integers, Sequences, FiniteSets, Functions, TLC

CONSTANTS Clients,                    \* keys of the first window: host and path of the log-in
          Accounts,                   \* keys of the second: user names, normalised
          Attempts,                   \* log-ins that may be under way together
          RequestLimit, LoginLimit,   \* the settings, at least 1
          Minute,                     \* sixty seconds, in ticks of the model
          MaxKeys,                    \* ten thousand accounts
          MaxTime                     \* bound on the clock

ASSUME WindowAssumption ==
    /\ RequestLimit \in Nat \ {0} /\ LoginLimit \in Nat \ {0}
    /\ Minute \in Nat \ {0} /\ MaxKeys \in Nat /\ MaxTime \in Nat
    /\ IsFiniteSet(Accounts)

VARIABLES clock,                      \* time.monotonic()
          requests,                   \* _rate_events, client -> times, oldest first
          logins,                     \* _login_events, for the accounts it has a deque for
          pending,                    \* log-ins in the pool, with the time they have read
          passed,                     \* history: client -> when its requests were let through
          admitted,                   \* history: account -> its log-ins that were let through
          refused                     \* what the last step refused, if anything

windowVars == <<clock, requests, logins, pending, passed, admitted, refused>>

Unread == -1                          \* the log-in has not yet looked at the clock

WindowInit ==
    /\ clock = 0
    /\ requests = [c \in Clients |-> <<>>]
    /\ logins = [a \in {} |-> <<>>]
    /\ pending = {}
    /\ passed = [c \in Clients |-> <<>>]
    /\ admitted = [a \in Accounts |-> <<>>]
    /\ refused = {}

-----------------------------------------------------------------------------
\* Faulty variant: the edge of the minute is out.
FirstKeptStrict(events, from) ==
    CHOOSE n \in 1 .. Len(events) + 1 :
        /\ n > Len(events) \/ events[n] > from
        /\ \A i \in 1 .. n - 1 : events[i] <= from

\* The first event, from the front, that is not too old.
FirstKept(events, from) ==
    CHOOSE n \in 1 .. Len(events) + 1 :
        /\ n > Len(events) \/ events[n] >= from
        /\ \A i \in 1 .. n - 1 : events[i] < from

\* The events that the loop of popleft leaves.
Recent(events, now) == SubSeq(events, FirstKept(events, now - Minute), Len(events))

\* _login_events[key], which makes an empty deque for a new key.
EventsOf(account) == IF account \in DOMAIN logins THEN logins[account] ELSE <<>>

Put(remembered, key, events) ==
    [k \in DOMAIN remembered \cup {key} |-> IF k = key THEN events ELSE remembered[k]]

\* Accounts to forget: by their first time, whatever came after it.
Stale(remembered, now) == {k \in DOMAIN remembered :
    remembered[k] = <<>> \/ remembered[k][1] < now - Minute}

Prune(remembered, now) ==
    IF Cardinality(DOMAIN remembered) > MaxKeys
    THEN Restrict(remembered, DOMAIN remembered \ Stale(remembered, now)) ELSE remembered

-----------------------------------------------------------------------------
Tick ==
    /\ clock < MaxTime
    /\ clock' = clock + 1
    /\ refused' = {}
    /\ UNCHANGED <<requests, logins, pending, passed, admitted>>

\* _rate_allowed lets a request through: it goes on to log in, or it fails on
\* its way there (a body that does not parse).
Request(client) ==
    LET events == Recent(requests[client], clock)
    IN  /\ Len(events) < RequestLimit
        /\ requests' = [requests EXCEPT ![client] = Append(events, clock)]
        /\ passed' = [passed EXCEPT ![client] = Append(@, clock)]
        /\ \/ UNCHANGED pending
           \/ \E id \in Attempts \ {p.id : p \in pending}, account \in Accounts :
                 pending' = pending \cup {[id |-> id, account |-> account, at |-> Unread]}
        /\ refused' = {}
        /\ UNCHANGED <<clock, logins, admitted>>

RequestRefused(client) ==
    LET events == Recent(requests[client], clock)
    IN  /\ Len(events) >= RequestLimit
        /\ requests' = [requests EXCEPT ![client] = events]
        /\ refused' = {[window |-> "requests", key |-> client, at |-> clock]}
        /\ UNCHANGED <<clock, logins, pending, passed, admitted>>

\* _login_allowed, up to its lock.
LookAtClock(p) ==
    /\ p.at = Unread
    /\ pending' = (pending \ {p}) \cup {[p EXCEPT !.at = clock]}
    /\ refused' = {}
    /\ UNCHANGED <<clock, requests, logins, passed, admitted>>

\* _login_allowed under its lock.  With too many accounts the stale ones go,
\* its own among them: then its new time is noted nowhere.
Login(p) ==
    LET events == Recent(EventsOf(p.account), p.at)
        kept == Prune(Put(logins, p.account, events), p.at)
    IN  /\ p.at # Unread
        /\ Len(events) < LoginLimit
        /\ logins' = IF p.account \in DOMAIN kept
                     THEN [kept EXCEPT ![p.account] = Append(events, p.at)] ELSE kept
        /\ pending' = pending \ {p}
        /\ admitted' = [admitted EXCEPT ![p.account] = Append(@, [at |-> p.at, when |-> clock])]
        /\ refused' = {}
        /\ UNCHANGED <<clock, requests, passed>>

LoginRefused(p) ==
    LET events == Recent(EventsOf(p.account), p.at)
    IN  /\ p.at # Unread
        /\ Len(events) >= LoginLimit
        /\ logins' = Prune(Put(logins, p.account, events), p.at)
        /\ pending' = pending \ {p}
        /\ refused' = {[window |-> "logins", key |-> p.account, at |-> p.at]}
        /\ UNCHANGED <<clock, requests, passed, admitted>>

WindowNext ==
    \/ Tick
    \/ \E client \in Clients : Request(client) \/ RequestRefused(client)
    \/ \E p \in pending : LookAtClock(p) \/ Login(p) \/ LoginRefused(p)

WindowSpec == WindowInit /\ [][WindowNext]_windowVars

-----------------------------------------------------------------------------
\* Of the requests of a client that are let through, any RequestLimit + 1 in a
\* row take more than a minute.
RequestsLimited ==
    \A client \in Clients : \A i \in DOMAIN passed[client] :
        i > RequestLimit => passed[client][i] > passed[client][i - RequestLimit] + Minute

\* As long as no more than MaxKeys accounts were tried, any LoginLimit + 1
\* log-ins in a row that an account is let through take more than a minute, from
\* when the first has read the clock to when the last is let in.
LoginsLimited ==
    Cardinality({a \in Accounts : admitted[a] # <<>>}) <= MaxKeys =>
        \A account \in Accounts : \A i \in DOMAIN admitted[account] :
            i > LoginLimit => admitted[account][i].when > admitted[account][i - LoginLimit].at + Minute

\* Whoever is refused has been let through as often as the limit allows in the
\* closed minute before, in whatever order the threads took the lock and whatever
\* was forgotten: nobody is locked out for longer.
RefusedForCause ==
    \A r \in refused :
        LET limit == IF r.window = "requests" THEN RequestLimit ELSE LoginLimit
            times == IF r.window = "requests" THEN passed[r.key]
                     ELSE [i \in DOMAIN admitted[r.key] |-> admitted[r.key][i].when]
        IN  /\ Len(times) >= limit
            /\ \A i \in Len(times) - limit + 1 .. Len(times) : times[i] >= r.at - Minute

\* The two sliding windows keep their limits and refuse nobody without cause
\* (_rate_allowed, _login_allowed).
WindowHolds == RequestsLimited /\ LoginsLimited /\ RefusedForCause
=============================================================================
