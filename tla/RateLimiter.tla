----------------------------- MODULE RateLimiter ------------------------------
(***************************************************************************)
(* core/security.py RateLimiter: how many requests of one client are       *)
(* served within a window.                                                 *)
(*                                                                         *)
(* allow reads the clock before it takes the lock, and the endpoints'      *)
(* check runs on a pool of threads: a request may take the lock after one  *)
(* that read a later time, and the deque of a client is then not in order. *)
(* MaxLag bounds how long a thread takes from the clock to the lock.       *)
(*                                                                         *)
(* rate_limit can also make a limiter of an endpoint's own (security.py    *)
(* 114 to 118); no endpoint asks for one, and it is left out.              *)
(***************************************************************************)
EXTENDS Integers, Sequences, FiniteSets

CONSTANTS Threads,     \* of the pool
          Clients,     \* the addresses requests come from
          MaxRequests, \* RATE_LIMIT_MAX_REQUESTS
          Window,      \* RATE_LIMIT_WINDOW_SECONDS
          MaxLag,      \* ticks from the clock to the lock
          MaxClock     \* bound: ticks of the clock

\* What the theorems take the settings to be.
Limits ==
    /\ MaxRequests \in Nat
    /\ Window \in Nat \ {0}
    /\ MaxLag \in Nat
    /\ MaxClock \in Nat

VARIABLES clock,   \* time.monotonic()
          waiting, \* the requests between the clock and the lock
          hits,    \* RateLimiter._hits: the remembered hits of each client
          served   \* history: every hit of each client

vars == <<clock, waiting, hits, served>>

Never == -1
Nobody == [client |-> Never, now |-> Never]

Hit == [number : Nat, at : Nat]

Init ==
    /\ clock = 0
    /\ waiting = [t \in Threads |-> Nobody]
    /\ hits = [c \in Clients |-> <<>>]
    /\ served = [c \in Clients |-> {}]

Tick ==
    /\ clock < MaxClock
    /\ \A t \in Threads : waiting[t] # Nobody => clock - waiting[t].now < MaxLag
    /\ clock' = clock + 1
    /\ UNCHANGED <<waiting, hits, served>>

\* now = time.monotonic()
ReadClock(t, c) ==
    /\ waiting[t] = Nobody
    /\ waiting' = [waiting EXCEPT ![t] = [client |-> c, now |-> clock]]
    /\ UNCHANGED <<clock, hits, served>>

-------------------------------------------------------------------------------
(* allow, with the lock held *)

ExpiredEarly(hit, now) == hit.at <= now - Window + 1

Expired(hit, now) == hit.at <= now - Window

\* The hits left when the expired ones at the head are dropped, up to the first one
\* that is not.
IsLive(live, c, now) ==
    \E n \in 0 .. Len(hits[c]) :
        /\ \A i \in 1 .. n : Expired(hits[c][i], now)
        /\ n < Len(hits[c]) => ~Expired(hits[c][n + 1], now)
        /\ live = SubSeq(hits[c], n + 1, Len(hits[c]))

Suffixes(c) == {SubSeq(hits[c], n + 1, Len(hits[c])) : n \in 0 .. Len(hits[c])}

Serve(t) ==
    LET c   == waiting[t].client
        now == waiting[t].now
    IN  /\ waiting[t] # Nobody
        /\ \E live \in Suffixes(c) :
              /\ IsLive(live, c, now)
              /\ Len(live) < MaxRequests
              /\ LET hit == [number |-> Cardinality(served[c]), at |-> now]
                 IN  /\ hits' = [hits EXCEPT ![c] = Append(live, hit)]
                     /\ served' = [served EXCEPT ![c] = @ \cup {hit}]
        /\ waiting' = [waiting EXCEPT ![t] = Nobody]
        /\ UNCHANGED clock

Refuse(t) ==
    LET c   == waiting[t].client
        now == waiting[t].now
    IN  /\ waiting[t] # Nobody
        /\ \E live \in Suffixes(c) :
              /\ IsLive(live, c, now)
              /\ Len(live) >= MaxRequests
              /\ hits' = [hits EXCEPT ![c] = live]
        /\ waiting' = [waiting EXCEPT ![t] = Nobody]
        /\ UNCHANGED <<clock, served>>

Next ==
    \/ Tick
    \/ \E t \in Threads : Serve(t) \/ Refuse(t) \/ \E c \in Clients : ReadClock(t, c)

Spec == Init /\ [][Next]_vars

-------------------------------------------------------------------------------
(* What has to hold *)

TypeOK ==
    /\ clock \in Nat
    /\ waiting \in [Threads -> [client : Clients, now : Nat] \cup {Nobody}]
    /\ hits \in [Clients -> Seq(Hit)]
    /\ served \in [Clients -> SUBSET Hit]
    /\ \A t \in Threads :
          waiting[t] # Nobody => waiting[t].now <= clock /\ clock - waiting[t].now <= MaxLag

\* The hits of a client in the window that ends at a time, shortened by what threads lag.
InWindow(c, end) == {h \in served[c] : end - Window + MaxLag < h.at /\ h.at <= end}

\* No client is served more than MaxRequests times in any window, less the lag of the
\* threads, in whatever order they reach the deque.
WindowIsBounded ==
    \A c \in Clients : \A end \in 0 .. clock :
        Cardinality(InWindow(c, end)) <= MaxRequests
=============================================================================
