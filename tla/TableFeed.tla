----------------------------- MODULE TableFeed ------------------------------
(***************************************************************************)
(* What the websocket side promises its peers, without hub, channels or    *)
(* goroutines: every table has one sequence of events, and a connection    *)
(* receives that sequence, from the place where it joined, in order and    *)
(* without gaps, up to the place where it stops receiving.  It may stop    *)
(* anywhere: the service promises nobody the end of the sequence.          *)
(***************************************************************************)
EXTENDS Naturals, Sequences

CONSTANTS Tables, Clients, TableOf, Events

VARIABLES
  log,    \* the events of each table so far
  joined, \* the clients that have joined their table
  start,  \* how many events their table had had when they did
  got     \* what each client has received

feedVars == <<log, joined, start, got>>

FeedTypeOK ==
  /\ log \in [Tables -> Seq(Events)]
  /\ joined \in SUBSET Clients
  /\ start \in [Clients -> Nat]
  /\ got \in [Clients -> Seq(Events)]

FeedInit ==
  /\ log = [t \in Tables |-> <<>>]
  /\ joined = {}
  /\ start = [c \in Clients |-> 0]
  /\ got = [c \in Clients |-> <<>>]

Join(c) ==
  /\ c \notin joined
  /\ joined' = joined \cup {c}
  /\ start' = [start EXCEPT ![c] = Len(log[TableOf[c]])]
  /\ UNCHANGED <<log, got>>

Publish(t, e) ==
  /\ log' = [log EXCEPT ![t] = Append(@, e)]
  /\ UNCHANGED <<joined, start, got>>

Receive(c) ==
  /\ c \in joined
  /\ start[c] + Len(got[c]) < Len(log[TableOf[c]])
  /\ got' = [got EXCEPT ![c] = Append(@, log[TableOf[c]][start[c] + Len(@) + 1])]
  /\ UNCHANGED <<log, joined, start>>

FeedNext ==
  \/ \E c \in Clients : Join(c) \/ Receive(c)
  \/ \E t \in Tables, e \in Events : Publish(t, e)

FeedSpec == FeedInit /\ [][FeedNext]_feedVars

-----------------------------------------------------------------------------
\* Two peers at one table have seen the same event at every place of the
\* table's sequence that both have seen.
PeersAgree ==
  \A c, d \in Clients : TableOf[c] = TableOf[d] =>
    \A i \in 1..Len(got[c]) : \A j \in 1..Len(got[d]) :
      start[c] + i = start[d] + j => got[c][i] = got[d][j]
=============================================================================
