------------------------------- MODULE Readers -------------------------------
(***************************************************************************)
(* What the clients of green_relay get to see of its messages: the pages   *)
(* of GET /messages/inbound, the stream of GET /events, and the recent     *)
(* activity on the dashboard (api/v1.rs, events.rs, db.rs,                 *)
(* admin/dashboard.rs).                                                    *)
(*                                                                         *)
(* Rows are inserted while a client goes from page to page and while the   *)
(* dashboard is put together. Their times are those of a wall clock that   *)
(* may be set back. The event of a row comes after it, and a client that   *)
(* is slow loses the oldest events of its stream.                          *)
(***************************************************************************)
EXTENDS Integers, Sequences, FiniteSets

CONSTANTS
  Absence,     \* stands for a query parameter that is not there
  Limits,      \* what clients pass as ?limit=, Absence or a number
  PageDefault, \* DEFAULT_PAGE_LIMIT
  PageMax,     \* MAX_PAGE_LIMIT
  Capacity,    \* EVENT_BUS_CAPACITY
  RowCap,      \* rows each query of the activity returns at most (50)
  ShowMax,     \* RECENT_ACTIVITY_LIMIT
  Day,         \* the 24 hours of the activity, in ticks
  MaxRows,     \* bound on rows
  MaxWall      \* bound on the wall clock

ASSUME ReadersAssumption ==
  /\ PageDefault \in 1..PageMax /\ PageMax \in Nat
  /\ Limits \ {Absence} \subseteq Int
  /\ Capacity \in Nat \ {0} /\ ShowMax \in 1..RowCap /\ RowCap \in Nat
  /\ Day \in Nat /\ MaxRows \in Nat /\ MaxWall \in Nat \ {0}

VARIABLES
  wall,   \* Utc::now()
  table,  \* table[n]: the n-th row inserted, of which table and when
  silent, \* rows whose event was not published yet
  client, \* a client of the API: its stream, and how far its pages are
  dash    \* the dashboard last asked for

readersVars == <<wall, table, silent, client, dash>>

Rows    == 1..Len(table)
Of(t)   == {n \in Rows : table[n].of = t}
At(n)   == table[n].at
Away    == [at |-> "away", feed |-> <<>>, lagged |-> FALSE, seen |-> {}, offset |-> 0]
NoPage  == [at |-> "none", now |-> 0, before |-> {}, found |-> {}]

InitReaders ==
  /\ wall = 1 /\ table = <<>> /\ silent = {}
  /\ client = Away /\ dash = NoPage

\* The process is gone, and with it the bus and the connections.
CutOff == client' = Away /\ dash' = NoPage /\ silent' = {}

-----------------------------------------------------------------------------
(* Rows and their events.                                                  *)

\* Mutant: nothing is dropped.
HeardAll(c, n) == IF c.at = "away" THEN c ELSE [c EXCEPT !.feed = Append(@, n)]

\* EventBus::publish: a receiver that is Capacity behind loses the oldest.
Heard(c, n) ==
  IF c.at = "away" THEN c
  ELSE IF Len(c.feed) < Capacity THEN [c EXCEPT !.feed = Append(@, n)]
  ELSE [c EXCEPT !.feed = Append(Tail(@), n), !.lagged = TRUE]

Room == Len(table) < MaxRows
Inserted(t) == table' = Append(table, [of |-> t, at |-> wall])

\* Mutant: the event is out before the row is in.
RecordAnnounced ==
  /\ Room /\ Of("inbound") \intersect silent = {}
  /\ \/ Len(table) + 1 \notin silent
        /\ client' = Heard(client, Len(table) + 1) /\ UNCHANGED table
        /\ silent' = silent \union {Len(table) + 1}
     \/ Len(table) + 1 \in silent
        /\ Inserted("inbound") /\ silent' = silent \ {Len(table) + 1}
        /\ UNCHANGED client
  /\ UNCHANGED <<wall, dash>>

\* The manager records one message after the other, see Inbound's Persist.
Record ==
  /\ Room /\ Of("inbound") \intersect silent = {}
  /\ Inserted("inbound") /\ silent' = silent \union {Len(table) + 1}
  /\ UNCHANGED <<wall, client, dash>>

\* The handlers of POST /messages insert, and Delivery reports the end.
Queue ==
  /\ Room /\ Inserted("outbound") /\ silent' = silent \union {Len(table) + 1}
  /\ UNCHANGED <<wall, client, dash>>

Publish(n) ==
  /\ n \in silent /\ silent' = silent \ {n} /\ client' = Heard(client, n)
  /\ UNCHANGED <<wall, table, dash>>

\* The clock goes on, or is set back.
SetWall ==
  /\ wall' \in {wall - 1, wall + 1} \intersect 0..MaxWall
  /\ UNCHANGED <<table, silent, client, dash>>

-----------------------------------------------------------------------------
(* A client that opens its stream and then asks for page after page, until *)
(* one is empty.                                                           *)

\* Pagination::resolve.
PageLimit(raw) ==
  IF raw = Absence THEN PageDefault
  ELSE IF raw < 1 THEN 1 ELSE IF raw > PageMax THEN PageMax ELSE raw

\* ORDER BY received_at DESC, id DESC
Before(m, n) == At(m) > At(n) \/ (At(m) = At(n) /\ m > n)
Rank(n) == Cardinality({m \in Of("inbound") : Before(m, n)})

\* list_inbound_messages.
Page(limit, offset) ==
  {n \in Of("inbound") : Rank(n) \in offset..(offset + limit - 1)}

Subscribe ==
  /\ client.at = "away" /\ client' = [Away EXCEPT !.at = "paging"]
  /\ UNCHANGED <<wall, table, silent, dash>>

Sees(c, news) == [c EXCEPT !.seen = @ \union (news \intersect Of("inbound"))]

ReadEvent ==
  /\ client.feed # <<>>
  /\ client' = Sees([client EXCEPT !.feed = Tail(@)], {Head(client.feed)})
  /\ UNCHANGED <<wall, table, silent, dash>>

ReadPage(raw) ==
  LET page == Page(PageLimit(raw), client.offset) IN
  /\ client.at = "paging"
  /\ client' = IF page = {} THEN [client EXCEPT !.at = "listed"]
               ELSE Sees([client EXCEPT !.offset = @ + Cardinality(page)], page)
  /\ UNCHANGED <<wall, table, silent, dash>>

Leave ==
  /\ client.at # "away" /\ client' = Away
  /\ UNCHANGED <<wall, table, silent, dash>>

-----------------------------------------------------------------------------
(* The dashboard.                                                          *)

\* Mutant: the oldest first.
FirstOldest(S, most) ==
  {T \in SUBSET S : /\ Cardinality(T) <= most
                    /\ Cardinality(T) = most \/ T = S
                    /\ \A m \in T, n \in S \ T : At(m) <= At(n)}

\* ORDER BY ... DESC LIMIT, and the sort and truncate of recent_activity: which
\* of several rows of one time come first is left open.
First(S, most) ==
  {T \in SUBSET S : /\ Cardinality(T) <= most
                    /\ Cardinality(T) = most \/ T = S
                    /\ \A m \in T, n \in S \ T : At(m) >= At(n)}

\* recent_outbound_activity, recent_inbound_activity.
Activity(t, now) == First({n \in Of(t) : At(n) >= now - Day}, RowCap)

\* recent_activity.
Recent(entries, now) ==
  First({n \in entries : now - At(n) \in 0..Day}, ShowMax)

\* dashboard_data takes the time and makes its first query, then the second.
AskActivity ==
  /\ dash.at # "asked"
  /\ \E found \in Activity("outbound", wall) :
       dash' = [at |-> "asked", now |-> wall, before |-> Rows, found |-> found]
  /\ UNCHANGED <<wall, table, silent, client>>

ShowActivity ==
  /\ dash.at = "asked"
  /\ \E found \in Activity("inbound", dash.now) :
     \E shown \in Recent(dash.found \union found, dash.now) :
       dash' = [dash EXCEPT !.at = "shown", !.found = shown]
  /\ UNCHANGED <<wall, table, silent, client>>

-----------------------------------------------------------------------------
Recording == Record \/ Queue \/ SetWall \/ \E n \in silent : Publish(n)
Paging    == Subscribe \/ ReadEvent \/ Leave \/ \E raw \in Limits : ReadPage(raw)
Watching  == AskActivity \/ ShowActivity

-----------------------------------------------------------------------------
(* Properties.                                                             *)

ReadersTypeOK ==
  /\ wall \in 0..MaxWall /\ Len(table) <= MaxRows
  /\ \A n \in Rows : table[n] \in [of : {"inbound", "outbound"}, at : 0..MaxWall]
  /\ silent \subseteq Rows
  /\ client.at \in {"away", "paging", "listed"} /\ Len(client.feed) <= Capacity
  /\ client.seen \subseteq Of("inbound")
  /\ dash.at \in {"none", "asked", "shown"} /\ dash.found \subseteq Rows

\* A client that opens its stream before it asks for its pages misses no
\* message: what came before it, during its pages or after them it has seen or
\* has in its stream, or the event is yet to come; unless it was so slow that
\* the stream dropped events (inbound_handler, events_handler, and the order of
\* the insert and its event in handle_inbound_inner). The clock may be set back
\* as it likes.
NothingUnseen ==
  client.at = "listed" /\ ~client.lagged =>
    Of("inbound") \subseteq client.seen \union silent
                      \union {client.feed[i] : i \in DOMAIN client.feed}

\* No table has so many rows from ahead of the clock that they crowd out what
\* the dashboard is to show.
FewAhead(now) == \A t \in {"inbound", "outbound"} :
  Cardinality({n \in Of(t) : At(n) > now}) <= RowCap - ShowMax

\* The dashboard shows what it says, the newest of the last 24 hours of both
\* tables, although each query is cut off by itself and rows come in between
\* (recent_message_activity, recent_activity).
RecentRight ==
  dash.at = "shown" /\ FewAhead(dash.now) =>
    /\ \A n \in dash.found : dash.now - At(n) \in 0..Day
    /\ \A n \in dash.before \ dash.found :
         dash.now - At(n) \in 0..Day =>
           /\ Cardinality(dash.found) = ShowMax
           /\ \A m \in dash.found : At(m) >= At(n)
=============================================================================
