------------------------------ MODULE Session ------------------------------
(***************************************************************************)
(* Conversation history: internal/ingress/session_middleware.go over the   *)
(* persistent store of internal/domain/session/session.go.                 *)
(*                                                                         *)
(* A request loads the history of its session, waits for the answer and    *)
(* then appends its turn.  The store's mutex makes each of Get, Append and *)
(* Delete one step; the journal line is written after it, under another    *)
(* mutex.  Expiry is kept as the age of the last append, which stops       *)
(* growing just past the ttl.                                              *)
(***************************************************************************)
EXTENDS Naturals, SequencesExt

CONSTANTS
    Keys,        \* tenant-scoped session keys
    NoKey,       \* key of a request not yet begun, and of a line that does not decode
    Requests,    \* request slots, each used once
    TTL,         \* ticks a session lives after its last turn
    MaxTurns,    \* maxTurns > 0
    Windows,     \* histories that fit, in messages, over the models in use
    MaxStops     \* bound: restarts

ASSUME SessionAssumption == TTL \in Nat \ {0} /\ MaxTurns \in Nat \ {0}

VARIABLES
    sessions,    \* key -> [msgs, age], or None
    journal,     \* lines of sessions.jsonl
    req,         \* state of each request
    stops

vars == <<sessions, journal, req, stops>>

None == [msgs |-> <<>>, age |-> TTL + 1]     \* no entry, or an expired one
Expired(e) == e.age > TTL
Aged(age) == IF age > TTL THEN age ELSE age + 1

User(r) == <<"user", r>>
Assistant(r) == <<"assistant", r>>
TurnsOf(msgs) == {msgs[i][2] : i \in DOMAIN msgs}

\* A journal line; a torn one ends without its newline, a damaged one is a
\* torn line with the next line glued to it.  Neither decodes.
Line(k, msgs) == [kind |-> "ok", key |-> k, msgs |-> msgs, age |-> 0]
Bad(kind) == [kind |-> kind, key |-> NoKey, msgs |-> <<>>, age |-> 0]

Init ==
    /\ sessions = [k \in Keys |-> None]
    /\ journal = <<>>
    /\ req = [r \in Requests |-> [st |-> "new", key |-> NoKey, hist |-> <<>>]]
    /\ stops = 0

-----------------------------------------------------------------------------
lastOf(s, n) == IF Len(s) <= n THEN s ELSE SubSeq(s, Len(s) - n + 1, Len(s))

\* Drops the oldest pairs until the rest fits.
trimToContextWindow(history, available) == lastOf(history, available - (available % 2))

Get(k) == IF Expired(sessions[k]) THEN <<>> ELSE sessions[k].msgs

\* The reset header: Delete before Get.  It leaves the journal alone.
Load(r, k, reset, window) ==
    /\ req[r].st = "new"
    /\ sessions' = IF reset \/ Expired(sessions[k]) THEN [sessions EXCEPT ![k] = None]
                   ELSE sessions
    /\ req' = [req EXCEPT ![r] =
                 [st |-> "calling", key |-> k,
                  hist |-> IF reset THEN <<>> ELSE trimToContextWindow(Get(k), window)]]
    /\ UNCHANGED <<journal, stops>>

\* An error, or a stream that produced nothing: no turn.
NoAnswer(r) ==
    /\ req[r].st = "calling"
    /\ req' = [req EXCEPT ![r] = [@ EXCEPT !.st = "done", !.hist = <<>>]]
    /\ UNCHANGED <<sessions, journal, stops>>

AppendedOdd(e, msgs) == [msgs |-> lastOf(e.msgs \o msgs, 2 * MaxTurns - 1), age |-> 0]

Appended(e, msgs) == [msgs |-> lastOf(e.msgs \o msgs, 2 * MaxTurns), age |-> 0]

\* MemorySessionStore.Append; an entry that has expired but is still in the
\* map is continued.
Append2(r) ==
    /\ req[r].st = "calling"
    /\ sessions' = [sessions EXCEPT ![req[r].key] = Appended(@, <<User(r), Assistant(r)>>)]
    /\ req' = [req EXCEPT ![r] = [@ EXCEPT !.st = "journal", !.hist = <<>>]]
    /\ UNCHANGED <<journal, stops>>

WrittenOver(line) == IF journal = <<>> THEN <<line>> ELSE [journal EXCEPT ![Len(journal)] = line]

Written(line) ==
    IF journal # <<>> /\ journal[Len(journal)].kind = "torn"
    THEN [journal EXCEPT ![Len(journal)] = Bad("damaged")]
    ELSE Append(journal, line)

Journal(r) ==
    /\ req[r].st = "journal"
    /\ journal' = Written(Line(req[r].key, <<User(r), Assistant(r)>>))
    /\ req' = [req EXCEPT ![r].st = "done"]
    /\ UNCHANGED <<sessions, stops>>

gc ==
    /\ \E k \in Keys : sessions[k] # None /\ Expired(sessions[k])
    /\ sessions' = [k \in Keys |-> IF Expired(sessions[k]) THEN None ELSE sessions[k]]
    /\ UNCHANGED <<journal, req, stops>>

\* Time: of the order of the ttl, so appends end within a tick.
Tick ==
    /\ \A r \in Requests : req[r].st # "journal"
    /\ \/ \E k \in Keys : ~Expired(sessions[k])
       \/ \E i \in DOMAIN journal : journal[i].age <= TTL
    /\ sessions' = [k \in Keys |-> [sessions[k] EXCEPT !.age = Aged(@)]]
    /\ journal' = [i \in DOMAIN journal |-> [journal[i] EXCEPT !.age = Aged(@)]]
    /\ UNCHANGED <<req, stops>>

-----------------------------------------------------------------------------
LinesOf(j, k) == SelectSeq(j, LAMBDA l : l.kind = "ok" /\ l.key = k)

\* replayJournal: accumulates the lines of a key, whatever happened between
\* them; the last one's expiry is the session's.
replayed(j, k) ==
    LET lines == LinesOf(j, k)
        all == FoldLeft(LAMBDA acc, l : acc \o l.msgs, <<>>, lines)
    IN  IF lines = <<>> \/ lines[Len(lines)].age > TTL THEN None
        ELSE [msgs |-> lastOf(all, 2 * MaxTurns), age |-> lines[Len(lines)].age]

Live(j) == {k \in Keys : replayed(j, k) # None}

compactedFresh(j) == SetToSeq({Line(k, replayed(j, k).msgs) : k \in Live(j)})

\* compactJournal: one line per surviving session; the rename makes it one step.
compacted(j) ==
    SetToSeq({[Line(k, replayed(j, k).msgs) EXCEPT !.age = replayed(j, k).age] : k \in Live(j)})

\* The process ends and the next one replays the journal.  A line being
\* written may be cut short; the compaction may fail and leaves the file then.
Restart(torn) ==
    /\ stops < MaxStops
    /\ torn => \E r \in Requests : req[r].st = "journal"
    /\ stops' = stops + 1
    /\ sessions' = [k \in Keys |-> replayed(journal, k)]
    /\ LET lines == IF torn THEN Append(journal, Bad("torn")) ELSE journal
       IN  \/ journal' = lines
           \/ Len(lines) > Cardinality(Live(lines)) /\ journal' = compacted(lines)
    /\ req' = [r \in Requests |-> IF req[r].st = "new" THEN req[r]
                                  ELSE [req[r] EXCEPT !.st = "done", !.hist = <<>>]]

Next ==
    \/ \E r \in Requests :
          \/ \E k \in Keys, reset \in BOOLEAN, w \in Windows : Load(r, k, reset, w)
          \/ NoAnswer(r) \/ Append2(r) \/ Journal(r)
    \/ gc \/ Tick
    \/ \E torn \in BOOLEAN : Restart(torn)

Spec == Init /\ [][Next]_vars

-----------------------------------------------------------------------------
Message == {"user", "assistant"} \X Requests

\* Histories are bounded by maxTurns turns, lines and entries have their types.
TypeOK ==
    /\ \A k \in Keys : /\ sessions[k].msgs \in Seq(Message)
                       /\ Len(sessions[k].msgs) <= 2 * MaxTurns
                       /\ sessions[k].age \in 0 .. TTL + 1
    /\ \A i \in DOMAIN journal : journal[i].kind \in {"ok", "torn", "damaged"}
    /\ \A r \in Requests : req[r].st \in {"new", "calling", "journal", "done"}

WholeTurnsIn(msgs) ==
    /\ Len(msgs) % 2 = 0
    /\ \A i \in 1 .. Len(msgs) \div 2 :
          \E r \in Requests : msgs[2 * i - 1] = User(r) /\ msgs[2 * i] = Assistant(r)

\* "History is stored as pairs" (session_middleware.go:169): what a request is
\* given, and what is stored, is a sequence of whole turns, each at most once,
\* however requests of one session overlap and whatever trimming, expiry, torn
\* lines and replays did.
WholeTurns ==
    LET Whole(msgs) == WholeTurnsIn(msgs) /\ Cardinality(TurnsOf(msgs)) = Len(msgs) \div 2
    IN  /\ \A k \in Keys : Whole(sessions[k].msgs)
        /\ \A r \in Requests : Whole(req[r].hist)

Undamaged == \A i \in DOMAIN journal : journal[i].kind = "ok"

\* Every turn in memory is in the journal or about to be written to it, so a
\* restart at any moment loses no turn that was written: replay and compaction
\* included.
JournalCovers ==
    Undamaged =>
        \A k \in Keys : \A t \in TurnsOf(sessions[k].msgs) :
            \/ req[t].st = "journal"
            \/ \E l \in Range(LinesOf(journal, k)) : t \in TurnsOf(l.msgs)

\* "Compaction rewrites the file with one line per surviving session"
\* (session.go:150): at no moment does it change what a replay restores, now or
\* after the lines have aged, nor leave a key with two lines.
CompactionFaithful ==
    LET old(j) == [i \in DOMAIN j |-> [j[i] EXCEPT !.age = Aged(@)]]
        c == compacted(journal)
    IN  \A k \in Keys : /\ replayed(c, k) = replayed(journal, k)
                        /\ replayed(old(c), k) = replayed(old(journal), k)
                        /\ Len(LinesOf(c, k)) <= 1
=============================================================================
