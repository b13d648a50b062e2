----------------------------- MODULE UserMemory -----------------------------
(***************************************************************************)
(* What ixr remembers about its users: the store and journal of            *)
(* internal/domain/memory, filled after each answer by plugins/memory and  *)
(* read by the memory middleware and by GET and DELETE /v1/memory.         *)
(*                                                                         *)
(* The event loop is the only writer.  Save changes the map under s.mu and *)
(* writes its journal line after letting it go, so a Delete or a           *)
(* compaction, which hold s.mu throughout, can run between the two.        *)
(* CreatedAt is the serial number of the entry.  Every entry has the same  *)
(* ttl, so entries expire in the order of their serial numbers, at any     *)
(* time after they are made.                                               *)
(***************************************************************************)
EXTENDS Naturals, FiniteSets, SequencesExt

CONSTANTS
    Users,        \* tenantID:userID keys; anonymous calls never reach the store
    Patterns,     \* categories of rulePatterns, in order
    Messages,     \* pairs: a user, and the categories a message of theirs matches
    MaxPerUser,
    MaxSaves, MaxDeletes, MaxStops, MaxFaults     \* bounds, the last on disk errors

ASSUME MemoryAssumption == MaxPerUser \in Nat \ {0}

VARIABLES
    entries,      \* user -> entries, oldest first
    journal,      \* user -> the lines of memory.jsonl that decode, in file order
    damage,       \* "torn": the file ends in half a line; "inside": one does not decode
    open,         \* s.file is usable
    todo,         \* facts of the current event still to save, and their user
    writing,      \* the entry saved whose line is not written yet
    saved,        \* entries created so far
    expired,      \* entries 1 .. expired are older than the ttl
    deleted,      \* entries a caller deleted (history)
    straddled,    \* entries whose Save was under way during a rewrite (history)
    faults, stops

vars == <<entries, journal, damage, open, todo, writing, saved, expired, deleted, straddled,
          faults, stops>>
disk == <<journal, damage, open, faults>>

Nothing == [id |-> 0, cat |-> ""]
Idle == [user |-> CHOOSE u \in Users : TRUE, facts |-> <<>>]
Holds(es, id) == \E i \in DOMAIN es : es[i].id = id

Init ==
    /\ entries = [u \in Users |-> <<>>] /\ journal = [u \in Users |-> <<>>]
    /\ damage = "none" /\ open = TRUE
    /\ todo = Idle /\ writing = Nothing
    /\ saved = 0 /\ expired = 0
    /\ deleted = {} /\ straddled = {}
    /\ faults = 0 /\ stops = 0

-----------------------------------------------------------------------------
\* RuleExtractor: one fact for each pattern the message matches, in their order.
Extract(matched) == SelectSeq(Patterns, LAMBDA c : c \in matched)

Live(e) == e.id > expired
lastOf(s, n) == IF Len(s) <= n THEN s ELSE SubSeq(s, Len(s) - n + 1, Len(s))

pruneLockedFirst(es) == LET live == SelectSeq(es, Live)
                        IN SubSeq(live, 1, IF Len(live) < MaxPerUser THEN Len(live) ELSE MaxPerUser)
pruneLocked(es) == lastOf(SelectSeq(es, Live), MaxPerUser)

\* rewriteJournalLocked: a temporary file, then a rename, then a new descriptor.
\* The rename can fail (the old lines stay), or the open.
rewriteJournal(es, wrote, reopened) ==
    /\ wrote \/ reopened
    /\ faults + (IF wrote /\ reopened THEN 0 ELSE 1) <= MaxFaults
    /\ faults' = faults + (IF wrote /\ reopened THEN 0 ELSE 1)
    /\ journal' = IF wrote THEN es ELSE journal
    /\ damage' = IF wrote THEN "none" ELSE damage
    /\ open' = reopened

-----------------------------------------------------------------------------
\* The plugin takes an answered, unstreamed, unshadowed event of a known user.
OnEvent(u, matched) ==
    /\ todo.facts = <<>>
    /\ todo' = [user |-> u, facts |-> Extract(matched)]
    /\ UNCHANGED <<entries, disk, writing, saved, expired, deleted, straddled, stops>>

\* Save, first half: under s.mu.
Save ==
    /\ todo.facts # <<>> /\ writing = Nothing
    /\ saved < MaxSaves
    /\ LET e == [id |-> saved + 1, cat |-> Head(todo.facts)]
       IN /\ writing' = e
          /\ saved' = e.id
          /\ entries' = [entries EXCEPT ![todo.user] = pruneLocked(Append(@, e))]
    /\ UNCHANGED <<disk, todo, expired, deleted, straddled, stops>>

\* Save, second half: under s.fileMu.  A line glued to half a line is lost with it.
appendJournal ==
    /\ writing # Nothing
    /\ journal' = IF open /\ damage # "torn"
                  THEN [journal EXCEPT ![todo.user] = Append(@, writing)] ELSE journal
    /\ damage' = IF open /\ damage = "torn" THEN "inside" ELSE damage
    /\ todo' = IF Len(todo.facts) = 1 THEN Idle ELSE [todo EXCEPT !.facts = Tail(@)]
    /\ writing' = Nothing
    /\ UNCHANGED <<entries, open, saved, expired, deleted, straddled, faults, stops>>

\* The middleware's Recent and the handler's All prune what they read.
Read(u) ==
    /\ entries' = [entries EXCEPT ![u] = pruneLocked(@)]
    /\ UNCHANGED <<disk, todo, writing, saved, expired, deleted, straddled, stops>>

Straddle == straddled' = straddled \cup IF writing = Nothing THEN {} ELSE {writing.id}

RemoveFirstId(es, id) ==
    LET idx == CHOOSE i \in DOMAIN es : es[i].id = id /\ \A j \in 1 .. i - 1 : es[j].id # id
    IN RemoveAt(es, idx)

DeleteInMemory(u, id, wrote, reopened) ==
    /\ Holds(entries[u], id) /\ wrote /\ reopened
    /\ entries' = [entries EXCEPT ![u] = RemoveFirstId(@, id)]
    /\ Cardinality(deleted) < MaxDeletes
    /\ deleted' = deleted \cup {id}
    /\ UNCHANGED <<disk, todo, writing, saved, expired, straddled, stops>>

DeleteOwnOnly(u, id, wrote, reopened) ==
    /\ Holds(entries[u], id)
    /\ entries' = [entries EXCEPT ![u] = RemoveFirstId(@, id)]
    /\ rewriteJournal([v \in Users |-> IF v = u THEN entries'[v] ELSE <<>>], wrote, reopened)
    /\ Cardinality(deleted) < MaxDeletes
    /\ deleted' = deleted \cup {id}
    /\ Straddle
    /\ UNCHANGED <<todo, writing, saved, expired, stops>>

\* The first entry with the id goes, and the journal is rewritten from the
\* entries of every user.
Delete(u, id, wrote, reopened) ==
    /\ Holds(entries[u], id)
    /\ entries' = [entries EXCEPT ![u] = RemoveFirstId(@, id)]
    /\ rewriteJournal(entries', wrote, reopened)
    /\ Cardinality(deleted) < MaxDeletes
    /\ deleted' = deleted \cup {id}
    /\ Straddle
    /\ UNCHANGED <<todo, writing, saved, expired, stops>>

\* The ticker: prune every user, rewrite the journal to match.
compactNow(wrote, reopened) ==
    /\ entries' = [u \in Users |-> pruneLocked(entries[u])]
    /\ rewriteJournal(entries', wrote, reopened)
    /\ Straddle
    /\ UNCHANGED <<todo, writing, saved, expired, deleted, stops>>

\* The process ends, perhaps inside the write of a line, and starts again:
\* replayJournal keeps the live lines within the cap and compacts the file only
\* when it holds more than that.
Restart(torn, wrote, reopened) ==
    /\ stops < MaxStops
    /\ stops' = stops + 1
    /\ torn => writing # Nothing /\ open
    /\ entries' = [u \in Users |-> pruneLocked(journal[u])]
    /\ IF torn \/ damage # "none" \/ entries' # journal
       THEN \/ wrote /\ rewriteJournal(entries', TRUE, reopened)
            \/ /\ ~wrote /\ faults < MaxFaults
               /\ faults' = faults + 1
               /\ damage' = (IF torn THEN "torn" ELSE damage)
               /\ open' = reopened /\ UNCHANGED journal
       ELSE wrote /\ rewriteJournal(journal, TRUE, reopened)
    /\ todo' = Idle /\ writing' = Nothing
    /\ UNCHANGED <<saved, expired, deleted, straddled>>

Expire ==
    /\ expired < saved
    /\ expired' = expired + 1
    /\ UNCHANGED <<entries, disk, todo, writing, saved, deleted, straddled, stops>>

Next ==
    \/ \E m \in Messages : OnEvent(m[1], m[2])
    \/ Save \/ appendJournal \/ Expire
    \/ \E u \in Users : Read(u)
    \/ \E wrote, reopened \in BOOLEAN :
          \/ compactNow(wrote, reopened)
          \/ \E u \in Users, id \in 1 .. MaxSaves : Delete(u, id, wrote, reopened)
          \/ \E torn \in BOOLEAN : Restart(torn, wrote, reopened)

Spec == Init /\ [][Next]_vars

-----------------------------------------------------------------------------
Entry == [id : 1 .. MaxSaves, cat : Range(Patterns)]

\* Type correctness; a user never has more than maxPerUser entries in memory.
TypeOK ==
    /\ DOMAIN entries = Users /\ DOMAIN journal = Users
    /\ \A u \in Users : /\ Range(entries[u]) \cup Range(journal[u]) \subseteq Entry
                        /\ Len(entries[u]) <= MaxPerUser
    /\ writing \in Entry \cup {Nothing}
    /\ damage \in {"none", "torn", "inside"} /\ open \in BOOLEAN
    /\ saved \in 0 .. MaxSaves /\ expired \in 0 .. saved
    /\ deleted \cup straddled \subseteq 1 .. MaxSaves
    /\ faults \in 0 .. MaxFaults /\ stops \in 0 .. MaxStops

\* What a restart would bring back.  While the disk has not failed, no Save is
\* half done and none was when the file was last rewritten, replayJournal rebuilds
\* from the file exactly the live entries in memory, in order: pruning at every
\* save, pruning at replay, deletions and compactions all agree.
RestoresExactly ==
    faults = 0 /\ writing = Nothing /\ straddled = {} =>
        \A u \in Users : pruneLocked(journal[u]) = pruneLocked(entries[u])

\* Durability without the exception for concurrent rewrites: a live entry in
\* memory is on disk, or its line is the one being written (Save, compactNow and
\* Delete interleaved in any order).
JournalCovers ==
    faults = 0 => \A u \in Users : \A i \in DOMAIN entries[u] :
        LET e == entries[u][i] IN
        Live(e) => e = writing \/ Holds(journal[u], e.id)

\* A deleted entry is gone from memory and from the journal, unless a rewrite
\* failed or the entry's own Save was between its two halves during a rewrite:
\* restarts, compactions and later saves never bring it back.
DeletedStaysGone ==
    \A id \in deleted, u \in Users :
        Holds(entries[u], id) \/ Holds(journal[u], id) => id \in straddled \/ faults > 0
=============================================================================
