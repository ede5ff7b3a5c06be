----------------------------- MODULE RateLimiter -----------------------------
(***************************************************************************)
(* lib/ratelimit.py.  A limiter is the sequence of the keys of its events, *)
(* the oldest first; the clock that makes an event leave the window is     *)
(* Tail.  Everything here is done without an await.                        *)
(***************************************************************************)
EXTENDS Naturals, Sequences, FiniteSets

KeysOf(events) == {events[i] : i \in DOMAIN events}

Without(events, key) ==
    LET kept[i \in 0..Len(events)] ==
            IF i = 0 THEN <<>>
            ELSE IF events[i] = key THEN kept[i - 1] ELSE Append(kept[i - 1], events[i])
    IN  kept[Len(events)]

Fresh(events, key) == Cardinality({i \in DOMAIN events : events[i] = key})

IsLimited(events, key, max_events) == Fresh(events, key) >= max_events

\* The key whose last event is the oldest.
Stalest(events) ==
    CHOOSE k \in KeysOf(events) :
        \A j \in KeysOf(events) \ {k} :
            \E i \in DOMAIN events : events[i] = j /\ \A n \in DOMAIN events :
                events[n] = k => n < i

\* The slip of counting the keys before the insert.
RecordedLast(events, key, max_keys) ==
    Append(IF Cardinality(KeysOf(events)) > max_keys THEN Without(events, Stalest(events)) ELSE events,
           key)

\* record, with the ceiling of _prune; one key at a time makes one too many.
Recorded(events, key, max_keys) ==
    LET more == Append(events, key)
    IN  IF Cardinality(KeysOf(more)) > max_keys THEN Without(more, Stalest(more)) ELSE more

=============================================================================
