---------------------------- MODULE MCLevelCursor ---------------------------
(***************************************************************************)
(* The two scan loops of DBIter, step by step, against what LevelCursor    *)
(* says they find.                                                         *)
(***************************************************************************)
EXTENDS LevelCursor

RECURSIVE NextScan(_, _), PrevScan(_, _, _)

\* iter_->Next() and iter_->Prev().
iterNext(e) == FirstOf(Rest(e) \ {e})

iterPrev(e) == LastOf(Passed(e) \ {e})

\* Mutant: a deletion that is not visible hides older entries too.
NextScanAny(e, skip) ==
  IF e = NoEntry THEN NoEntry
  ELSE IF ~log[e].put THEN NextScan(iterNext(e), key(e))
  ELSE IF Visible(e) /\ key(e) > skip THEN e
  ELSE NextScan(iterNext(e), skip)

\* FindNextUserEntry: the entry it yields, starting at e.
NextScan(e, skip) ==
  IF e = NoEntry THEN NoEntry
  ELSE IF Visible(e) /\ ~log[e].put THEN NextScan(iterNext(e), key(e))
  ELSE IF Visible(e) /\ key(e) > skip THEN e
  ELSE NextScan(iterNext(e), skip)

\* FindPrevUserEntry: where it stops, and what it has saved; k is -1 while
\* value_type is kTypeDeletion.
PrevScan(e, k, v) ==
  IF e = NoEntry THEN <<NoEntry, k, v>>
  ELSE IF ~Visible(e) THEN PrevScan(iterPrev(e), k, v)
  ELSE IF k # -1 /\ key(e) < k THEN <<e, k, v>>
  ELSE IF log[e].put THEN PrevScan(iterPrev(e), key(e), e)
  ELSE PrevScan(iterPrev(e), -1, NoEntry)

\* From any entry, in any reachable database and for any snapshot, the loops
\* of FindNextUserEntry and FindPrevUserEntry stop where LevelCursor's
\* descriptions of the whole loops say.
ScansAgree ==
  \A e \in Entries :
    /\ \A skip \in Keys \cup {-1} : NextScan(e, skip) = FirstOf(Yielded(Rest(e), skip))
    /\ LET from == Passed(e)
           scan == PrevScan(e, -1, NoEntry)
       IN  IF LiveKeys(from) = {}
           THEN scan = <<NoEntry, -1, NoEntry>>
           ELSE /\ scan[2] \in LiveKeys(from)
                /\ \A j \in LiveKeys(from) : j <= scan[2]
                /\ scan[1] = Resting(from, scan[2])
                /\ scan[3] = Newest(from, scan[2])
=============================================================================
