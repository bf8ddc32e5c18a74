------------------------------ MODULE ClosureList ------------------------------
(***************************************************************************)
(* What the admin is shown of the closures (listClosures and closureShape  *)
(* of ClubsService): the rows of all courts and all days, collapsed back   *)
(* into closures, and what deleting one of those takes away.               *)
(***************************************************************************)
EXTENDS Closures, Sequences

\* closureShape: a window that ends at midnight belongs to the day before.
FirstDay(w) == w.from \div DayLength

LastDay(w) == (w.to - 1) \div DayLength

OfDay(w) == <<w.from % DayLength, w.to % DayLength>>

IsAllDay(w) == OfDay(w) = <<0, 0>>

\* What is over is not listed.
Upcoming == {e \in closures : e.window.to > now}

\* Identical windows across courts are one window with a court count.
Windows == {[window |-> e.window, reason |-> e.reason] : e \in Upcoming}

CourtCount(w) ==
    Cardinality({e \in Upcoming : e.window = w.window /\ e.reason = w.reason})

\* The orders the query may return the windows in: ORDER BY startsAt decides no ties.
Orders ==
    {s \in [1 .. Cardinality(Windows) -> Windows] :
        /\ \A i, j \in DOMAIN s : i < j => s[i].window.from <= s[j].window.from
        /\ \A i, j \in DOMAIN s : i # j => s[i] # s[j]}

Entry(w) == [range |-> w.window, first |-> w.window, reason |-> w.reason,
             toDay |-> LastDay(w.window), days |-> 1, courts |-> CourtCount(w)]

\* Mutant: windows days apart are taken for one closure.
Continues_AnyDay(prev, w) ==
    /\ prev.reason = w.reason
    /\ ~ IsAllDay(prev.first) /\ ~ IsAllDay(w.window)
    /\ OfDay(prev.first) = OfDay(w.window)

\* Mutant: the next day is taken for the same one.
Continues_SameDay(prev, w) ==
    /\ prev.reason = w.reason
    /\ ~ IsAllDay(prev.first) /\ ~ IsAllDay(w.window)
    /\ OfDay(prev.first) = OfDay(w.window)
    /\ prev.toDay = FirstDay(w.window)

Continues(prev, w) ==
    /\ prev.reason = w.reason
    /\ ~ IsAllDay(prev.first) /\ ~ IsAllDay(w.window)
    /\ OfDay(prev.first) = OfDay(w.window)
    /\ prev.toDay + 1 = FirstDay(w.window)

Larger(m, n) == IF m >= n THEN m ELSE n

Prolonged(prev, w) ==
    [prev EXCEPT !.range.to = w.window.to, !.toDay = LastDay(w.window), !.days = @ + 1,
                 !.courts = Larger(@, CourtCount(w))]

\* Consecutive days of one closure collapse; the last entry only is looked at.
Collapse(list, w) ==
    IF list # <<>> /\ Continues(list[Len(list)], w)
      THEN [list EXCEPT ![Len(list)] = Prolonged(@, w)]
      ELSE Append(list, Entry(w))

Listed(order) ==
    LET list[n \in 0 .. Cardinality(Windows)] ==
          IF n = 0 THEN <<>> ELSE Collapse(list[n - 1], order[n])
    IN  list[Cardinality(Windows)]

-----------------------------------------------------------------------------

\* The windows an entry of the list shows, day by day or as one.
Shown(e) ==
    IF IsAllDay(e.first) THEN {e.range}
    ELSE EachDay(FirstDay(e.range), e.toDay,
                 [from |-> e.first.from - FirstDay(e.first) * DayLength,
                  to   |-> e.first.to - FirstDay(e.first) * DayLength])

\* Nothing that closes a court from now on is missing from the list, and deleting a listed
\* closure deletes it all, and nothing that lies outside of what it shows, but for
\* what begins together with one of its days: in the order of the beginnings that
\* is beside them, and in the range as well.
ListingFaithful ==
    \A order \in Orders :
        LET list == Listed(order)
        IN  /\ \A w \in Windows : \E i \in DOMAIN list :
                  list[i].reason = w.reason /\ w.window \in Shown(list[i])
            /\ \A i \in DOMAIN list :
                  LET gone == {e.window : e \in Deleted(list[i].range, {list[i].reason})}
                  IN  /\ Shown(list[i]) \subseteq gone
                      /\ \A w \in gone : \E v \in Shown(list[i]) :
                            Within(w, v) \/ w.from = v.from

\* Several days that were entered as 00:00 to 24:00 of each: windows of a whole day
\* do not collapse.
DaysByHours(windows) == Cardinality(windows) > 1 /\ \A w \in windows : IsAllDay(w)

\* What is entered and not over yet.
Ahead(windows) == {w \in windows : w.to > now}

\* The first closure of a club is listed as the one closure that was entered,
\* for as many courts as were open, without the days that are over: what was
\* entered for the past alone is not listed.  That is so unless the clocks skip
\* one of the times that were entered.
EnteredIsListed ==
    [][\A p \in Api :
          LET W == req[p].windows
          IN  CloseInsert(p) /\ closures = {} /\ Resolved(W) = W /\ ~ DaysByHours(W) =>
              \A order \in Orders' :
                  LET e == Listed(order)[1]'
                  IN  IF Ahead(W) = {} THEN Listed(order)' = <<>>
                      ELSE /\ Len(Listed(order)') = 1
                           /\ Shown(e) = Ahead(W)
                           /\ e.days = Cardinality(Ahead(W))
                           /\ e.courts = Cardinality(req[p].rooms)]_vars
===============================================================================
