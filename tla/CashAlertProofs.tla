---------------------------- MODULE CashAlertProofs ----------------------------
(***************************************************************************)
(* Proofs about the available-cash alert, for any number of planning       *)
(* transactions in flight, accounts, amounts, thresholds and versions of   *)
(* the preferences.                                                        *)
(*                                                                         *)
(* AlertInv of CashAlert is inductive.  An evaluation under earlier        *)
(* preferences may open an episode between two of the preferences in       *)
(* force; it does no harm because no event was generated before it ended,  *)
(* which is what the grace of an episode that follows a change of the      *)
(* preferences is for.                                                     *)
(***************************************************************************)
EXTENDS CashAlert, SequenceTheorems, TLAPS

\* Episodes that differ in their end only.
Alike(a, b) ==
    /\ Len(a) = Len(b)
    /\ \A e \in 1 .. Len(a) :
          /\ a[e].revision = b[e].revision
          /\ a[e].grace = b[e].grace
          /\ a[e].delivery = "none" <=> b[e].delivery = "none"
          /\ b[e].delivery \in {a[e].delivery, "suppressed"}

LEMMA EpisodeFacts ==
    ASSUME TypeOK
    PROVE  /\ episodes \in Seq(Episode) /\ Len(episodes) \in Nat
           /\ DOMAIN episodes = 1 .. Len(episodes)
           /\ \A e \in DOMAIN episodes : episodes[e] \in Episode /\ e # None
BY LenProperties, ElementOfSeq, NoneAssumption DEF TypeOK

LEMMA AlertFacts ==
    ASSUME TypeOK
    PROVE  /\ alert = None => Current = None
           /\ alert # None => /\ alert \in AlertRow /\ alert.armed \in BOOLEAN
                              /\ Current = alert.episode
           /\ Current \in DOMAIN episodes \cup {None}
BY DEF TypeOK, Current, AlertRow

LEMMA ClosedTypes ==
    ASSUME NEW row \in Episode, NEW status \in {"recovered", "unavailable", "cancelled"}
    PROVE  /\ Closed(row, status) \in Episode
           /\ Closed(row, status).revision = row.revision
           /\ Closed(row, status).grace = row.grace
           /\ Closed(row, status).delivery = "none" <=> row.delivery = "none"
           /\ Closed(row, status).delivery \in {row.delivery, "suppressed"}
<1> DEFINE ended == IF row.status = "open" THEN status ELSE row.status
           first == [row EXCEPT !.status = ended]
           quiet == IF row.delivery = "queued" THEN "suppressed" ELSE row.delivery
           last == [first EXCEPT !.delivery = quiet]
<1>1. ended \in {"open", "recovered", "unavailable", "cancelled"}
      /\ quiet \in {"none", "queued", "sending", "sent", "suppressed"}
      /\ (quiet = "none" <=> row.delivery = "none") /\ quiet \in {row.delivery, "suppressed"}
    BY DEF Episode
<1>2. Closed(row, status) = last
    BY DEF Closed, Episode
<1> HIDE DEF ended, quiet
<1>3. /\ last \in Episode /\ last.delivery = quiet
      /\ last.revision = row.revision /\ last.grace = row.grace
    BY <1>1 DEF Episode
<1> QED BY <1>1, <1>2, <1>3

LEMMA CloseIsAlike ==
    ASSUME NEW eps \in Seq(Episode), NEW e \in DOMAIN eps \cup {None},
           NEW status \in {"recovered", "unavailable", "cancelled"}
    PROVE  Close(eps, e, status) \in Seq(Episode) /\ Alike(eps, Close(eps, e, status))
<1>1. CASE e = None
    BY <1>1 DEF Close, Alike
<1>2. CASE e # None
    <2>1. e \in 1 .. Len(eps) /\ eps[e] \in Episode
        BY <1>2, LenProperties, ElementOfSeq
    <2> DEFINE row == Closed(eps[e], status)
    <2>2. /\ row \in Episode /\ row.revision = eps[e].revision /\ row.grace = eps[e].grace
          /\ row.delivery = "none" <=> eps[e].delivery = "none"
          /\ row.delivery \in {eps[e].delivery, "suppressed"}
        BY <2>1, ClosedTypes
    <2>3. Close(eps, e, status) = [eps EXCEPT ![e] = row]
        BY <1>2 DEF Close
    <2> HIDE DEF row
    <2>4. /\ [eps EXCEPT ![e] = row] \in Seq(Episode)
          /\ Len([eps EXCEPT ![e] = row]) = Len(eps)
          /\ \A j \in 1 .. Len(eps) : [eps EXCEPT ![e] = row][j] = IF j = e THEN row ELSE eps[j]
        BY <2>1, <2>2, ExceptSeq
    <2> QED BY <2>2, <2>3, <2>4 DEF Alike
<1> QED BY <1>1, <1>2

LEMMA AlikeTransitive ==
    ASSUME NEW a, NEW b, NEW c, Alike(a, b), Alike(b, c)
    PROVE  Alike(a, c)
BY DEF Alike

LEMMA KeptIsAlike ==
    ASSUME TypeOK, NEW seen
    PROVE  /\ Kept(seen) \in Seq(Episode) /\ Alike(episodes, Kept(seen))
           /\ Continued(seen) \in DOMAIN Kept(seen) \cup {None}
<1>1. Current \in DOMAIN episodes \cup {None} /\ episodes \in Seq(Episode)
    BY AlertFacts, EpisodeFacts
<1>2. Kept(seen) \in Seq(Episode) /\ Alike(episodes, Kept(seen))
    <2>1. CASE PreferenceChanged(seen)
        BY <1>1, <2>1, CloseIsAlike DEF Kept
    <2>2. CASE ~PreferenceChanged(seen)
        BY <1>1, <2>2 DEF Kept, Alike
    <2> QED BY <2>1, <2>2
<1>3. DOMAIN Kept(seen) = DOMAIN episodes
    BY <1>1, <1>2, LenProperties DEF Alike
<1> QED BY <1>1, <1>2, <1>3 DEF Continued

------------------------------------------------------------------------------
(* What an evaluation may do: nothing, end the current episode, open one,   *)
(* or leave the current one as it is.                                       *)

EndsEpisode(s) ==
    /\ episodes' \in Seq(Episode) /\ Alike(episodes, episodes')
    /\ alert' \in AlertRow /\ alert'.episode = None
    /\ rearmed' \in {rearmed, DOMAIN episodes}
    /\ alert'.armed => rearmed' = DOMAIN episodes \/ alert = None \/ alert.armed

OpensEpisode(s, seen, external) ==
    /\ Armed(seen) /\ s.available < seen.threshold
    /\ \E kept \in Seq(Episode) :
          Alike(episodes, kept) /\ episodes' = Append(kept, Opened(seen, external))
    /\ alert' = [status |-> "below", armed |-> FALSE, episode |-> Len(episodes) + 1, at |-> s.at]
    /\ rearmed' = rearmed

KeepsEpisode(s, seen) ==
    /\ ~Armed(seen) /\ s.available < seen.threshold
    /\ alert' = [status |-> "below", armed |-> FALSE, episode |-> Current, at |-> s.at]
    /\ UNCHANGED <<episodes, rearmed>>

LEMMA EvaluationCases ==
    ASSUME TypeOK, NEW s \in Snapshot, NEW seen, NEW external, Evaluate(s, seen, external)
    PROVE  \/ UNCHANGED alertVars
           \/ EndsEpisode(s)
           \/ OpensEpisode(s, seen, external)
           \/ KeepsEpisode(s, seen)
<1>1. /\ Kept(seen) \in Seq(Episode) /\ Alike(episodes, Kept(seen))
      /\ Continued(seen) \in DOMAIN Kept(seen) \cup {None}
    BY KeptIsAlike
<1>2. s.at \in Nat
    BY DEF Snapshot
<1>3. ASSUME NEW status \in {"recovered", "unavailable", "cancelled"},
             episodes' = Close(Kept(seen), Continued(seen), status)
      PROVE  episodes' \in Seq(Episode) /\ Alike(episodes, episodes')
    BY <1>1, <1>3, CloseIsAlike, AlikeTransitive
<1>4. CASE Unavailable(s, seen)
    <2>1. alert' = [status |-> "unavailable", armed |-> alert = None \/ alert.armed,
                    episode |-> None, at |-> s.at] /\ rearmed' = rearmed
        BY <1>4 DEF Unavailable
    <2>2. (alert = None \/ alert.armed) \in BOOLEAN
        OBVIOUS
    <2>3. alert' \in AlertRow /\ alert'.episode = None
          /\ (alert'.armed => alert = None \/ alert.armed)
        BY <1>2, <2>1, <2>2 DEF AlertRow
    <2> QED BY <1>3, <1>4, <2>1, <2>3 DEF Unavailable, EndsEpisode
<1>5. CASE FallsBelow(s, seen, external)
    BY <1>1, <1>5 DEF FallsBelow, OpensEpisode
<1>6. CASE StaysBelow(s, seen)
    BY <1>6 DEF StaysBelow, KeepsEpisode
<1>7. CASE Above(s, seen)
    <2>1. /\ alert' = [status |-> "above", armed |-> Rearms(s, seen), episode |-> None, at |-> s.at]
          /\ rearmed' = IF Rearms(s, seen) THEN DOMAIN episodes ELSE rearmed
        BY <1>7 DEF Above, Rearms
    <2>2. Rearms(s, seen) \in BOOLEAN
        BY DEF Rearms
    <2>3. alert' \in AlertRow /\ alert'.episode = None /\ alert'.armed = Rearms(s, seen)
        BY <1>2, <2>1, <2>2 DEF AlertRow
    <2>4. rearmed' \in {rearmed, DOMAIN episodes} /\ (alert'.armed => rearmed' = DOMAIN episodes)
        BY <2>1, <2>3
    <2> QED BY <1>3, <1>7, <2>3, <2>4 DEF Above, EndsEpisode
<1> QED BY <1>4, <1>5, <1>6, <1>7 DEF Evaluate

LEMMA OpenedTypes ==
    ASSUME NEW seen \in Preference, NEW external \in BOOLEAN
    PROVE  Opened(seen, external) \in Episode
BY DEF Opened, Episode, Preference

\* The episodes an evaluation leaves.
LEMMA OpenedFacts ==
    ASSUME TypeOK, NEW s \in Snapshot, NEW seen \in Preference, NEW external \in BOOLEAN,
           OpensEpisode(s, seen, external)
    PROVE  /\ episodes' \in Seq(Episode)
           /\ Len(episodes') = Len(episodes) + 1
           /\ episodes'[Len(episodes) + 1] = Opened(seen, external)
           /\ \A e \in DOMAIN episodes :
                 /\ episodes'[e].revision = episodes[e].revision
                 /\ episodes'[e].grace = episodes[e].grace
                 /\ episodes'[e].delivery = "none" <=> episodes[e].delivery = "none"
<1>1. PICK kept \in Seq(Episode) :
         Alike(episodes, kept) /\ episodes' = Append(kept, Opened(seen, external))
    BY DEF OpensEpisode
<1>2. Opened(seen, external) \in Episode
    BY OpenedTypes
<1>3. Len(kept) = Len(episodes) /\ Len(kept) \in Nat
    BY <1>1, LenProperties DEF Alike
<1>4. /\ episodes' \in Seq(Episode) /\ Len(episodes') = Len(kept) + 1
      /\ episodes'[Len(kept) + 1] = Opened(seen, external)
      /\ \A e \in 1 .. Len(kept) : episodes'[e] = kept[e]
    BY <1>1, <1>2, <1>3
<1> QED BY <1>1, <1>3, <1>4, EpisodeFacts DEF Alike

LEMMA EvaluationTypes ==
    ASSUME TypeOK, NEW s \in Snapshot, NEW seen \in Preference, NEW external \in BOOLEAN,
           Evaluate(s, seen, external)
    PROVE  /\ episodes' \in Seq(Episode)
           /\ DOMAIN episodes \subseteq DOMAIN episodes'
           /\ \/ alert' = None
              \/ alert' \in AlertRow /\ alert'.episode \in DOMAIN episodes' \cup {None}
           /\ rearmed' \subseteq DOMAIN episodes'
<1>1. episodes \in Seq(Episode) /\ Len(episodes) \in Nat /\ DOMAIN episodes = 1 .. Len(episodes)
      /\ rearmed \subseteq DOMAIN episodes
    BY EpisodeFacts DEF TypeOK
<1>2. s.at \in Nat
    BY DEF Snapshot
<1>3. CASE UNCHANGED alertVars
    BY <1>3 DEF alertVars, TypeOK
<1>4. CASE EndsEpisode(s)
    <2>1. DOMAIN episodes' = DOMAIN episodes
        BY <1>1, <1>4, LenProperties DEF EndsEpisode, Alike
    <2> QED BY <1>1, <1>4, <2>1 DEF EndsEpisode
<1>5. CASE OpensEpisode(s, seen, external)
    <2>1. episodes' \in Seq(Episode) /\ Len(episodes') = Len(episodes) + 1
        BY <1>5, OpenedFacts
    <2>2. DOMAIN episodes' = 1 .. Len(episodes) + 1
        BY <2>1, LenProperties
    <2>3. alert' \in AlertRow /\ alert'.episode \in DOMAIN episodes'
        BY <1>1, <1>2, <1>5, <2>2 DEF OpensEpisode, AlertRow
    <2> QED BY <1>1, <1>5, <2>1, <2>2, <2>3 DEF OpensEpisode
<1>6. CASE KeepsEpisode(s, seen)
    <2>1. Current \in DOMAIN episodes \cup {None} /\ Current \in Nat \cup {None}
        BY <1>1, AlertFacts
    <2>2. alert' \in AlertRow /\ alert'.episode = Current /\ UNCHANGED <<episodes, rearmed>>
        BY <1>2, <1>6, <2>1 DEF KeepsEpisode, AlertRow
    <2> QED BY <1>1, <2>1, <2>2
<1> QED BY <1>3, <1>4, <1>5, <1>6, EvaluationCases

------------------------------------------------------------------------------
(* The preferences change in versions.                                      *)

LEMMA VersionRises ==
    ASSUME AlertInv, NEW p,
           p = preference \/ p.version = preference.version + 1
    PROVE  SpacedUnder(p) /\ BelowUnder(p)
<1>1. CASE p = preference
    BY <1>1 DEF AlertInv
<1>2. CASE p.version = preference.version + 1
    <2>1. \A e \in DOMAIN episodes : ~Under(e, p)
        <3>1. preference.version \in Nat
            BY DEF AlertInv, TypeOK, Preference
        <3>2. \A e \in DOMAIN episodes : episodes[e].revision \in Nat /\ episodes[e].revision <= preference.version
            BY EpisodeFacts DEF AlertInv, SeenInOrder, Episode
        <3> QED BY <1>2, <3>1, <3>2 DEF Under
    <2>2. SpacedUnder(p)
        BY <2>1 DEF AlertInv, SpacedUnder
    <2>3. BelowUnder(p)
        BY <2>1, AlertFacts DEF AlertInv, BelowUnder
    <2> QED BY <2>2, <2>3
<1> QED BY <1>1, <1>2

\* The parts of AlertInv an evaluation could disturb, under the preferences that
\* are in force when it ends: it knows them, or no event under them has been
\* generated.
LEMMA EvaluationKeepsOrder ==
    ASSUME AlertInv, NEW s \in Snapshot, NEW seen \in Preference, NEW external \in BOOLEAN,
           Evaluate(s, seen, external), s \in snapshots', snapshots \subseteq snapshots',
           SpacedUnder(preference'), BelowUnder(preference'),
           preference' \in Preference,
           seen.version = preference'.version => seen = preference',
           seen.version # preference'.version =>
               \A e \in DOMAIN episodes : Under(e, preference') => ~Delivered(e)
    PROVE  /\ CurrentIsOpen' /\ CurrentIsLast'
           /\ SpacedUnder(preference)' /\ BelowUnder(preference)'
           /\ \A e \in DOMAIN episodes' :
                 \/ /\ e \in DOMAIN episodes
                    /\ episodes'[e].revision = episodes[e].revision
                    /\ episodes'[e].grace = episodes[e].grace
                    /\ episodes'[e].delivery = "none" <=> episodes[e].delivery = "none"
                 \/ /\ e = Len(episodes) + 1
                    /\ episodes'[e] = Opened(seen, external)
<1> TypeOK
    BY DEF AlertInv
<1>1. /\ episodes \in Seq(Episode) /\ Len(episodes) \in Nat /\ DOMAIN episodes = 1 .. Len(episodes)
      /\ rearmed \subseteq DOMAIN episodes
      /\ \A e \in DOMAIN episodes : e # None
    BY EpisodeFacts DEF TypeOK
<1>2. /\ CurrentIsOpen /\ CurrentIsLast
    BY DEF AlertInv
<1>3. CASE UNCHANGED alertVars
    <2>1. UNCHANGED <<alert, episodes, rearmed>> /\ Current' = Current
        BY <1>3 DEF alertVars, Current
    <2>2. CurrentIsOpen' /\ CurrentIsLast'
        BY <1>2, <2>1 DEF CurrentIsOpen, CurrentIsLast
    <2>3. SpacedUnder(preference)'
        BY <2>1 DEF SpacedUnder, Delivered, Under
    <2>4. BelowUnder(preference)'
        BY <2>1 DEF BelowUnder, Under
    <2> QED BY <2>1, <2>2, <2>3, <2>4
<1>4. CASE EndsEpisode(s)
    <2>1. /\ DOMAIN episodes' = DOMAIN episodes
          /\ \A e \in DOMAIN episodes :
                /\ episodes'[e].revision = episodes[e].revision
                /\ episodes'[e].grace = episodes[e].grace
                /\ episodes'[e].delivery = "none" <=> episodes[e].delivery = "none"
        BY <1>1, <1>4, LenProperties DEF EndsEpisode, Alike
    <2>2. Current' = None /\ alert' # None
        BY <1>4, NoneAssumption DEF EndsEpisode, Current
    <2>3. CurrentIsOpen' /\ CurrentIsLast' /\ BelowUnder(preference)'
        BY <2>2 DEF CurrentIsOpen, CurrentIsLast, BelowUnder
    <2>4. rearmed \subseteq rearmed'
        BY <1>1, <1>4 DEF EndsEpisode
    <2>5. alert'.armed =>
            \A e \in DOMAIN episodes : Delivered(e) /\ Under(e, preference') => e \in rearmed'
        <3>1. CASE rearmed' = DOMAIN episodes
            BY <3>1
        <3>2. CASE alert = None
            BY <1>1, <1>2, <3>2 DEF CurrentIsLast
        <3>3. CASE alert # None /\ alert.armed
            BY <2>4, <3>3 DEF SpacedUnder
        <3> QED BY <1>4, <3>1, <3>2, <3>3 DEF EndsEpisode
    <2>6. \A e \in DOMAIN episodes : (Delivered(e)' <=> Delivered(e))
                                     /\ (Under(e, preference)' <=> Under(e, preference'))
        BY <2>1 DEF Delivered, Under
    <2>7. SpacedUnder(preference)'
        BY <2>1, <2>4, <2>5, <2>6 DEF SpacedUnder
    <2> QED BY <2>1, <2>3, <2>7
<1>5. CASE OpensEpisode(s, seen, external)
    <2> DEFINE new == Len(episodes) + 1
    <2>1. /\ episodes' \in Seq(Episode) /\ Len(episodes') = new
          /\ episodes'[new] = Opened(seen, external)
          /\ \A e \in DOMAIN episodes :
                /\ episodes'[e].revision = episodes[e].revision
                /\ episodes'[e].grace = episodes[e].grace
                /\ episodes'[e].delivery = "none" <=> episodes[e].delivery = "none"
        BY <1>5, OpenedFacts
    <2>2. DOMAIN episodes' = 1 .. new /\ new \in Nat
        BY <1>1, <2>1, LenProperties
    <2>3. /\ alert' = [status |-> "below", armed |-> FALSE, episode |-> new, at |-> s.at]
          /\ rearmed' = rearmed /\ Armed(seen) /\ s.available < seen.threshold
        BY <1>5 DEF OpensEpisode
    <2>4. s.at \in Nat
        BY DEF Snapshot
    <2>5. alert' \in AlertRow
        BY <2>2, <2>3, <2>4 DEF AlertRow
    <2>6. Current' = new /\ alert' # None /\ alert'.armed = FALSE /\ alert'.status = "below"
          /\ alert'.at = s.at
        BY <2>3, <2>5, NoneAssumption DEF Current
    <2>7. /\ Opened(seen, external).status = "open" /\ Opened(seen, external).revision = seen.version
          /\ Opened(seen, external).delivery = "none"
        BY DEF Opened
    <2>8. CurrentIsOpen' /\ CurrentIsLast'
        BY <2>1, <2>6, <2>7 DEF CurrentIsOpen, CurrentIsLast
    <2>9. BelowUnder(preference)'
        BY <2>1, <2>3, <2>6, <2>7 DEF BelowUnder, Under
    <2>10. \A e \in DOMAIN episodes' :
              \/ /\ e \in DOMAIN episodes /\ (Delivered(e)' <=> Delivered(e))
                 /\ (Under(e, preference)' <=> Under(e, preference'))
                 /\ episodes'[e].revision = episodes[e].revision
              \/ /\ e = new /\ ~Delivered(e)' /\ episodes'[e].revision = seen.version
        BY <1>1, <2>1, <2>2, <2>7 DEF Delivered, Under
    \* What was delivered under the new episode's preferences was followed by a rise.
    <2>11. ASSUME NEW i \in DOMAIN episodes, Delivered(i), Under(i, preference'),
                  seen.version = preference'.version
           PROVE  i \in rearmed
        <3>1. alert # None
            BY <1>1, <1>2 DEF CurrentIsLast
        <3>2. CASE PreferenceChanged(seen)
            <4>1. Current \in DOMAIN episodes /\ Current = Len(episodes)
                  /\ ~Under(Current, preference')
                BY <1>2, <2>11, <3>2, AlertFacts DEF PreferenceChanged, CurrentIsLast, Under
            <4>2. i # Current
                BY <2>11, <4>1
            <4>3. i < Current
                BY <1>1, <4>1, <4>2
            <4> QED BY <2>11, <4>1, <4>3 DEF SpacedUnder
        <3>3. CASE alert.armed
            BY <2>11, <3>1, <3>3 DEF SpacedUnder
        <3> QED BY <2>3, <3>1, <3>2, <3>3 DEF Armed
    <2>12. ASSUME NEW i \in DOMAIN episodes', NEW j \in DOMAIN episodes', i < j,
                  Delivered(i)', Under(i, preference)'
           PROVE  Under(j, preference)'
        <3>1. i \in DOMAIN episodes /\ Delivered(i) /\ Under(i, preference')
            BY <1>1, <2>2, <2>10, <2>12
        <3>2. CASE j \in DOMAIN episodes
            BY <2>10, <2>12, <3>1, <3>2, <1>1 DEF SpacedUnder
        <3>3. CASE j = new
            <4>1. seen.version = preference'.version
                BY <3>1
            <4> QED BY <2>1, <2>7, <3>3, <4>1 DEF Under
        <3> QED BY <1>1, <2>2, <3>2, <3>3
    <2>13. ASSUME NEW i \in DOMAIN episodes', NEW j \in DOMAIN episodes', i < j,
                  episodes'[i].revision = episodes'[j].revision,
                  Delivered(i)', Delivered(j)' \/ Under(j, preference)'
           PROVE  i \in rearmed'
        <3>1. i \in DOMAIN episodes /\ Delivered(i) /\ episodes'[i].revision = episodes[i].revision
            BY <1>1, <2>2, <2>10, <2>13
        <3>2. CASE j \in DOMAIN episodes
            <4>1. /\ episodes'[j].revision = episodes[j].revision
                  /\ Delivered(j) \/ Under(j, preference')
                <5>1. /\ Delivered(j)' <=> Delivered(j)
                      /\ Under(j, preference)' <=> Under(j, preference')
                      /\ episodes'[j].revision = episodes[j].revision
                    BY <2>1, <3>2 DEF Delivered, Under
                <5> QED BY <2>13, <5>1
            <4>2. episodes[i].revision = episodes[j].revision /\ i < j
                BY <2>13, <3>1, <4>1
            <4> QED BY <2>3, <3>1, <3>2, <4>1, <4>2 DEF SpacedUnder
        <3>3. CASE j = new
            <4>1. episodes'[j].revision = seen.version /\ ~Delivered(j)'
                BY <1>1, <2>2, <2>10, <3>3
            <4>2. seen.version = preference'.version
                BY <2>13, <4>1 DEF Under
            <4>3. Under(i, preference')
                BY <2>13, <3>1, <4>1, <4>2 DEF Under
            <4> QED BY <2>3, <2>11, <3>1, <4>2, <4>3
        <3> QED BY <1>1, <2>2, <3>2, <3>3
    <2>14. SpacedUnder(preference)'
        BY <2>6, <2>12, <2>13 DEF SpacedUnder
    <2> QED BY <1>1, <2>1, <2>2, <2>8, <2>9, <2>14
<1>6. CASE KeepsEpisode(s, seen)
    <2>1. /\ alert' = [status |-> "below", armed |-> FALSE, episode |-> Current, at |-> s.at]
          /\ UNCHANGED <<episodes, rearmed>> /\ ~Armed(seen) /\ s.available < seen.threshold
        BY <1>6 DEF KeepsEpisode
    <2>2. /\ alert # None /\ ~PreferenceChanged(seen)
        BY <2>1 DEF Armed
    <2>3. Current \in Nat \cup {None} /\ s.at \in Nat
        BY <1>1, AlertFacts DEF Snapshot
    <2>4. alert' \in AlertRow
        BY <2>1, <2>3 DEF AlertRow
    <2>5. Current' = Current /\ alert' # None /\ alert'.armed = FALSE /\ alert'.status = "below"
          /\ alert'.at = s.at
        BY <2>1, <2>4, NoneAssumption DEF Current
    <2>6. CurrentIsOpen' /\ CurrentIsLast'
        BY <1>2, <2>1, <2>5 DEF CurrentIsOpen, CurrentIsLast
    <2>7. SpacedUnder(preference)'
        BY <2>1, <2>5 DEF SpacedUnder, Delivered, Under
    <2>8. BelowUnder(preference)'
        <3> SUFFICES ASSUME Current # None, episodes[Current].revision = preference'.version
                     PROVE  \E x \in snapshots' : x.at = alert'.at /\ x.available < preference'.threshold
            BY <2>1, <2>5 DEF BelowUnder, Under
        <3>1. seen.version = preference'.version
            BY <2>2 DEF PreferenceChanged
        <3> QED BY <2>1, <2>5, <3>1
    <2> QED BY <2>1, <2>6, <2>7, <2>8
<1> QED BY <1>3, <1>4, <1>5, <1>6, EvaluationCases

------------------------------------------------------------------------------
LEMMA InitInv == Init => AlertInv
<1> SUFFICES ASSUME Init PROVE AlertInv
    OBVIOUS
<1>1. episodes = <<>> /\ alert = None /\ saving = None /\ rearmed = {} /\ snapshots = {}
      /\ clock = 0 /\ aged = {} /\ writer = [t \in Writers |-> Resting]
    BY DEF Init
<1>2. preference \in Preference
    BY DEF Init, Preference
<1>3. plan \in Inputs
    BY BoundsAssumption DEF Init, Inputs
<1>4. episodes \in Seq(Episode) /\ DOMAIN episodes = {} /\ Current = None
    BY <1>1 DEF Current
<1>5. writer \in [Writers -> WriterState] /\ \A t \in Writers : writer[t].stage = "idle"
    BY <1>1 DEF WriterState, Resting
<1>6. TypeOK
    BY <1>1, <1>2, <1>3, <1>4, <1>5, BoundsAssumption DEF TypeOK
<1>7. CurrentIsOpen /\ CurrentIsLast /\ BelowUnder(preference)
    BY <1>1, <1>4 DEF CurrentIsOpen, CurrentIsLast, BelowUnder
<1>8. SeenInOrder /\ StaleEvaluationsFirst
    BY <1>1, <1>4, <1>5 DEF SeenInOrder, StaleEvaluationsFirst
<1>9. SpacedUnder(preference)
    BY <1>1, <1>4 DEF SpacedUnder
<1> QED BY <1>6, <1>7, <1>8, <1>9 DEF AlertInv

LEMMA WriterFacts ==
    ASSUME TypeOK, NEW t \in Writers
    PROVE  /\ writer[t] \in WriterState
           /\ writer[t].stage = "begun" => writer[t].at \in Nat
           /\ writer[t].stage = "computed" =>
                 /\ writer[t].at \in Nat /\ writer[t].plan \in Inputs
                 /\ writer[t].seen \in Preference /\ writer[t].external \in BOOLEAN
BY DEF TypeOK, WriterState, Resting

LEMMA SnapshotTypes ==
    ASSUME TypeOK, NEW p \in Inputs, NEW at \in Nat
    PROVE  SnapshotOf(p, at) \in Snapshot
<1> DEFINE same == {s \in snapshots : /\ s.choice = p.choice
                                      /\ s.observed = p.observed
                                      /\ s.freshness = Freshness(p)}
<1>1. snapshots \subseteq Snapshot
    BY DEF TypeOK
<1>2. CASE same # {}
    <2>1. SnapshotOf(p, at) = CHOOSE s \in same : TRUE
        BY <1>2 DEF SnapshotOf
    <2>2. (CHOOSE s \in same : TRUE) \in same
        BY <1>2
    <2> QED BY <1>1, <2>1, <2>2
<1>3. CASE same = {}
    <2>1. SnapshotOf(p, at) =
             [choice |-> p.choice, observed |-> p.observed, freshness |-> Freshness(p),
              available |-> p.available[p.choice], at |-> at]
        BY <1>3 DEF SnapshotOf
    <2>2. Freshness(p) \in {"current", "manual", "stale"}
        BY DEF Freshness
    <2>3. p.choice \in Choices /\ p.observed \in Nat /\ p.available[p.choice] \in Amounts
        BY BoundsAssumption DEF Inputs
    <2> QED BY <2>1, <2>2, <2>3 DEF Snapshot
<1> QED BY <1>2, <1>3

LEMMA LatestTypes == Latest \in snapshots \cup {None}
<1> DEFINE last == {s \in snapshots : \A other \in snapshots : other.at <= s.at}
<1>1. CASE last = {}
    BY <1>1 DEF Latest
<1>2. CASE last # {}
    <2>1. Latest = CHOOSE s \in last : TRUE
        BY <1>2 DEF Latest
    <2>2. (CHOOSE s \in last : TRUE) \in last
        BY <1>2
    <2> QED BY <2>1, <2>2
<1> QED BY <1>1, <1>2

\* Steps that leave the alert, its episodes, the snapshots and the preferences.
LEMMA QuietKeepsOrder ==
    ASSUME AlertInv, UNCHANGED <<alertVars, preference, snapshots>>
    PROVE  /\ CurrentIsOpen' /\ CurrentIsLast'
           /\ SpacedUnder(preference)' /\ BelowUnder(preference)'
<1>1. UNCHANGED <<alert, episodes, rearmed, preference, snapshots>> /\ Current' = Current
    BY DEF alertVars, Current
<1>2. CurrentIsOpen' /\ CurrentIsLast'
    BY <1>1 DEF AlertInv, CurrentIsOpen, CurrentIsLast
<1>3. SpacedUnder(preference)'
    BY <1>1 DEF AlertInv, SpacedUnder, Delivered, Under
<1>4. BelowUnder(preference)'
    BY <1>1 DEF AlertInv, BelowUnder, Under
<1> QED BY <1>2, <1>3, <1>4

\* A transaction begins, computes what it knows now, or ends.
LEMMA WriterStepKeeps ==
    ASSUME AlertInv, NEW t \in Writers, NEW after \in WriterState,
           \/ after.stage # "computed"
           \/ after.seen = preference /\ \A other \in Writers : writer[other].stage # "computed",
           writer' = [writer EXCEPT ![t] = after],
           UNCHANGED <<preference, saving, episodes>>
    PROVE  SeenInOrder' /\ StaleEvaluationsFirst'
<1>1. writer \in [Writers -> WriterState] /\ preference.version \in Int
    BY DEF AlertInv, TypeOK, Preference
<1>2. \A u \in Writers : writer'[u] = IF u = t THEN after ELSE writer[u]
    BY <1>1
<1>3. CASE after.stage # "computed"
    BY <1>2, <1>3 DEF AlertInv, SeenInOrder, StaleEvaluationsFirst, Delivered, Under
<1>4. CASE /\ after.seen = preference
           /\ \A other \in Writers : writer[other].stage # "computed"
    BY <1>1, <1>2, <1>4 DEF AlertInv, SeenInOrder, StaleEvaluationsFirst, Delivered, Under
<1> QED BY <1>3, <1>4

LEMMA BeginKeeps ==
    ASSUME AlertInv, NEW t \in Writers, Begin(t)
    PROVE  AlertInv'
<1> DEFINE after == [stage |-> "begun", at |-> clock + 1]
<1>1. clock \in 0 .. MaxClock /\ clock < MaxClock /\ MaxClock \in Nat
    BY BoundsAssumption DEF AlertInv, TypeOK, Begin
<1>2. after \in WriterState /\ after.stage = "begun"
    BY <1>1 DEF WriterState
<1>3. writer' = [writer EXCEPT ![t] = after] /\ clock' = clock + 1
      /\ UNCHANGED <<plan, aged, snapshots, preference, saving, alertVars>>
      /\ UNCHANGED <<alert, episodes, rearmed>>
    BY DEF Begin, alertVars
<1> HIDE DEF after
<1>4. TypeOK'
    BY <1>1, <1>2, <1>3 DEF AlertInv, TypeOK, Inputs
<1> QED BY <1>2, <1>3, <1>4, WriterStepKeeps, QuietKeepsOrder DEF AlertInv

LEMMA ComputeKeeps ==
    ASSUME AlertInv, NEW t \in Writers, Compute(t)
    PROVE  AlertInv'
<1> TypeOK
    BY DEF AlertInv
<1>1. PICK p \in Included \cup Observed, external \in BOOLEAN :
         /\ p.observed <= MaxObserved
         /\ writer' = [writer EXCEPT ![t] = [stage |-> "computed", at |-> @.at, plan |-> p,
                                             seen |-> preference, external |-> external]]
    BY DEF Compute
<1>2. /\ \A other \in Writers : writer[other].stage # "computed"
      /\ UNCHANGED <<clock, plan, aged, snapshots, preference, saving, alertVars>>
      /\ UNCHANGED <<alert, episodes, rearmed>> /\ writer[t].stage = "begun"
    BY DEF Compute, alertVars
<1>3. p \in Inputs
    <2>1. plan \in Inputs /\ plan.observed \in Nat /\ MaxObserved \in Nat
        BY BoundsAssumption DEF TypeOK, Inputs
    <2>2. CASE p \in Included
        BY <2>1, <2>2 DEF Included, Inputs
    <2>3. CASE p \in Observed
        <3>1. PICK available \in [Choices -> Amounts] :
                 p = [plan EXCEPT !.observed = @ + 1, !.available = available]
            BY <2>3 DEF Observed
        <3>2. p.observed = plan.observed + 1
            BY <2>1, <3>1 DEF Inputs
        <3>3. plan.observed + 1 \in 0 .. MaxObserved
            BY <1>1, <2>1, <3>2
        <3> DEFINE moved == [plan EXCEPT !.observed = plan.observed + 1]
        <3>4. moved \in Inputs
            BY <2>1, <3>3 DEF Inputs
        <3>5. p = [moved EXCEPT !.available = available]
            BY <3>1, <2>1 DEF Inputs
        <3> HIDE DEF moved
        <3> QED BY <3>4, <3>5 DEF Inputs
    <2> QED BY <2>2, <2>3
<1> DEFINE after == [stage |-> "computed", at |-> writer[t].at, plan |-> p,
                     seen |-> preference, external |-> external]
<1>4. after \in WriterState /\ after.seen = preference
    <2>1. writer[t].at \in Nat /\ preference \in Preference
        BY <1>2, WriterFacts DEF TypeOK
    <2> QED BY <1>3, <2>1 DEF WriterState
<1>5. writer' = [writer EXCEPT ![t] = after]
    BY <1>1
<1> HIDE DEF after
<1>6. TypeOK'
    BY <1>2, <1>4, <1>5 DEF TypeOK
<1> QED BY <1>2, <1>4, <1>5, <1>6, WriterStepKeeps, QuietKeepsOrder DEF AlertInv

LEMMA RollbackKeeps ==
    ASSUME AlertInv, NEW t \in Writers, Rollback(t)
    PROVE  AlertInv'
<1>1. Resting \in WriterState /\ Resting.stage = "idle"
    BY DEF WriterState, Resting
<1>2. writer' = [writer EXCEPT ![t] = Resting]
      /\ UNCHANGED <<clock, plan, aged, snapshots, preference, saving, alertVars>>
      /\ UNCHANGED <<alert, episodes, rearmed>>
    BY DEF Rollback, alertVars
<1>3. TypeOK'
    BY <1>1, <1>2 DEF AlertInv, TypeOK
<1> QED BY <1>1, <1>2, <1>3, WriterStepKeeps, QuietKeepsOrder DEF AlertInv

LEMMA AgeKeeps ==
    ASSUME AlertInv, Age
    PROVE  AlertInv'
<1>1. /\ aged' = aged \cup {plan.observed}
      /\ UNCHANGED <<clock, plan, snapshots, writer, preference, saving, alertVars>>
      /\ UNCHANGED <<alert, episodes, rearmed>>
    BY DEF Age, alertVars
<1>2. TypeOK'
    BY <1>1 DEF AlertInv, TypeOK, Inputs
<1>3. SeenInOrder' /\ StaleEvaluationsFirst'
    BY <1>1 DEF AlertInv, SeenInOrder, StaleEvaluationsFirst, Delivered, Under
<1> QED BY <1>1, <1>2, <1>3, QuietKeepsOrder DEF AlertInv

LEMMA BeginUpdateKeeps ==
    ASSUME AlertInv, BeginUpdatePreferences
    PROVE  AlertInv'
<1>1. /\ UNCHANGED <<planVars, preference, alertVars>>
      /\ UNCHANGED <<clock, plan, aged, snapshots, writer, alert, episodes, rearmed>>
    BY DEF BeginUpdatePreferences, planVars, alertVars
<1>2. PICK on \in BOOLEAN, threshold \in Thresholds :
         saving' = [to |-> [on |-> on, version |-> preference.version + 1, threshold |-> threshold],
                    locked |-> {e \in DOMAIN episodes : ~on /\ episodes[e].status = "open"},
                    quieted |-> {e \in DOMAIN episodes : ~on /\ episodes[e].delivery = "queued"},
                    latest |-> IF on THEN Latest ELSE None]
    BY DEF BeginUpdatePreferences
<1>3. [on |-> on, version |-> preference.version + 1, threshold |-> threshold] \in Preference
    BY DEF AlertInv, TypeOK, Preference
<1>4. (IF on THEN Latest ELSE None) \in snapshots \cup {None}
    BY LatestTypes
<1>5. saving'.to.version = preference.version + 1
      /\ saving' \in [to : Preference, locked : SUBSET DOMAIN episodes,
                      quieted : SUBSET DOMAIN episodes, latest : snapshots \cup {None}]
    BY <1>2, <1>3, <1>4
<1>6. TypeOK'
    BY <1>1, <1>5 DEF AlertInv, TypeOK
<1>7. SeenInOrder' /\ StaleEvaluationsFirst'
    BY <1>1, <1>5 DEF AlertInv, SeenInOrder, StaleEvaluationsFirst, Delivered, Under
<1> QED BY <1>1, <1>6, <1>7, QuietKeepsOrder DEF AlertInv

------------------------------------------------------------------------------
LEMMA PersistKeeps ==
    ASSUME AlertInv, NEW t \in Writers, PersistSnapshot(t)
    PROVE  AlertInv'
<1> TypeOK
    BY DEF AlertInv
<1> DEFINE s == SnapshotOf(writer[t].plan, writer[t].at)
           seen == writer[t].seen
           external == writer[t].external
<1>1. /\ writer[t].stage = "computed"
      /\ snapshots' = snapshots \cup {s}
      /\ Evaluate(s, seen, external)
      /\ plan' = writer[t].plan
      /\ writer' = [writer EXCEPT ![t] = Resting]
      /\ UNCHANGED <<clock, aged, preference, saving>>
    BY DEF PersistSnapshot
<1>2. /\ writer[t].at \in Nat /\ writer[t].plan \in Inputs
      /\ seen \in Preference /\ external \in BOOLEAN
    BY <1>1, WriterFacts
<1>3. s \in Snapshot
    BY <1>2, SnapshotTypes
<1> HIDE DEF s
<1>4. SpacedUnder(preference') /\ BelowUnder(preference') /\ preference' \in Preference
    BY <1>1, VersionRises DEF TypeOK
<1>5. /\ seen.version = preference'.version => seen = preference'
      /\ seen.version # preference'.version =>
            \A e \in DOMAIN episodes : Under(e, preference') => ~Delivered(e)
    BY <1>1 DEF AlertInv, SeenInOrder, StaleEvaluationsFirst
<1>6. /\ CurrentIsOpen' /\ CurrentIsLast'
      /\ SpacedUnder(preference)' /\ BelowUnder(preference)'
      /\ \A e \in DOMAIN episodes' :
            \/ /\ e \in DOMAIN episodes
               /\ episodes'[e].revision = episodes[e].revision
               /\ episodes'[e].grace = episodes[e].grace
               /\ episodes'[e].delivery = "none" <=> episodes[e].delivery = "none"
            \/ /\ e = Len(episodes) + 1
               /\ episodes'[e] = Opened(seen, external)
    <2> HIDE DEF seen, external
    <2> QED BY <1>1, <1>2, <1>3, <1>4, <1>5, EvaluationKeepsOrder
<1>7. /\ episodes' \in Seq(Episode)
      /\ DOMAIN episodes \subseteq DOMAIN episodes'
      /\ \/ alert' = None
         \/ alert' \in AlertRow /\ alert'.episode \in DOMAIN episodes' \cup {None}
      /\ rearmed' \subseteq DOMAIN episodes'
    BY <1>1, <1>2, <1>3, EvaluationTypes
<1>8. TypeOK'
    <2>1. \/ saving' = None
          \/ saving' \in [to : Preference, locked : SUBSET DOMAIN episodes',
                          quieted : SUBSET DOMAIN episodes', latest : snapshots' \cup {None}]
        <3>1. CASE saving = None
            BY <1>1, <3>1
        <3>2. CASE saving \in [to : Preference, locked : SUBSET DOMAIN episodes,
                               quieted : SUBSET DOMAIN episodes, latest : snapshots \cup {None}]
            BY <1>1, <1>7, <3>2
        <3> QED BY <3>1, <3>2 DEF TypeOK
    <2>2. Resting \in WriterState
        BY DEF WriterState
    <2>3. writer' \in [Writers -> WriterState]
        BY <1>1, <2>2 DEF TypeOK
    <2>4. snapshots' \subseteq Snapshot /\ plan' \in Inputs
        BY <1>1, <1>2, <1>3 DEF TypeOK
    <2> QED BY <1>1, <1>7, <2>1, <2>3, <2>4 DEF TypeOK
<1>9. \A u \in Writers : writer'[u].stage = "computed" => FALSE
    <2>1. \A u \in Writers : u # t => writer'[u] = writer[u]
        BY <1>1 DEF TypeOK
    <2>2. writer'[t].stage = "idle"
        BY <1>1 DEF TypeOK, Resting
    <2> QED BY <1>1, <2>1, <2>2 DEF AlertInv, SeenInOrder
<1>10. SeenInOrder'
    <2>1. seen.version <= preference.version
        BY <1>1 DEF AlertInv, SeenInOrder
    <2>2. \A e \in DOMAIN episodes' : episodes'[e].revision <= preference'.version
        BY <1>1, <1>6, <2>1 DEF AlertInv, SeenInOrder, Opened
    <2> QED BY <1>1, <1>9, <2>2 DEF AlertInv, SeenInOrder
<1>11. StaleEvaluationsFirst'
    <2>1. \A e \in DOMAIN episodes' : Delivered(e)' => ~episodes'[e].grace
        BY <1>6 DEF AlertInv, StaleEvaluationsFirst, Delivered, Opened
    <2> QED BY <1>9, <2>1 DEF StaleEvaluationsFirst
<1> QED BY <1>6, <1>8, <1>10, <1>11 DEF AlertInv

\* The version rises while evaluations with the old one may be under way.
LEMMA NewVersion ==
    ASSUME AlertInv,
           preference' \in Preference, preference'.version = preference.version + 1,
           UNCHANGED writer, saving' = None,
           \A e \in DOMAIN episodes' :
              \/ /\ e \in DOMAIN episodes
                 /\ episodes'[e].revision = episodes[e].revision
                 /\ episodes'[e].grace = episodes[e].grace
                 /\ episodes'[e].delivery = "none" <=> episodes[e].delivery = "none"
              \/ /\ episodes'[e].revision = preference'.version
                 /\ episodes'[e].grace /\ episodes'[e].delivery = "none"
    PROVE  SeenInOrder' /\ StaleEvaluationsFirst'
<1>1. preference.version \in Nat /\ TypeOK
    BY DEF AlertInv, TypeOK, Preference
<1>2. \A e \in DOMAIN episodes : episodes[e].revision \in Nat /\ episodes[e].revision <= preference.version
    BY <1>1, EpisodeFacts DEF AlertInv, SeenInOrder, Episode
<1>3. \A e \in DOMAIN episodes' : episodes'[e].revision <= preference'.version
    BY <1>1, <1>2
<1>4. \A t \in Writers : writer[t].stage = "computed" =>
          writer[t].seen.version <= preference.version /\ writer[t].seen.version \in Nat
    BY <1>1, WriterFacts DEF AlertInv, SeenInOrder, Preference
<1>5. SeenInOrder'
    BY <1>1, <1>3, <1>4 DEF AlertInv, SeenInOrder
<1>6. \A e \in DOMAIN episodes' : Delivered(e)' => ~episodes'[e].grace
    BY DEF AlertInv, StaleEvaluationsFirst, Delivered
<1>7. \A e \in DOMAIN episodes' : Under(e, preference)' => episodes'[e].grace
    BY <1>1, <1>2 DEF Under
<1> QED BY <1>5, <1>6, <1>7 DEF StaleEvaluationsFirst

LEMMA SavingFacts ==
    ASSUME AlertInv, saving # None
    PROVE  /\ saving.to \in Preference /\ saving.to.version = preference.version + 1
           /\ saving.locked \subseteq DOMAIN episodes /\ saving.quieted \subseteq DOMAIN episodes
           /\ saving.latest \in snapshots \cup {None}
BY DEF AlertInv, TypeOK, SeenInOrder

LEMMA ReevaluateKeeps ==
    ASSUME AlertInv, saving # None, Reevaluate, preference' = saving.to, saving' = None,
           UNCHANGED <<clock, plan, aged, snapshots, writer>>
    PROVE  AlertInv'
<1> TypeOK
    BY DEF AlertInv
<1>1. /\ preference' \in Preference /\ preference'.version = preference.version + 1
      /\ saving.latest \in snapshots \cup {None}
    BY SavingFacts
<1>2. SpacedUnder(preference') /\ BelowUnder(preference')
    BY <1>1, VersionRises
<1>3. CASE saving.latest = None
    <2>1. UNCHANGED <<alert, episodes, rearmed>>
        BY <1>3 DEF Reevaluate, alertVars
    <2>2. TypeOK'
        BY <1>1, <2>1 DEF TypeOK
    <2>3. SeenInOrder' /\ StaleEvaluationsFirst'
        BY <1>1, <2>1, NewVersion
    <2>4. CurrentIsOpen' /\ CurrentIsLast' /\ SpacedUnder(preference)' /\ BelowUnder(preference)'
        <3>1. Current' = Current
            BY <2>1 DEF Current
        <3>2. CurrentIsOpen' /\ CurrentIsLast'
            BY <2>1, <3>1 DEF AlertInv, CurrentIsOpen, CurrentIsLast
        <3>3. SpacedUnder(preference)'
            BY <1>2, <2>1 DEF SpacedUnder, Delivered, Under
        <3>4. BelowUnder(preference)'
            BY <1>2, <2>1, <3>1 DEF BelowUnder, Under
        <3> QED BY <3>2, <3>3, <3>4
    <2> QED BY <2>2, <2>3, <2>4 DEF AlertInv
<1>4. CASE saving.latest # None
    <2> DEFINE s == saving.latest
               seen == saving.to
    <2>1. s \in snapshots /\ s \in Snapshot /\ Evaluate(s, seen, FALSE)
        BY <1>1, <1>4 DEF Reevaluate, TypeOK
    <2>2. seen = preference' /\ seen \in Preference
        BY <1>1
    <2> HIDE DEF s, seen
    <2>3. /\ CurrentIsOpen' /\ CurrentIsLast'
          /\ SpacedUnder(preference)' /\ BelowUnder(preference)'
          /\ \A e \in DOMAIN episodes' :
                \/ /\ e \in DOMAIN episodes
                   /\ episodes'[e].revision = episodes[e].revision
                   /\ episodes'[e].grace = episodes[e].grace
                   /\ episodes'[e].delivery = "none" <=> episodes[e].delivery = "none"
                \/ /\ e = Len(episodes) + 1
                   /\ episodes'[e] = Opened(seen, FALSE)
        BY <1>1, <1>2, <2>1, <2>2, EvaluationKeepsOrder
    <2>4. /\ episodes' \in Seq(Episode)
          /\ DOMAIN episodes \subseteq DOMAIN episodes'
          /\ \/ alert' = None
             \/ alert' \in AlertRow /\ alert'.episode \in DOMAIN episodes' \cup {None}
          /\ rearmed' \subseteq DOMAIN episodes'
        BY <2>1, <2>2, EvaluationTypes
    <2>5. TypeOK'
        BY <1>1, <2>4 DEF TypeOK
    <2>6. /\ Opened(seen, FALSE).revision = preference'.version
          /\ Opened(seen, FALSE).grace /\ Opened(seen, FALSE).delivery = "none"
        BY <2>2 DEF Opened
    <2>7. SeenInOrder' /\ StaleEvaluationsFirst'
        BY <1>1, <2>3, <2>6, NewVersion
    <2> QED BY <2>3, <2>5, <2>7 DEF AlertInv
<1> QED BY <1>3, <1>4

LEMMA SwitchOffKeeps ==
    ASSUME AlertInv, saving # None, SwitchOff, preference' = saving.to, saving' = None,
           UNCHANGED <<clock, plan, aged, snapshots, writer>>
    PROVE  AlertInv'
<1> TypeOK
    BY DEF AlertInv
<1>1. /\ preference' \in Preference /\ preference'.version = preference.version + 1
    BY SavingFacts
<1>2. SpacedUnder(preference') /\ BelowUnder(preference')
    BY <1>1, VersionRises
<1>3. /\ episodes \in Seq(Episode) /\ Len(episodes) \in Nat /\ DOMAIN episodes = 1 .. Len(episodes)
      /\ \A e \in DOMAIN episodes : episodes[e] \in Episode
    BY EpisodeFacts
<1> DEFINE ended(e) == IF e \in saving.locked THEN "cancelled" ELSE episodes[e].status
           quiet(e) == IF e \in saving.quieted /\ episodes[e].delivery = "queued"
                       THEN "suppressed" ELSE episodes[e].delivery
           first(e) == [episodes[e] EXCEPT !.status = ended(e)]
           row(e) == [first(e) EXCEPT !.delivery = quiet(e)]
<1>4. ASSUME NEW e \in DOMAIN episodes
      PROVE  /\ row(e) \in Episode
             /\ row(e).revision = episodes[e].revision /\ row(e).grace = episodes[e].grace
             /\ row(e).delivery = "none" <=> episodes[e].delivery = "none"
    <2>1. /\ ended(e) \in {"open", "recovered", "unavailable", "cancelled"}
          /\ quiet(e) \in {"none", "queued", "sending", "sent", "suppressed"}
          /\ quiet(e) = "none" <=> episodes[e].delivery = "none"
        BY <1>3 DEF Episode
    <2> HIDE DEF ended, quiet
    <2>2. first(e) \in Episode /\ first(e).revision = episodes[e].revision
          /\ first(e).grace = episodes[e].grace
        BY <1>3, <2>1 DEF Episode
    <2> HIDE DEF first
    <2>3. row(e) \in Episode /\ row(e).revision = first(e).revision
          /\ row(e).grace = first(e).grace /\ row(e).delivery = quiet(e)
        BY <2>1, <2>2 DEF Episode
    <2> QED BY <2>1, <2>2, <2>3
<1>5. episodes' = [e \in DOMAIN episodes |-> row(e)]
    <2>1. \A e \in DOMAIN episodes :
             row(e) = [episodes[e] EXCEPT
                            !.status = IF e \in saving.locked THEN "cancelled" ELSE @,
                            !.delivery = IF e \in saving.quieted /\ @ = "queued"
                                         THEN "suppressed" ELSE @]
        BY <1>3 DEF Episode
    <2> QED BY <2>1 DEF SwitchOff
<1> HIDE DEF row
<1>6. /\ episodes' \in Seq(Episode) /\ DOMAIN episodes' = DOMAIN episodes
      /\ Len(episodes') = Len(episodes)
      /\ \A e \in DOMAIN episodes : episodes'[e] = row(e)
    <2>1. episodes' \in [1 .. Len(episodes) -> Episode]
        BY <1>3, <1>4, <1>5
    <2>2. episodes' \in Seq(Episode)
        BY <1>3, <2>1
    <2>3. DOMAIN episodes' = DOMAIN episodes
        BY <1>5
    <2> QED BY <1>3, <1>5, <2>2, <2>3, LenProperties
<1>7. SeenInOrder' /\ StaleEvaluationsFirst'
    BY <1>1, <1>4, <1>6, NewVersion
<1>8. CASE alert = None
    <2>1. alert' = None /\ rearmed' = rearmed /\ Current' = None
        BY <1>8 DEF SwitchOff, Current
    <2>2. episodes = <<>>
        BY <1>8 DEF AlertInv, CurrentIsLast
    <2>3. episodes' = <<>> /\ DOMAIN episodes' = {}
        BY <1>6, <2>2
    <2>4. TypeOK'
        BY <1>1, <1>6, <2>1 DEF TypeOK
    <2>5. CurrentIsOpen' /\ CurrentIsLast' /\ BelowUnder(preference)' /\ SpacedUnder(preference)'
        BY <2>1, <2>3 DEF CurrentIsOpen, CurrentIsLast, BelowUnder, SpacedUnder
    <2> QED BY <1>7, <2>4, <2>5 DEF AlertInv
<1>9. CASE alert # None
    <2>1. alert' = [alert EXCEPT !.status = "unavailable", !.armed = TRUE, !.episode = None]
          /\ rearmed' = rearmed
        BY <1>9 DEF SwitchOff
    <2> DEFINE r1 == [alert EXCEPT !.status = "unavailable"]
               r2 == [r1 EXCEPT !.armed = TRUE]
               r3 == [r2 EXCEPT !.episode = None]
    <2>2. alert \in AlertRow
        BY <1>9 DEF TypeOK
    <2>3. alert' = r3
        BY <2>1
    <2>4. r1 \in AlertRow
        BY <2>2 DEF AlertRow
    <2> HIDE DEF r1
    <2>5. r2 \in AlertRow
        BY <2>4 DEF AlertRow
    <2> HIDE DEF r2
    <2>6. r3 \in AlertRow /\ r3.episode = None
        BY <2>5 DEF AlertRow
    <2>7. alert' \in AlertRow /\ alert'.episode = None /\ alert' # None /\ Current' = None
        BY <2>3, <2>6, NoneAssumption DEF Current
    <2>8. TypeOK'
        BY <1>1, <1>6, <2>1, <2>7 DEF TypeOK
    <2>9. CurrentIsOpen' /\ CurrentIsLast' /\ BelowUnder(preference)'
        BY <2>7 DEF CurrentIsOpen, CurrentIsLast, BelowUnder
    <2>10. \A e \in DOMAIN episodes : ~Under(e, preference)'
        <3>1. \A e \in DOMAIN episodes : episodes[e].revision \in Nat /\ episodes[e].revision <= preference.version
            BY <1>3 DEF AlertInv, SeenInOrder, Episode
        <3>2. preference.version \in Nat
            BY DEF TypeOK, Preference
        <3> QED BY <1>1, <1>4, <1>6, <3>1, <3>2 DEF Under
    <2>11. SpacedUnder(preference)'
        <3>1. \A e \in DOMAIN episodes : Delivered(e)' <=> Delivered(e)
            BY <1>4, <1>6 DEF Delivered
        <3> QED BY <1>4, <1>6, <2>1, <2>10, <3>1 DEF AlertInv, SpacedUnder
    <2> QED BY <1>7, <2>8, <2>9, <2>11 DEF AlertInv
<1> QED BY <1>8, <1>9

LEMMA EnsureKeeps ==
    ASSUME AlertInv, EnsurePreferences
    PROVE  AlertInv'
<1>1. /\ UNCHANGED <<clock, plan, aged, snapshots, writer, saving, alert, episodes, rearmed>>
      /\ saving = None /\ preference' = [preference EXCEPT !.version = @ + 1]
    BY DEF EnsurePreferences, planVars, alertVars
<1>2. preference' \in Preference /\ preference'.version = preference.version + 1
    BY <1>1 DEF AlertInv, TypeOK, Preference
<1>3. SpacedUnder(preference') /\ BelowUnder(preference')
    BY <1>2, VersionRises
<1>4. TypeOK'
    BY <1>1, <1>2 DEF AlertInv, TypeOK
<1>5. SeenInOrder' /\ StaleEvaluationsFirst'
    BY <1>1, <1>2, NewVersion
<1>6. Current' = Current
    BY <1>1 DEF Current
<1>7. CurrentIsOpen' /\ CurrentIsLast'
    BY <1>1, <1>6 DEF AlertInv, CurrentIsOpen, CurrentIsLast
<1>8. SpacedUnder(preference)'
    BY <1>1, <1>3 DEF SpacedUnder, Delivered, Under
<1>9. BelowUnder(preference)'
    BY <1>1, <1>3, <1>6 DEF BelowUnder, Under
<1> QED BY <1>4, <1>5, <1>7, <1>8, <1>9 DEF AlertInv

------------------------------------------------------------------------------
(* The worker's steps touch one field of some episodes.                     *)

\* Neither the current alert nor what is spaced depends on a delivery that goes
\* on, or on the grace of an episode.
LEMMA EpisodesGoOn ==
    ASSUME AlertInv, UNCHANGED <<planVars, preference, saving, alert, rearmed>>,
           episodes' \in Seq(Episode), DOMAIN episodes' = DOMAIN episodes,
           \A e \in DOMAIN episodes :
              /\ episodes'[e].status = episodes[e].status
              /\ episodes'[e].revision = episodes[e].revision
              /\ episodes'[e].delivery = "none" <=> episodes[e].delivery = "none",
           StaleEvaluationsFirst'
    PROVE  AlertInv'
<1>1. UNCHANGED <<clock, plan, aged, snapshots, writer>> /\ Current' = Current
    BY DEF planVars, Current
<1>2. Len(episodes') = Len(episodes)
    <2>1. DOMAIN episodes = 1 .. Len(episodes) /\ DOMAIN episodes' = 1 .. Len(episodes')
          /\ Len(episodes) \in Nat /\ Len(episodes') \in Nat
        BY LenProperties DEF AlertInv, TypeOK
    <2> QED BY <2>1
<1>3. Current \in DOMAIN episodes \cup {None}
    BY AlertFacts DEF AlertInv
<1>4. TypeOK'
    BY <1>1 DEF AlertInv, TypeOK
<1>5. CurrentIsOpen' /\ CurrentIsLast'
    <2>1. alert = None => episodes' = <<>>
        <3>1. alert = None => Len(episodes') = 0
            BY <1>2 DEF AlertInv, CurrentIsLast
        <3> QED BY <3>1, EmptySeq
    <2> QED BY <1>1, <1>2, <1>3, <2>1 DEF AlertInv, CurrentIsOpen, CurrentIsLast
<1>6. SeenInOrder'
    BY <1>1 DEF AlertInv, SeenInOrder
<1>7. SpacedUnder(preference)'
    BY DEF AlertInv, SpacedUnder, Delivered, Under
<1>8. BelowUnder(preference)'
    BY <1>1, <1>3 DEF AlertInv, BelowUnder, Under
<1> QED BY <1>4, <1>5, <1>6, <1>7, <1>8 DEF AlertInv

\* One episode is written.
LEMMA OneEpisode ==
    ASSUME TypeOK, NEW e \in DOMAIN episodes, NEW row \in Episode,
           episodes' = [episodes EXCEPT ![e] = row]
    PROVE  /\ episodes' \in Seq(Episode) /\ DOMAIN episodes' = DOMAIN episodes
           /\ Len(episodes') = Len(episodes)
           /\ \A i \in DOMAIN episodes : episodes'[i] = IF i = e THEN row ELSE episodes[i]
<1>1. episodes \in Seq(Episode) /\ DOMAIN episodes = 1 .. Len(episodes) /\ e \in 1 .. Len(episodes)
    BY EpisodeFacts
<1>2. /\ episodes' \in Seq(Episode) /\ Len(episodes') = Len(episodes)
      /\ \A j \in 1 .. Len(episodes) : episodes'[j] = IF j = e THEN row ELSE episodes[j]
    BY <1>1, ExceptSeq
<1> QED BY <1>1, <1>2, LenProperties

LEMMA GraceEndsKeeps ==
    ASSUME AlertInv, NEW e \in DOMAIN episodes, GraceEnds(e)
    PROVE  AlertInv'
<1> TypeOK
    BY DEF AlertInv
<1> DEFINE row == [episodes[e] EXCEPT !.grace = FALSE]
<1>1. episodes[e] \in Episode
    BY EpisodeFacts
<1>2. /\ row \in Episode /\ row.status = episodes[e].status /\ row.revision = episodes[e].revision
      /\ row.delivery = episodes[e].delivery /\ row.grace = FALSE
    BY <1>1 DEF Episode
<1>3. episodes' = [episodes EXCEPT ![e] = row]
      /\ UNCHANGED <<planVars, preference, saving, alert, rearmed>>
      /\ UNCHANGED writer /\ \A t \in Writers : writer[t].stage = "idle"
    BY DEF GraceEnds, planVars
<1> HIDE DEF row
<1>4. /\ episodes' \in Seq(Episode) /\ DOMAIN episodes' = DOMAIN episodes
      /\ \A i \in DOMAIN episodes : episodes'[i] = IF i = e THEN row ELSE episodes[i]
    BY <1>2, <1>3, OneEpisode
<1>5. StaleEvaluationsFirst'
    BY <1>2, <1>3, <1>4 DEF AlertInv, StaleEvaluationsFirst, Delivered
<1> QED BY <1>2, <1>3, <1>4, <1>5, EpisodesGoOn

LEMMA FinishKeeps ==
    ASSUME AlertInv, NEW e \in DOMAIN episodes, Finish(e)
    PROVE  AlertInv'
<1> TypeOK
    BY DEF AlertInv
<1>1. PICK outcome \in {"sent", "queued"} : episodes' = [episodes EXCEPT ![e].delivery = outcome]
    BY DEF Finish
<1> DEFINE row == [episodes[e] EXCEPT !.delivery = outcome]
<1>2. episodes[e] \in Episode
    BY EpisodeFacts
<1>3. /\ row \in Episode /\ row.status = episodes[e].status /\ row.revision = episodes[e].revision
      /\ row.delivery = outcome /\ row.grace = episodes[e].grace
    BY <1>2 DEF Episode
<1>4. episodes' = [episodes EXCEPT ![e] = row] /\ episodes[e].delivery = "sending"
      /\ UNCHANGED <<planVars, preference, saving, alert, rearmed>>
      /\ UNCHANGED <<writer, preference>>
    BY <1>1 DEF Finish, planVars
<1> HIDE DEF row
<1>5. /\ episodes' \in Seq(Episode) /\ DOMAIN episodes' = DOMAIN episodes
      /\ \A i \in DOMAIN episodes : episodes'[i] = IF i = e THEN row ELSE episodes[i]
    BY <1>3, <1>4, OneEpisode
<1>6. StaleEvaluationsFirst'
    BY <1>3, <1>4, <1>5 DEF AlertInv, StaleEvaluationsFirst, Delivered, Under
<1> QED BY <1>3, <1>4, <1>5, <1>6, EpisodesGoOn

\* The suppressed deliveries and the one that is handed out.
LEMMA ClaimRows ==
    ASSUME TypeOK, Claim
    PROVE  /\ episodes' \in Seq(Episode) /\ DOMAIN episodes' = DOMAIN episodes
           /\ \A e \in DOMAIN episodes :
                 /\ episodes'[e].status = episodes[e].status
                 /\ episodes'[e].revision = episodes[e].revision
                 /\ episodes'[e].grace = episodes[e].grace
                 /\ episodes'[e].delivery = "none" <=> episodes[e].delivery = "none"
                 /\ Claimed(e) => ~Superseded(e)
           /\ UNCHANGED <<planVars, preference, saving, alert, rearmed>>
<1> DEFINE queued == {e \in DOMAIN episodes : episodes[e].delivery = "queued"}
           Checked(e) == IF e \in queued /\ Superseded(e)
                         THEN [episodes[e] EXCEPT !.delivery = "suppressed"] ELSE episodes[e]
           checked == [e \in DOMAIN episodes |-> Checked(e)]
<1>1. /\ episodes \in Seq(Episode) /\ Len(episodes) \in Nat /\ DOMAIN episodes = 1 .. Len(episodes)
      /\ \A e \in DOMAIN episodes : episodes[e] \in Episode
    BY EpisodeFacts
<1>2. ASSUME NEW e \in DOMAIN episodes
      PROVE  /\ Checked(e) \in Episode
             /\ Checked(e).status = episodes[e].status
             /\ Checked(e).revision = episodes[e].revision
             /\ Checked(e).grace = episodes[e].grace
             /\ Checked(e).delivery = "none" <=> episodes[e].delivery = "none"
             /\ Checked(e).delivery \in {episodes[e].delivery, "suppressed"}
    <2>1. CASE e \in queued /\ Superseded(e)
        BY <1>1, <2>1 DEF Episode
    <2>2. CASE ~(e \in queued /\ Superseded(e))
        BY <1>1, <2>2
    <2> QED BY <2>1, <2>2
<1>3. /\ UNCHANGED <<planVars, preference, saving, alert, rearmed>>
      /\ \/ episodes' = checked
         \/ \E e \in queued : ~Superseded(e) /\ episodes' = [checked EXCEPT ![e].delivery = "sending"]
    BY DEF Claim
<1> HIDE DEF Checked
<1>4. checked \in [1 .. Len(episodes) -> Episode] /\ DOMAIN checked = DOMAIN episodes
      /\ \A e \in DOMAIN episodes : checked[e] = Checked(e)
    BY <1>1, <1>2
<1> HIDE DEF checked
<1>5. CASE episodes' = checked
    <2>1. episodes' \in Seq(Episode)
        BY <1>1, <1>4, <1>5
    <2>2. \A e \in DOMAIN episodes : episodes'[e] = Checked(e)
        BY <1>4, <1>5
    <2>3. \A e \in DOMAIN episodes : ~Claimed(e)
        BY <1>2, <2>2 DEF Claimed
    <2> QED BY <1>2, <1>3, <1>4, <1>5, <2>1, <2>2, <2>3
<1>6. ASSUME NEW c \in queued, ~Superseded(c), episodes' = [checked EXCEPT ![c].delivery = "sending"]
      PROVE  /\ episodes' \in Seq(Episode) /\ DOMAIN episodes' = DOMAIN episodes
             /\ \A e \in DOMAIN episodes :
                   /\ episodes'[e].status = episodes[e].status
                   /\ episodes'[e].revision = episodes[e].revision
                   /\ episodes'[e].grace = episodes[e].grace
                   /\ episodes'[e].delivery = "none" <=> episodes[e].delivery = "none"
                   /\ Claimed(e) => ~Superseded(e)
    <2>1. c \in DOMAIN episodes /\ episodes[c].delivery = "queued"
        OBVIOUS
    <2> DEFINE row == [checked[c] EXCEPT !.delivery = "sending"]
    <2>2. /\ row \in Episode /\ row.status = episodes[c].status
          /\ row.revision = episodes[c].revision /\ row.grace = episodes[c].grace
          /\ row.delivery = "sending"
        BY <1>2, <1>4, <2>1 DEF Episode
    <2>3. episodes' = [checked EXCEPT ![c] = row]
        BY <1>6
    <2> HIDE DEF row
    <2>4. episodes' \in [1 .. Len(episodes) -> Episode] /\ DOMAIN episodes' = DOMAIN episodes
          /\ \A e \in DOMAIN episodes : episodes'[e] = IF e = c THEN row ELSE Checked(e)
        BY <1>1, <1>4, <2>1, <2>2, <2>3
    <2>5. episodes' \in Seq(Episode)
        BY <1>1, <2>4
    <2>6. ASSUME NEW e \in DOMAIN episodes
          PROVE  /\ episodes'[e].status = episodes[e].status
                 /\ episodes'[e].revision = episodes[e].revision
                 /\ episodes'[e].grace = episodes[e].grace
                 /\ episodes'[e].delivery = "none" <=> episodes[e].delivery = "none"
                 /\ Claimed(e) => ~Superseded(e)
        <3>1. CASE e = c
            BY <1>6, <2>1, <2>2, <2>4, <3>1
        <3>2. CASE e # c
            BY <1>2, <2>4, <3>2 DEF Claimed
        <3> QED BY <3>1, <3>2
    <2> QED BY <2>4, <2>5, <2>6
<1> QED BY <1>3, <1>5, <1>6

LEMMA ClaimKeeps ==
    ASSUME AlertInv, Claim
    PROVE  AlertInv'
<1> TypeOK
    BY DEF AlertInv
<1>1. UNCHANGED <<writer, preference>>
    BY ClaimRows DEF planVars
<1>2. StaleEvaluationsFirst'
    BY <1>1, ClaimRows DEF AlertInv, StaleEvaluationsFirst, Delivered, Under
<1> QED BY <1>2, ClaimRows, EpisodesGoOn

\* The first event of an episode: it is the last one, under the preferences in
\* force, and its grace is over.
LEMMA GenerateKeeps ==
    ASSUME AlertInv, NEW e \in DOMAIN episodes, Generate(e)
    PROVE  AlertInv'
<1> TypeOK
    BY DEF AlertInv
<1> DEFINE row == [episodes[e] EXCEPT !.delivery = "queued"]
<1>1. /\ episodes \in Seq(Episode) /\ Len(episodes) \in Nat /\ DOMAIN episodes = 1 .. Len(episodes)
      /\ episodes[e] \in Episode
    BY EpisodeFacts
<1>2. /\ row \in Episode /\ row.status = episodes[e].status /\ row.revision = episodes[e].revision
      /\ row.delivery = "queued" /\ row.grace = episodes[e].grace
    BY <1>1 DEF Episode
<1>3. /\ IsAlerting(e) /\ ~episodes[e].grace /\ episodes[e].revision = preference.version
      /\ episodes' = [episodes EXCEPT ![e] = row]
      /\ UNCHANGED <<clock, plan, aged, snapshots, writer, preference, saving, alert, rearmed>>
    BY DEF Generate, planVars
<1> HIDE DEF row
<1>4. /\ episodes' \in Seq(Episode) /\ DOMAIN episodes' = DOMAIN episodes
      /\ Len(episodes') = Len(episodes)
      /\ \A i \in DOMAIN episodes : episodes'[i] = IF i = e THEN row ELSE episodes[i]
    BY <1>2, <1>3, OneEpisode
<1>5. alert # None /\ Current = e /\ Current' = e /\ e # None
    BY <1>3, EpisodeFacts DEF IsAlerting, Current
<1>6. e = Len(episodes) /\ ~alert.armed /\ Under(e, preference)
    BY <1>3, <1>5 DEF AlertInv, CurrentIsLast, Under
<1>7. \A i \in DOMAIN episodes :
         /\ episodes'[i].status = episodes[i].status
         /\ episodes'[i].revision = episodes[i].revision
         /\ episodes'[i].grace = episodes[i].grace
         /\ Under(i, preference)' <=> Under(i, preference)
         /\ i # e => (Delivered(i)' <=> Delivered(i))
    BY <1>2, <1>3, <1>4 DEF Under, Delivered
<1>8. TypeOK'
    BY <1>3, <1>4 DEF TypeOK
<1>9. CurrentIsOpen' /\ CurrentIsLast'
    BY <1>3, <1>4, <1>5, <1>6, <1>7 DEF AlertInv, CurrentIsOpen, CurrentIsLast
<1>10. SeenInOrder'
    BY <1>3, <1>4, <1>7 DEF AlertInv, SeenInOrder
<1>11. StaleEvaluationsFirst'
    <2>1. \A i \in DOMAIN episodes : Delivered(i)' => ~episodes'[i].grace
        BY <1>3, <1>7 DEF AlertInv, StaleEvaluationsFirst
    <2>2. \A i \in DOMAIN episodes : Under(i, preference)' <=> Under(i, preference)
        BY <1>7
    <2> QED BY <1>3, <1>4, <1>7, <2>1, <2>2 DEF AlertInv, StaleEvaluationsFirst
<1>12. \A i, j \in DOMAIN episodes : i < j => i # e
    BY <1>1, <1>6
<1>13. SpacedUnder(preference)'
    <2>1. \A i, j \in DOMAIN episodes :
             i < j /\ Delivered(i)' /\ Under(i, preference)' => Under(j, preference)'
        BY <1>7, <1>12 DEF AlertInv, SpacedUnder
    <2>2. ASSUME NEW i \in DOMAIN episodes, NEW j \in DOMAIN episodes, i < j,
                 episodes'[i].revision = episodes'[j].revision, Delivered(i)',
                 Delivered(j)' \/ Under(j, preference)'
          PROVE  i \in rearmed
        <3>1. Delivered(i) /\ episodes[i].revision = episodes[j].revision
            BY <1>7, <1>12, <2>2
        <3>2. Delivered(j) \/ Under(j, preference)
            BY <1>6, <1>7, <2>2
        <3> QED BY <2>2, <3>1, <3>2 DEF AlertInv, SpacedUnder
    <2> QED BY <1>3, <1>4, <1>6, <2>1, <2>2 DEF SpacedUnder
<1>14. BelowUnder(preference)'
    BY <1>3, <1>5, <1>7 DEF AlertInv, BelowUnder
<1> QED BY <1>8, <1>9, <1>10, <1>11, <1>13, <1>14 DEF AlertInv

LEMMA NextInv == AlertInv /\ [Next]_vars => AlertInv'
<1> SUFFICES ASSUME AlertInv, [Next]_vars PROVE AlertInv'
    OBVIOUS
<1>1. ASSUME NEW t \in Writers, Begin(t) \/ Compute(t) \/ PersistSnapshot(t) \/ Rollback(t)
      PROVE  AlertInv'
    BY <1>1, BeginKeeps, ComputeKeeps, PersistKeeps, RollbackKeeps
<1>2. CASE Age \/ BeginUpdatePreferences \/ EnsurePreferences \/ Claim
    BY <1>2, AgeKeeps, BeginUpdateKeeps, EnsureKeeps, ClaimKeeps
<1>3. CASE CommitUpdatePreferences
    <2>1. /\ saving # None /\ preference' = saving.to /\ saving' = None
          /\ UNCHANGED <<clock, plan, aged, snapshots, writer>>
          /\ Reevaluate \/ SwitchOff
        BY <1>3 DEF CommitUpdatePreferences, planVars
    <2> QED BY <2>1, ReevaluateKeeps, SwitchOffKeeps
<1>4. ASSUME NEW e \in DOMAIN episodes, GraceEnds(e) \/ Generate(e) \/ Finish(e)
      PROVE  AlertInv'
    BY <1>4, GraceEndsKeeps, GenerateKeeps, FinishKeeps
<1>5. CASE UNCHANGED vars
    <2>1. UNCHANGED <<clock, plan, aged, snapshots, writer, preference, saving, alert, episodes, rearmed>>
          /\ UNCHANGED alertVars
        BY <1>5 DEF vars, planVars, alertVars
    <2>2. TypeOK'
        BY <2>1 DEF AlertInv, TypeOK
    <2>3. SeenInOrder' /\ StaleEvaluationsFirst'
        BY <2>1 DEF AlertInv, SeenInOrder, StaleEvaluationsFirst, Delivered, Under
    <2> QED BY <2>1, <2>2, <2>3, QuietKeepsOrder DEF AlertInv
<1> QED BY <1>1, <1>2, <1>3, <1>4, <1>5 DEF Next

\* The inductive invariant (035:162-225, 267-330).
THEOREM Invariant == Spec => []AlertInv
BY InitInv, NextInv, PTL DEF Spec

\* The history of the episodes is one: the current one is open, and two alerts
\* under the same preferences are separated by a rise, however many planning
\* transactions, updates of the preferences and versions there are.
THEOREM EpisodesStayInOrder == Spec => []EpisodesAreInOrder
<1>1. AlertInv => EpisodesAreInOrder
    BY DEF AlertInv, EpisodesAreInOrder, AlertsAreSpaced, SpacedUnder, Delivered
<1> QED BY <1>1, Invariant, PTL

\* Only a claim hands a queued delivery to the worker.
LEMMA EvaluationClaimsNothing ==
    ASSUME TypeOK, NEW s \in Snapshot, NEW seen \in Preference, NEW external \in BOOLEAN,
           Evaluate(s, seen, external), NEW e \in DOMAIN episodes
    PROVE  ~Claimed(e)
<1>1. e \in 1 .. Len(episodes) /\ Len(episodes) \in Nat
    BY EpisodeFacts
<1>2. CASE UNCHANGED alertVars \/ KeepsEpisode(s, seen)
    BY <1>2 DEF alertVars, KeepsEpisode, Claimed
<1>3. CASE EndsEpisode(s)
    BY <1>1, <1>3 DEF EndsEpisode, Alike, Claimed
<1>4. CASE OpensEpisode(s, seen, external)
    <2>1. PICK kept \in Seq(Episode) :
             Alike(episodes, kept) /\ episodes' = Append(kept, Opened(seen, external))
        BY <1>4 DEF OpensEpisode
    <2>2. Len(kept) = Len(episodes) /\ kept[e].delivery \in {episodes[e].delivery, "suppressed"}
        BY <1>1, <2>1 DEF Alike
    <2>3. episodes'[e] = kept[e]
        BY <1>1, <2>1, <2>2
    <2> QED BY <2>2, <2>3 DEF Claimed
<1> QED BY <1>2, <1>3, <1>4, EvaluationCases

LEMMA ClaimsFollow ==
    ASSUME AlertInv, [Next]_vars, NEW e \in DOMAIN episodes, Claimed(e)
    PROVE  /\ preference.on
           /\ \E s \in snapshots : s.at = alert.at /\ s.available < preference.threshold
<1> TypeOK
    BY DEF AlertInv
<1>1. ASSUME NEW i \in DOMAIN episodes, NEW row \in Episode,
             episodes' = [episodes EXCEPT ![i] = row],
             episodes[i].delivery # "queued" \/ row.delivery # "sending"
      PROVE  FALSE
    <2>1. episodes'[e] = IF e = i THEN row ELSE episodes[e]
        BY <1>1, OneEpisode
    <2> QED BY <1>1, <2>1 DEF Claimed
<1>2. ASSUME UNCHANGED episodes PROVE FALSE
    BY <1>2 DEF Claimed
<1>3. ASSUME NEW t \in Writers, Begin(t) \/ Compute(t) \/ PersistSnapshot(t) \/ Rollback(t)
      PROVE  FALSE
    <2>1. CASE Begin(t) \/ Compute(t) \/ Rollback(t)
        BY <1>2, <2>1 DEF Begin, Compute, Rollback, alertVars
    <2>2. CASE PersistSnapshot(t)
        <3>1. /\ writer[t].at \in Nat /\ writer[t].plan \in Inputs
              /\ writer[t].seen \in Preference /\ writer[t].external \in BOOLEAN
            BY <2>2, WriterFacts DEF PersistSnapshot
        <3>2. SnapshotOf(writer[t].plan, writer[t].at) \in Snapshot
            BY <3>1, SnapshotTypes
        <3>3. Evaluate(SnapshotOf(writer[t].plan, writer[t].at), writer[t].seen, writer[t].external)
            BY <2>2 DEF PersistSnapshot
        <3> QED BY <3>1, <3>2, <3>3, EvaluationClaimsNothing
    <2> QED BY <1>3, <2>1, <2>2
<1>4. CASE Age \/ BeginUpdatePreferences \/ EnsurePreferences
    BY <1>2, <1>4 DEF Age, BeginUpdatePreferences, EnsurePreferences, alertVars
<1>5. CASE CommitUpdatePreferences
    <2>1. saving # None /\ (Reevaluate \/ SwitchOff)
        BY <1>5 DEF CommitUpdatePreferences
    <2>2. CASE Reevaluate
        <3>1. CASE saving.latest = None
            BY <1>2, <2>2, <3>1 DEF Reevaluate, alertVars
        <3>2. CASE saving.latest # None
            <4>1. saving.latest \in Snapshot /\ saving.to \in Preference
                BY <2>1, <3>2, SavingFacts DEF TypeOK
            <4>2. Evaluate(saving.latest, saving.to, FALSE)
                BY <2>2, <3>2 DEF Reevaluate
            <4> QED BY <4>1, <4>2, EvaluationClaimsNothing
        <3> QED BY <3>1, <3>2
    <2>3. CASE SwitchOff
        <3>1. episodes[e] \in Episode
            BY EpisodeFacts
        <3>2. episodes'[e].delivery = IF e \in saving.quieted /\ episodes[e].delivery = "queued"
                                      THEN "suppressed" ELSE episodes[e].delivery
            BY <2>3, <3>1 DEF SwitchOff, Episode
        <3> QED BY <3>2 DEF Claimed
    <2> QED BY <2>1, <2>2, <2>3
<1>6. ASSUME NEW i \in DOMAIN episodes, GraceEnds(i) \/ Generate(i) \/ Finish(i)
      PROVE  FALSE
    <2>1. episodes[i] \in Episode
        BY EpisodeFacts
    <2>2. CASE GraceEnds(i)
        <3> DEFINE row == [episodes[i] EXCEPT !.grace = FALSE]
        <3>1. row \in Episode /\ row.delivery = episodes[i].delivery
              /\ episodes' = [episodes EXCEPT ![i] = row]
            BY <2>1, <2>2 DEF GraceEnds, Episode
        <3> HIDE DEF row
        <3> QED BY <1>1, <3>1
    <2>3. CASE Generate(i)
        <3> DEFINE row == [episodes[i] EXCEPT !.delivery = "queued"]
        <3>1. row \in Episode /\ row.delivery = "queued" /\ episodes' = [episodes EXCEPT ![i] = row]
            BY <2>1, <2>3 DEF Generate, Episode
        <3> HIDE DEF row
        <3> QED BY <1>1, <3>1
    <2>4. CASE Finish(i)
        <3>1. PICK outcome \in {"sent", "queued"} : episodes' = [episodes EXCEPT ![i].delivery = outcome]
            BY <2>4 DEF Finish
        <3> DEFINE row == [episodes[i] EXCEPT !.delivery = outcome]
        <3>2. row \in Episode /\ row.delivery = outcome /\ episodes' = [episodes EXCEPT ![i] = row]
            BY <2>1, <3>1 DEF Episode
        <3> HIDE DEF row
        <3> QED BY <1>1, <3>2
    <2> QED BY <1>6, <2>2, <2>3, <2>4
<1>7. CASE Claim
    <2>1. ~Superseded(e)
        BY <1>7, ClaimRows
    <2>2. preference.on /\ alert # None /\ alert.episode = e /\ Under(e, preference)
        BY <2>1 DEF Superseded, IsAlerting, Under
    <2>3. Current = e /\ e # None
        BY <2>2, EpisodeFacts DEF Current
    <2> QED BY <2>2, <2>3 DEF AlertInv, BelowUnder
<1>8. CASE UNCHANGED vars
    BY <1>2, <1>8 DEF vars, alertVars
<1> QED BY <1>3, <1>4, <1>5, <1>6, <1>7, <1>8 DEF Next

\* A delivery that goes out was evaluated last below the threshold in force,
\* whatever came in since its event was generated (035:267-330).
THEOREM ClaimsFollowEvaluation == Spec => ClaimFollowsEvaluation
<1> DEFINE Follows == \A e \in DOMAIN episodes : Claimed(e) =>
              /\ preference.on
              /\ \E s \in snapshots : s.at = alert.at /\ s.available < preference.threshold
<1>1. AlertInv /\ [Next]_vars => [Follows]_vars
    BY ClaimsFollow
<1> QED BY <1>1, Invariant, PTL DEF Spec, ClaimFollowsEvaluation
===============================================================================
