----------------------- MODULE Acknowledgments_proofs -----------------------
(***************************************************************************)
(* Proofs about acknowledgment sheets, for any number of users, documents, *)
(* sheets and overlapping calls.                                           *)
(***************************************************************************)
EXTENDS Acknowledgments, FiniteSetTheorems, TLAPS

Holding(c) == calls[c].at \in {"locked", "counted"}
Confirming(c) == calls[c].at \in {"resolved", "locked", "counted"}

(* The strengthening.  A confirmation that has its row holds it: the row is *)
(* there and open, and nobody else holds it.  A sheet that was never sent   *)
(* left no trace.  Everybody on a sheet was told; the author of the sheet   *)
(* will be told of a confirmation.  Whoever completes a sheet saw everybody *)
(* else confirmed, and a completed sheet is confirmed by all.               *)
HeldRows ==
    \A c \in Calls : Holding(c) =>
        calls[c].sheet \in Sent /\ marks[calls[c].sheet][calls[c].subject] \in Unconfirmed
OneHolder ==
    \A b, c \in Calls :
        Holding(b) /\ Holding(c) /\ calls[b].sheet = calls[c].sheet
          /\ calls[b].subject = calls[c].subject => b = c
NoTrace == \A s \in Sheets \ used, x \in Users : <<s, "confirmed", x>> \notin journal
AskedWereTold ==
    \A s \in Sheets, x \in Users : marks[s][x] # "none" => <<s, "created", x, x>> \in told
AuthorIsTold ==
    \A c \in Calls : Confirming(c) =>
        /\ calls[c].sheet \in used
        /\ calls[c].sheet \in Sent => sheets[calls[c].sheet].creator \in calls[c].told
OthersConfirmed ==
    \A c \in Calls : calls[c].at = "counted" /\ calls[c].completes =>
        \A y \in On(calls[c].sheet) \ {calls[c].subject} : marks[calls[c].sheet][y] = "confirmed"
CompletedIsConfirmed ==
    \A s \in Sent : sheets[s].completed => \A x \in Users : marks[s][x] \in {"none", "confirmed"}

IInv == /\ TypeOK /\ HeldRows /\ OneHolder /\ NoTrace /\ AskedWereTold /\ AuthorIsTold
        /\ OthersConfirmed /\ CompletedIsConfirmed /\ ConfirmedIsRecorded

-----------------------------------------------------------------------------
(* Types.                                                                  *)

(* A sheet is not the absence of one, and a call is not the absence of one. *)
LEMMA Nulls ==
    /\ NoSheet \notin Sheet
    /\ Idle \notin Call
    /\ \A d \in Documents, u \in Users, b \in BOOLEAN :
           [document |-> d, creator |-> u, completed |-> b] \in Sheet
  BY DEF NoSheet, Sheet, Idle, Call

(* A call that is confirming has the fields of a confirmation.             *)
LEMMA ConfirmingFields ==
    ASSUME NEW r \in Call \cup {Idle}, r.at \in {"resolved", "locked", "counted"}
    PROVE  r \in [at : {"resolved", "locked", "counted"}, user : Users, sheet : Sheets,
                  subject : Users, told : SUBSET Users, completes : BOOLEAN]
  BY DEF Call, Idle

(* A deletion has the fields of a deletion.                                *)
LEMMA DeletingFields ==
    ASSUME NEW r \in Call \cup {Idle}, r.at = "deleting"
    PROVE  r.user \in Users /\ r.sheet \in Sheets
  BY DEF Call, Idle

(* The steps of a confirmation change its stage only.                      *)
LEMMA Stages ==
    ASSUME NEW r \in Call, r.at \in {"resolved", "locked", "counted"}, NEW b \in BOOLEAN
    PROVE  /\ LET q == [r EXCEPT !.at = "locked"]
              IN  /\ q \in Call /\ q.at = "locked" /\ q.user = r.user /\ q.sheet = r.sheet
                  /\ q.subject = r.subject /\ q.told = r.told
           /\ LET q == [[r EXCEPT !.at = "counted"] EXCEPT !.completes = b]
              IN  /\ q \in Call /\ q.at = "counted" /\ q.user = r.user /\ q.sheet = r.sheet
                  /\ q.subject = r.subject /\ q.told = r.told /\ q.completes = b
  BY DEF Call

(* Whose row a user answers for is a user, and so is who is told.          *)
LEMMA PeopleAreUsers ==
    ASSUME TypeOK, NEW u \in Users, NEW s \in Sent
    PROVE  /\ AnswersFor(u, s) \subseteq Users
           /\ ConfirmationRecipients(u, s) \subseteq Users
           /\ sheets[s] \in Sheet
           /\ sheets[s].creator \in ConfirmationRecipients(u, s)
  <1>1. sheets[s] \in Sheet /\ sheets[s].creator \in Users
    BY DEF TypeOK, Sent, Sheet
  <1>2. AnswersFor(u, s) \subseteq Users
    BY DEF AnswersFor, Access!ActivePrincipals
  <1>3. QED
    BY <1>1, <1>2 DEF ConfirmationRecipients

(* The first statement of a confirmation: the call ends, or goes on with a *)
(* row that is there and open.                                             *)
LEMMA ConfirmRowCall ==
    ASSUME TypeOK, NEW c \in Calls, ConfirmRow(c)
    PROVE  \E q \in Call \cup {Idle} :
             /\ calls' = [calls EXCEPT ![c] = q]
             /\ \/ q = Idle
                \/ /\ q.at = "locked" /\ q.sheet = calls[c].sheet
                   /\ q.subject = calls[c].subject /\ q.told = calls[c].told
                   /\ q.sheet \in Sent /\ marks[q.sheet][q.subject] \in Unconfirmed
  <1> DEFINE q == [calls[c] EXCEPT !.at = "locked"]
  <1>1. calls[c] \in Call /\ calls[c].at \in {"resolved", "locked", "counted"}
    BY DEF ConfirmRow, TypeOK, Idle
  <1>2. /\ q \in Call /\ q.at = "locked" /\ q.sheet = calls[c].sheet
        /\ q.subject = calls[c].subject /\ q.told = calls[c].told
    BY <1>1, Stages
  <1>3. calls' = [calls EXCEPT ![c] =
          IF calls[c].sheet \in Sent /\ marks[calls[c].sheet][calls[c].subject] \in Unconfirmed
          THEN q ELSE Idle]
    BY DEF ConfirmRow
  <1> HIDE DEF q
  <1>4. QED
    BY <1>2, <1>3

(* The second statement decides whether the call completes the sheet.      *)
LEMMA CountRemainingCall ==
    ASSUME TypeOK, NEW c \in Calls, CountRemaining(c)
    PROVE  \E q \in Call :
             /\ calls' = [calls EXCEPT ![c] = q]
             /\ q.at = "counted" /\ q.sheet = calls[c].sheet
             /\ q.subject = calls[c].subject /\ q.told = calls[c].told
             /\ q.completes <=> Remaining(q.sheet, q.subject) = 0
  <1> DEFINE last == Remaining(calls[c].sheet, calls[c].subject) = 0
             q == [[calls[c] EXCEPT !.at = "counted"] EXCEPT !.completes = last]
  <1>1. calls[c] \in Call /\ calls[c].at \in {"resolved", "locked", "counted"} /\ last \in BOOLEAN
    BY DEF CountRemaining, TypeOK, Idle
  <1>2. calls' = [calls EXCEPT ![c] = q]
    BY DEF CountRemaining
  <1> HIDE DEF last
  <1>3. /\ q \in Call /\ q.at = "counted" /\ q.sheet = calls[c].sheet
        /\ q.subject = calls[c].subject /\ q.told = calls[c].told /\ q.completes = last
    BY <1>1, Stages
  <1> HIDE DEF q
  <1>4. QED
    BY <1>2, <1>3 DEF last

(* A confirmation completes its sheet, or leaves all sheets as they are.   *)
LEMMA CommitSheets ==
    ASSUME TypeOK, HeldRows, NEW c \in Calls, Commit(c)
    PROVE  /\ sheets' \in [Sheets -> Sheet \cup {NoSheet}]
           /\ Sent' = Sent
           /\ \A s \in Sent :
                /\ sheets'[s].creator = sheets[s].creator
                /\ sheets'[s].document = sheets[s].document
                /\ sheets'[s].completed =>
                     sheets[s].completed \/ (s = calls[c].sheet /\ calls[c].completes)
  <1> DEFINE t == calls[c].sheet
             b == sheets[t].completed \/ calls[c].completes
             q == [sheets[t] EXCEPT !.completed = b]
  <1>1. t \in Sent /\ t \in Sheets /\ sheets[t] \in Sheet
    BY DEF Commit, HeldRows, Holding, TypeOK, Sent
  <1>2. sheets' = [sheets EXCEPT ![t] = q]
    BY DEF Commit
  <1>3. b \in BOOLEAN
    OBVIOUS
  <1> HIDE DEF b
  <1>4. q \in Sheet /\ q.creator = sheets[t].creator /\ q.document = sheets[t].document /\ q.completed = b
    BY <1>1, <1>3 DEF Sheet
  <1> HIDE DEF q
  <1>5. sheets' \in [Sheets -> Sheet \cup {NoSheet}] /\ Sent' = Sent
    BY <1>1, <1>2, <1>4, Nulls DEF TypeOK, Sent
  <1>6. \A s \in Sent :
          /\ sheets'[s].creator = sheets[s].creator
          /\ sheets'[s].document = sheets[s].document
          /\ sheets'[s].completed => sheets[s].completed \/ (s = t /\ calls[c].completes)
    BY <1>1, <1>2, <1>4 DEF TypeOK, Sent, b
  <1>7. QED
    BY <1>5, <1>6

(* The initial state is typed.                                             *)
LEMMA InitTypeOK == Init => TypeOK
  BY AcknowledgmentConstants DEF Init, TypeOK, Marks, Sent

(* A call that changes its stage, begins or ends keeps the type of calls.  *)
LEMMA NextTypeOK == TypeOK /\ HeldRows /\ [Next]_vars => TypeOK'
  <1> SUFFICES ASSUME TypeOK, HeldRows, [Next]_vars PROVE TypeOK'
    OBVIOUS
  <1> USE AcknowledgmentConstants
  <1>1. ASSUME NEW u \in Users, NEW s \in Sheets, NEW d \in Documents, NEW team \in Teams,
               Create(u, s, d, team)
        PROVE  TypeOK'
    <2>0. [document |-> d, creator |-> u, completed |-> FALSE] \in Sheet
      BY Nulls
    <2>1. sheets' \in [Sheets -> Sheet \cup {NoSheet}] /\ Sent' \subseteq used'
      BY <1>1, <2>0 DEF Create, TypeOK, Sent
    <2>2. marks' \in [Sheets -> [Users -> Marks]]
      BY <1>1 DEF Create, TypeOK, Marks
    <2>3. /\ journal' \subseteq Sheets \X {"created", "viewed", "confirmed", "deleted"} \X Users
          /\ told' \subseteq Sheets \X {"created", "confirmed"} \X Users \X Users
      BY <1>1 DEF Create, TypeOK
    <2>4. QED
      BY <1>1, <2>1, <2>2, <2>3 DEF Create, TypeOK, rights
  <1>2. ASSUME NEW u \in Users, NEW x \in Users, NEW s \in Sheets, MarkViewed(u, s, x)
        PROVE  TypeOK'
    <2>1. marks' \in [Sheets -> [Users -> Marks]]
      BY <1>2 DEF MarkViewed, TypeOK, Marks
    <2>2. journal' \subseteq Sheets \X {"created", "viewed", "confirmed", "deleted"} \X Users
      BY <1>2 DEF MarkViewed, TypeOK
    <2>3. QED
      BY <1>2, <2>1, <2>2 DEF MarkViewed, TypeOK, Sent, rights
  <1>3. ASSUME NEW c \in Calls, NEW u \in Users, NEW s \in Sheets, ResolveConfirmation(c, u, s)
        PROVE  TypeOK'
    <2>1. PICK x \in AnswersFor(u, s) :
            calls' = [calls EXCEPT ![c] =
              [at |-> "resolved", user |-> u, sheet |-> s, subject |-> x,
               told |-> ConfirmationRecipients(u, s), completes |-> FALSE]]
      BY <1>3 DEF ResolveConfirmation
    <2>2. x \in Users /\ ConfirmationRecipients(u, s) \subseteq Users
      BY <1>3, PeopleAreUsers DEF ResolveConfirmation
    <2>3. calls' \in [Calls -> Call \cup {Idle}]
      BY <2>1, <2>2 DEF TypeOK, Call
    <2>4. QED
      BY <1>3, <2>3 DEF ResolveConfirmation, TypeOK, tables, outbox, rights, Sent
  <1>4. ASSUME NEW c \in Calls, ConfirmRow(c) PROVE TypeOK'
    <2>1. calls' \in [Calls -> Call \cup {Idle}]
      BY <1>4, ConfirmRowCall DEF TypeOK
    <2>2. QED
      BY <1>4, <2>1 DEF ConfirmRow, TypeOK, tables, outbox, rights, Sent
  <1>5. ASSUME NEW c \in Calls, CountRemaining(c) PROVE TypeOK'
    <2>1. calls' \in [Calls -> Call \cup {Idle}]
      BY <1>5, CountRemainingCall DEF TypeOK
    <2>2. QED
      BY <1>5, <2>1 DEF CountRemaining, TypeOK, tables, outbox, rights, Sent
  <1>6. ASSUME NEW c \in Calls, Commit(c) PROVE TypeOK'
    <2>1. /\ calls[c].sheet \in Sheets /\ calls[c].subject \in Users
          /\ calls[c].told \subseteq Users /\ calls[c].completes \in BOOLEAN
      BY <1>6, ConfirmingFields DEF Commit, TypeOK
    <2>2. marks' \in [Sheets -> [Users -> Marks]]
      BY <1>6, <2>1 DEF Commit, TypeOK, Marks
    <2>3. sheets' \in [Sheets -> Sheet \cup {NoSheet}] /\ Sent' \subseteq used'
      BY <1>6, <2>1, CommitSheets DEF TypeOK, Commit
    <2>4. /\ journal' \subseteq Sheets \X {"created", "viewed", "confirmed", "deleted"} \X Users
          /\ told' \subseteq Sheets \X {"created", "confirmed"} \X Users \X Users
      BY <1>6, <2>1 DEF Commit, TypeOK
    <2>5. QED
      BY <1>6, <2>1, <2>2, <2>3, <2>4 DEF Commit, TypeOK, rights
  <1>7. ASSUME NEW c \in Calls, Rollback(c) PROVE TypeOK'
    BY <1>7 DEF Rollback, TypeOK, tables, outbox, rights, Sent
  <1>8. ASSUME NEW c \in Calls, NEW u \in Users, NEW s \in Sheets, BeginDelete(c, u, s)
        PROVE  TypeOK'
    <2>1. calls' \in [Calls -> Call \cup {Idle}]
      BY <1>8 DEF BeginDelete, TypeOK, Call
    <2>2. QED
      BY <1>8, <2>1 DEF BeginDelete, TypeOK, tables, outbox, rights, Sent
  <1>9. ASSUME NEW c \in Calls, Delete(c) PROVE TypeOK'
    <2>1. calls[c].user \in Users /\ calls[c].sheet \in Sheets
      BY <1>9, DeletingFields DEF Delete, TypeOK
    <2>2. marks' \in [Sheets -> [Users -> Marks]]
      BY <1>9, <2>1 DEF Delete, TypeOK, Marks
    <2>3. /\ sheets' \in [Sheets -> Sheet \cup {NoSheet}]
          /\ Sent' \subseteq used' /\ used' \subseteq Sheets
      BY <1>9, <2>1 DEF Delete, TypeOK, Sent
    <2>4. QED
      BY <1>9, <2>1, <2>2, <2>3 DEF Delete, TypeOK, rights
  <1>10. CASE UNCHANGED vars
    BY <1>10 DEF TypeOK, vars, tables, outbox, rights, Sent
  <1>11. QED
    BY <1>1, <1>2, <1>3, <1>4, <1>5, <1>6, <1>7, <1>8, <1>9, <1>10 DEF Next

-----------------------------------------------------------------------------
(* The inductive invariant.                                                *)

(* What the tables and the outbox say is kept by a step of a call only.    *)
LEMMA Untouched ==
    ASSUME IInv, UNCHANGED <<tables, outbox>>
    PROVE  NoTrace' /\ AskedWereTold' /\ CompletedIsConfirmed' /\ ConfirmedIsRecorded'
  <1>1. Sent' = Sent
    BY DEF Sent, tables
  <1>2. QED
    BY <1>1 DEF IInv, NoTrace, AskedWereTold, CompletedIsConfirmed, ConfirmedIsRecorded, tables, outbox

(* What the calls know is kept when one of them becomes q, if q knows it.  *)
LEMMA CallBecomes ==
    ASSUME IInv, UNCHANGED tables, NEW c \in Calls, NEW q \in Call \cup {Idle},
           calls' = [calls EXCEPT ![c] = q],
           q.at \in {"locked", "counted"} =>
             /\ q.sheet \in Sent /\ marks[q.sheet][q.subject] \in Unconfirmed
             /\ \A b \in Calls \ {c} : Holding(b) =>
                  calls[b].sheet # q.sheet \/ calls[b].subject # q.subject,
           q.at \in {"resolved", "locked", "counted"} =>
             /\ q.sheet \in used
             /\ q.sheet \in Sent => sheets[q.sheet].creator \in q.told,
           q.at = "counted" /\ q.completes =>
             \A y \in On(q.sheet) \ {q.subject} : marks[q.sheet][y] = "confirmed"
    PROVE  HeldRows' /\ OneHolder' /\ AuthorIsTold' /\ OthersConfirmed'
  <1>1. /\ sheets' = sheets /\ marks' = marks /\ used' = used
        /\ Sent' = Sent
        /\ calls'[c] = q
        /\ \A b \in Calls \ {c} : calls'[b] = calls[b]
        /\ \A s : On(s)' = On(s)
    BY DEF tables, Sent, IInv, TypeOK, On
  <1>2. HeldRows'
    BY <1>1 DEF IInv, HeldRows, Holding
  <1>3. OneHolder'
    BY <1>1 DEF IInv, OneHolder, Holding
  <1>4. AuthorIsTold'
    BY <1>1 DEF IInv, AuthorIsTold, Confirming
  <1>5. OthersConfirmed'
    BY <1>1 DEF IInv, OthersConfirmed
  <1>6. QED
    BY <1>2, <1>3, <1>4, <1>5

(* No row remains exactly if all others are confirmed: users are finite.   *)
LEMMA NobodyRemains ==
    ASSUME TypeOK, NEW s \in Sheets, NEW x \in Users, Remaining(s, x) = 0
    PROVE  \A y \in On(s) \ {x} : marks[s][y] = "confirmed"
  <1> DEFINE open == {y \in On(s) \ {x} : marks[s][y] \in Unconfirmed}
  <1>1. open \subseteq Users
    BY DEF On
  <1>2. IsFiniteSet(open)
    BY <1>1, FS_Subset, AcknowledgmentConstants
  <1>3. Cardinality(open) = 0
    BY DEF Remaining
  <1>4. open = {}
    BY <1>2, <1>3, FS_EmptySet
  <1>5. QED
    BY <1>4 DEF On, TypeOK, Marks, Unconfirmed

(* The initial state satisfies it.                                         *)
LEMMA InitIInv == Init => IInv
  <1> SUFFICES ASSUME Init PROVE IInv
    OBVIOUS
  <1>1. TypeOK /\ Sent = {} /\ \A c \in Calls : calls[c].at = "idle"
    BY InitTypeOK DEF Init, Sent, Idle
  <1>2. HeldRows /\ OneHolder /\ AuthorIsTold /\ OthersConfirmed
    BY <1>1 DEF HeldRows, OneHolder, AuthorIsTold, OthersConfirmed, Holding, Confirming
  <1>3. NoTrace /\ AskedWereTold /\ CompletedIsConfirmed /\ ConfirmedIsRecorded
    BY <1>1 DEF Init, NoTrace, AskedWereTold, CompletedIsConfirmed, ConfirmedIsRecorded
  <1>4. QED
    BY <1>1, <1>2, <1>3 DEF IInv

(* A sheet is sent with nobody confirmed, under an id nothing knows.       *)
LEMMA CreateIInv ==
    ASSUME IInv, TypeOK', NEW u \in Users, NEW s \in Sheets, NEW d \in Documents,
           NEW team \in Teams, Create(u, s, d, team)
    PROVE  IInv'
  <1>0. team \subseteq Users
    BY AcknowledgmentConstants
  <1>1. s \notin Sent /\ s \notin used
    BY DEF Create, IInv, TypeOK
  <1>2. /\ Sent' = Sent \cup {s} /\ used' = used \cup {s} /\ calls' = calls
        /\ \A t \in Sheets \ {s} : sheets'[t] = sheets[t] /\ marks'[t] = marks[t]
        /\ sheets'[s].creator = u /\ ~sheets'[s].completed
        /\ \A x \in Users : marks'[s][x] = IF x \in team THEN "pending" ELSE "none"
        /\ \A t \in Sheets, x \in Users :
             <<t, "confirmed", x>> \in journal' <=> <<t, "confirmed", x>> \in journal
        /\ told \subseteq told'
        /\ \A x \in team : <<s, "created", x, x>> \in told'
    <2>1. [document |-> d, creator |-> u, completed |-> FALSE] \in Sheet
      BY Nulls
    <2>2. /\ sheets'[s].creator = u /\ ~sheets'[s].completed /\ sheets'[s] # NoSheet
      BY <2>1, Nulls DEF Create, IInv, TypeOK
    <2>3. Sent' = Sent \cup {s}
      BY <2>2 DEF Create, IInv, TypeOK, Sent
    <2>4. QED
      BY <1>0, <2>2, <2>3 DEF Create, IInv, TypeOK
  <1>3. \A c \in Calls : Confirming(c) => calls[c].sheet \in Sheets \ {s}
    BY <1>1 DEF IInv, AuthorIsTold, TypeOK
  <1>4. \A c \in Calls : Confirming(c) => On(calls[c].sheet)' = On(calls[c].sheet)
    BY <1>2, <1>3 DEF On
  <1>5. HeldRows' /\ OneHolder'
    BY <1>2, <1>3 DEF IInv, HeldRows, OneHolder, Holding, Confirming
  <1>6. AuthorIsTold'
    BY <1>2, <1>3 DEF IInv, AuthorIsTold, Confirming
  <1>7. OthersConfirmed'
    BY <1>2, <1>3, <1>4 DEF IInv, OthersConfirmed, Confirming
  <1>8. NoTrace' /\ AskedWereTold'
    BY <1>1, <1>2 DEF IInv, NoTrace, AskedWereTold
  <1>9. CompletedIsConfirmed'
    BY <1>1, <1>2 DEF IInv, CompletedIsConfirmed, Sent
  <1>10. ConfirmedIsRecorded'
    <2> SUFFICES ASSUME NEW t \in Sent', NEW x \in Users
        PROVE  /\ marks'[t][x] = "confirmed" <=> <<t, "confirmed", x>> \in journal'
               /\ marks'[t][x] = "confirmed" =>
                    /\ <<t, "created", x, x>> \in told'
                    /\ <<t, "confirmed", x, sheets'[t].creator>> \in told'
      BY DEF ConfirmedIsRecorded
    <2>1. CASE t = s
      BY <1>1, <1>2, <2>1 DEF IInv, NoTrace
    <2>2. CASE t # s
      <3>1. t \in Sent /\ t \in Sheets \ {s}
        BY <1>2, <2>2 DEF Sent
      <3>2. QED
        BY <1>2, <3>1 DEF IInv, ConfirmedIsRecorded
    <2>3. QED
      BY <2>1, <2>2
  <1>11. QED
    BY <1>5, <1>6, <1>7, <1>8, <1>9, <1>10 DEF IInv

(* Viewing changes an open row into an open row.                           *)
LEMMA MarkViewedIInv ==
    ASSUME IInv, TypeOK', NEW u \in Users, NEW x \in Users, NEW s \in Sheets, MarkViewed(u, s, x)
    PROVE  IInv'
  <1>1. /\ sheets' = sheets /\ used' = used /\ calls' = calls /\ told' = told
        /\ Sent' = Sent
        /\ marks[s][x] = "pending" /\ marks'[s][x] = "viewed"
        /\ \A t \in Sheets, y \in Users : <<t, y>> # <<s, x>> => marks'[t][y] = marks[t][y]
        /\ \A t \in Sheets, y \in Users :
             <<t, "confirmed", y>> \in journal' <=> <<t, "confirmed", y>> \in journal
    BY DEF MarkViewed, IInv, TypeOK, Sent
  <1>2. \A t \in Sheets, y \in Users :
          /\ marks'[t][y] = "confirmed" <=> marks[t][y] = "confirmed"
          /\ marks'[t][y] = "none" <=> marks[t][y] = "none"
          /\ marks[t][y] \in Unconfirmed => marks'[t][y] \in Unconfirmed
    <2> SUFFICES ASSUME NEW t \in Sheets, NEW y \in Users
        PROVE  /\ marks'[t][y] = "confirmed" <=> marks[t][y] = "confirmed"
               /\ marks'[t][y] = "none" <=> marks[t][y] = "none"
               /\ marks[t][y] \in Unconfirmed => marks'[t][y] \in Unconfirmed
      OBVIOUS
    <2>1. CASE <<t, y>> = <<s, x>>
      BY <1>1, <2>1 DEF Unconfirmed
    <2>2. CASE <<t, y>> # <<s, x>>
      BY <1>1, <2>2
    <2>3. QED
      BY <2>1, <2>2
  <1>3. \A c \in Calls : Confirming(c) => calls[c].sheet \in Sheets /\ calls[c].subject \in Users
    BY ConfirmingFields DEF IInv, TypeOK, Confirming
  <1>4. \A t \in Sheets : On(t)' = On(t)
    BY <1>2 DEF On
  <1>5. HeldRows' /\ OneHolder' /\ AuthorIsTold'
    BY <1>1, <1>2, <1>3 DEF IInv, HeldRows, OneHolder, AuthorIsTold, Holding, Confirming
  <1>6. OthersConfirmed'
    BY <1>1, <1>2, <1>3, <1>4 DEF IInv, OthersConfirmed, Confirming, On
  <1>7. NoTrace' /\ AskedWereTold'
    BY <1>1, <1>2 DEF IInv, NoTrace, AskedWereTold
  <1>8. CompletedIsConfirmed' /\ ConfirmedIsRecorded'
    BY <1>1, <1>2 DEF IInv, CompletedIsConfirmed, ConfirmedIsRecorded, Sent
  <1>9. QED
    BY <1>5, <1>6, <1>7, <1>8 DEF IInv

(* A deletion has no confirmation in its way, and its id stays used.       *)
LEMMA DeleteIInv ==
    ASSUME IInv, TypeOK', NEW c \in Calls, Delete(c)
    PROVE  IInv'
  <1> DEFINE s == calls[c].sheet
  <1>0. s \in Sheets
    BY DeletingFields DEF Delete, IInv, TypeOK
  <1>1. /\ used' = used /\ told' = told
        /\ calls'[c].at = "idle" /\ \A b \in Calls \ {c} : calls'[b] = calls[b]
        /\ sheets'[s] = NoSheet
        /\ Sent' = Sent \ {s}
        /\ \A t \in Sheets \ {s} : sheets'[t] = sheets[t] /\ marks'[t] = marks[t]
        /\ \A x \in Users : marks'[s][x] = "none"
        /\ \A t \in Sheets, y \in Users :
             <<t, "confirmed", y>> \in journal' <=> <<t, "confirmed", y>> \in journal
    BY <1>0 DEF Delete, IInv, TypeOK, Sent, Idle
  <1>2. \A b \in Calls : Holding(b) => calls[b].sheet \in Sheets \ {s} /\ calls[b].subject \in Users
    BY ConfirmingFields DEF Delete, RowLocked, IInv, TypeOK, Holding
  <1>3. \A t \in Sheets \ {s} : On(t)' = On(t)
    BY <1>1 DEF On
  <1>4. HeldRows' /\ OneHolder'
    BY <1>1, <1>2 DEF IInv, HeldRows, OneHolder, Holding
  <1>5. AuthorIsTold'
    BY <1>1 DEF IInv, AuthorIsTold, Confirming, Sent
  <1>6. OthersConfirmed'
    BY <1>1, <1>2, <1>3 DEF IInv, OthersConfirmed, Holding
  <1>7. NoTrace' /\ AskedWereTold'
    BY <1>1 DEF IInv, NoTrace, AskedWereTold
  <1>8. CompletedIsConfirmed' /\ ConfirmedIsRecorded'
    BY <1>1 DEF IInv, CompletedIsConfirmed, ConfirmedIsRecorded, Sent
  <1>9. QED
    BY <1>4, <1>5, <1>6, <1>7, <1>8 DEF IInv

(* A confirmation commits its row, its events and, as the last, its sheet. *)
LEMMA CommitIInv ==
    ASSUME IInv, TypeOK', NEW c \in Calls, Commit(c)
    PROVE  IInv'
  <1> DEFINE s == calls[c].sheet
             x == calls[c].subject
  <1>0. /\ s \in Sent /\ s \in Sheets /\ s \in used /\ x \in Users /\ Holding(c)
        /\ marks[s][x] \in Unconfirmed
        /\ calls[c].told \subseteq Users /\ sheets[s].creator \in calls[c].told
    BY ConfirmingFields DEF Commit, IInv, TypeOK, HeldRows, AuthorIsTold, Holding, Confirming
  <1>1. /\ Sent' = Sent
        /\ \A t \in Sent : /\ sheets'[t].creator = sheets[t].creator
                           /\ sheets'[t].completed =>
                                sheets[t].completed \/ (t = s /\ calls[c].completes)
    BY CommitSheets DEF IInv
  <1>2. /\ used' = used
        /\ calls'[c].at = "idle" /\ \A b \in Calls \ {c} : calls'[b] = calls[b]
        /\ marks'[s][x] = "confirmed"
        /\ \A t \in Sheets, y \in Users : t # s \/ y # x => marks'[t][y] = marks[t][y]
        /\ \A t \in Sheets, y \in Users :
             <<t, "confirmed", y>> \in journal' <=>
               <<t, "confirmed", y>> \in journal \/ (t = s /\ y = x)
        /\ told \subseteq told'
        /\ <<s, "confirmed", x, sheets[s].creator>> \in told'
    BY <1>0 DEF Commit, IInv, TypeOK, Idle
  <1>3. \A b \in Calls : Confirming(b) => calls[b].sheet \in Sheets /\ calls[b].subject \in Users
    BY ConfirmingFields DEF IInv, TypeOK, Confirming
  <1>4. \A b \in Calls \ {c} : Holding(b) => calls[b].sheet # s \/ calls[b].subject # x
    BY <1>0 DEF IInv, OneHolder
  <1>5. \A t \in Sheets : On(t)' = On(t)
    BY <1>0, <1>2 DEF On, Unconfirmed
  <1>6. HeldRows' /\ OneHolder'
    BY <1>1, <1>2, <1>3, <1>4 DEF IInv, HeldRows, OneHolder, Holding, Confirming
  <1>7. AuthorIsTold'
    BY <1>1, <1>2 DEF IInv, AuthorIsTold, Confirming
  <1>8. OthersConfirmed'
    BY <1>2, <1>3, <1>5 DEF IInv, OthersConfirmed, Confirming, On
  <1>9. NoTrace' /\ AskedWereTold'
    BY <1>0, <1>2 DEF IInv, NoTrace, AskedWereTold, Unconfirmed
  <1>10. CompletedIsConfirmed'
    BY <1>0, <1>1, <1>2 DEF IInv, CompletedIsConfirmed, OthersConfirmed, Commit, On, Sent
  <1>11. ConfirmedIsRecorded'
    <2> SUFFICES ASSUME NEW t \in Sent', NEW y \in Users
        PROVE  /\ marks'[t][y] = "confirmed" <=> <<t, "confirmed", y>> \in journal'
               /\ marks'[t][y] = "confirmed" =>
                    /\ <<t, "created", y, y>> \in told'
                    /\ <<t, "confirmed", y, sheets'[t].creator>> \in told'
      BY DEF ConfirmedIsRecorded
    <2>0. t \in Sent /\ t \in Sheets
      BY <1>1 DEF Sent
    <2>1. CASE t = s /\ y = x
      <3>1. <<t, "created", y, y>> \in told
        BY <1>0, <2>0, <2>1 DEF IInv, AskedWereTold, Unconfirmed
      <3>2. QED
        BY <1>0, <1>1, <1>2, <2>0, <2>1, <3>1
    <2>2. CASE ~(t = s /\ y = x)
      BY <1>1, <1>2, <2>0, <2>2 DEF IInv, ConfirmedIsRecorded
    <2>3. QED
      BY <2>1, <2>2
  <1>12. QED
    BY <1>6, <1>7, <1>8, <1>9, <1>10, <1>11 DEF IInv

(* Every step keeps it.                                                    *)
LEMMA NextIInv == IInv /\ [Next]_vars => IInv'
  <1> SUFFICES ASSUME IInv, [Next]_vars PROVE IInv'
    OBVIOUS
  <1>0. TypeOK'
    BY NextTypeOK DEF IInv
  <1>1. ASSUME NEW c \in Calls, NEW u \in Users, NEW s \in Sheets, ResolveConfirmation(c, u, s)
        PROVE  IInv'
    <2>1. PICK x \in AnswersFor(u, s) :
            calls' = [calls EXCEPT ![c] =
              [at |-> "resolved", user |-> u, sheet |-> s, subject |-> x,
               told |-> ConfirmationRecipients(u, s), completes |-> FALSE]]
      BY <1>1 DEF ResolveConfirmation
    <2> DEFINE q == [at |-> "resolved", user |-> u, sheet |-> s, subject |-> x,
                     told |-> ConfirmationRecipients(u, s), completes |-> FALSE]
    <2>2. s \in Sent /\ s \in used /\ UNCHANGED <<tables, outbox>>
      BY <1>1 DEF ResolveConfirmation, IInv, TypeOK
    <2>3. /\ x \in Users /\ ConfirmationRecipients(u, s) \subseteq Users
          /\ sheets[s].creator \in ConfirmationRecipients(u, s)
      BY <2>2, PeopleAreUsers DEF IInv
    <2>4. /\ q \in Call /\ q.at = "resolved" /\ q.sheet = s
          /\ q.told = ConfirmationRecipients(u, s)
      BY <2>3 DEF Call
    <2> HIDE DEF q
    <2>5. HeldRows' /\ OneHolder' /\ AuthorIsTold' /\ OthersConfirmed'
      BY <2>1, <2>2, <2>3, <2>4, CallBecomes DEF q
    <2>6. QED
      BY <1>0, <2>2, <2>5, Untouched DEF IInv
  <1>2. ASSUME NEW c \in Calls, ConfirmRow(c) PROVE IInv'
    <2>1. PICK q \in Call \cup {Idle} :
             /\ calls' = [calls EXCEPT ![c] = q]
             /\ \/ q = Idle
                \/ /\ q.at = "locked" /\ q.sheet = calls[c].sheet
                   /\ q.subject = calls[c].subject /\ q.told = calls[c].told
                   /\ q.sheet \in Sent /\ marks[q.sheet][q.subject] \in Unconfirmed
      BY <1>2, ConfirmRowCall DEF IInv
    <2>2. UNCHANGED <<tables, outbox>> /\ Confirming(c)
      BY <1>2 DEF ConfirmRow, Confirming
    <2>3. \A b \in Calls : Holding(b) =>
             calls[b].sheet # calls[c].sheet \/ calls[b].subject # calls[c].subject
      BY <1>2 DEF ConfirmRow, RowLocked, Holding
    <2>4. CASE q = Idle
      BY <2>1, <2>2, <2>4, CallBecomes, Untouched, <1>0 DEF Idle, IInv
    <2>5. CASE q # Idle
      <3>1. q.sheet \in used /\ sheets[q.sheet].creator \in q.told
        BY <2>1, <2>2, <2>5 DEF IInv, TypeOK, AuthorIsTold
      <3>2. HeldRows' /\ OneHolder' /\ AuthorIsTold' /\ OthersConfirmed'
        BY <2>1, <2>2, <2>3, <2>5, <3>1, CallBecomes
      <3>3. QED
        BY <1>0, <2>2, <3>2, Untouched DEF IInv
    <2>6. QED
      BY <2>4, <2>5
  <1>3. ASSUME NEW c \in Calls, CountRemaining(c) PROVE IInv'
    <2>1. PICK q \in Call :
             /\ calls' = [calls EXCEPT ![c] = q]
             /\ q.at = "counted" /\ q.sheet = calls[c].sheet
             /\ q.subject = calls[c].subject /\ q.told = calls[c].told
             /\ q.completes <=> Remaining(q.sheet, q.subject) = 0
      BY <1>3, CountRemainingCall DEF IInv
    <2>2. UNCHANGED <<tables, outbox>> /\ Confirming(c) /\ Holding(c)
      BY <1>3 DEF CountRemaining, Confirming, Holding
    <2>3. q.sheet \in Sheets /\ q.subject \in Users
      BY <2>1, ConfirmingFields
    <2>4. q.sheet \in Sent /\ marks[q.sheet][q.subject] \in Unconfirmed
      BY <2>1, <2>2 DEF IInv, HeldRows
    <2>5. \A b \in Calls \ {c} : Holding(b) =>
             calls[b].sheet # q.sheet \/ calls[b].subject # q.subject
      BY <2>1, <2>2 DEF IInv, OneHolder
    <2>6. q.sheet \in used /\ sheets[q.sheet].creator \in q.told
      BY <2>1, <2>2, <2>4 DEF IInv, TypeOK, AuthorIsTold
    <2>7. q.completes => \A y \in On(q.sheet) \ {q.subject} : marks[q.sheet][y] = "confirmed"
      BY <2>1, <2>3, NobodyRemains DEF IInv
    <2>8. HeldRows' /\ OneHolder' /\ AuthorIsTold' /\ OthersConfirmed'
      BY <2>1, <2>2, <2>4, <2>5, <2>6, <2>7, CallBecomes
    <2>9. QED
      BY <1>0, <2>2, <2>8, Untouched DEF IInv
  <1>4. ASSUME NEW c \in Calls, Rollback(c) PROVE IInv'
    <2>1. calls' = [calls EXCEPT ![c] = Idle] /\ UNCHANGED <<tables, outbox>>
      BY <1>4 DEF Rollback
    <2>2. HeldRows' /\ OneHolder' /\ AuthorIsTold' /\ OthersConfirmed'
      BY <2>1, CallBecomes DEF Idle
    <2>3. QED
      BY <1>0, <2>1, <2>2, Untouched DEF IInv
  <1>5. ASSUME NEW c \in Calls, NEW u \in Users, NEW s \in Sheets, BeginDelete(c, u, s)
        PROVE  IInv'
    <2> DEFINE q == [at |-> "deleting", user |-> u, sheet |-> s]
    <2>1. calls' = [calls EXCEPT ![c] = q] /\ UNCHANGED <<tables, outbox>>
      BY <1>5 DEF BeginDelete
    <2>2. q \in Call /\ q.at = "deleting"
      BY DEF Call
    <2> HIDE DEF q
    <2>3. HeldRows' /\ OneHolder' /\ AuthorIsTold' /\ OthersConfirmed'
      BY <2>1, <2>2, CallBecomes
    <2>4. QED
      BY <1>0, <2>1, <2>3, Untouched DEF IInv
  <1>6. CASE UNCHANGED vars
    <2>1. HeldRows' /\ OneHolder' /\ AuthorIsTold' /\ OthersConfirmed'
      BY <1>6 DEF IInv, vars, tables, HeldRows, OneHolder, AuthorIsTold, OthersConfirmed,
                  Holding, Confirming, On, Sent
    <2>2. QED
      BY <1>0, <1>6, <2>1, Untouched DEF IInv, vars
  <1>7. QED
    BY <1>0, <1>1, <1>2, <1>3, <1>4, <1>5, <1>6, CreateIInv, MarkViewedIInv, DeleteIInv, CommitIInv
    DEF Next

(* The inductive invariant holds in every reachable state.                 *)
THEOREM ConfirmationsAgree == Spec => []IInv
  BY InitIInv, NextIInv, PTL DEF Spec

(* Sheets and outbox tell the same story, whatever calls overlapped, were  *)
(* rolled back or deleted the sheet (acknowledgment_repo.go, markConfirmed,*)
(* and acknowledgment_service.go, acknowledgmentConfirmedEventRequests).   *)
THEOREM ConfirmationsAreRecorded == Spec => []ConfirmedIsRecorded
  <1>1. IInv => ConfirmedIsRecorded
    BY DEF IInv
  <1>2. QED
    BY <1>1, ConfirmationsAgree, PTL

(* A sheet with an open row is never hidden from those who wait for it: it *)
(* is not completed, so GetAllActive finds it, and its document is readable*)
(* for whoever is shown the sheets of that document.                       *)
LEMMA OpenIsShown ==
    ASSUME IInv, NEW s \in Sent, NEW x \in Users, marks[s][x] \in Unconfirmed, NEW u \in Users,
           s \in SheetsOf(u, sheets[s].document)
    PROVE  s \in AllActive(u)
  <1> DEFINE kinds == Access!KindsWithAction(u, "acknowledge")
             active == {t \in Sent : ~sheets[t].completed /\ KindOf[sheets[t].document] \in kinds}
             ids == {sheets[t].document : t \in active}
             d == sheets[s].document
  <1>1. sheets[s] \in Sheet /\ d \in Documents /\ KindOf[d] \in Kinds
    BY AcknowledgmentConstants DEF IInv, TypeOK, Sent, Sheet
  <1>2. ~sheets[s].completed
    BY DEF IInv, CompletedIsConfirmed, Unconfirmed
  <1>3. Access!RequireDocumentAction(u, d, "acknowledge")
    BY DEF SheetsOf
  <1>4. s \in active /\ d \in ids
    BY <1>1, <1>2, <1>3 DEF Access!RequireDocumentAction, Access!KindsWithAction
  <1>5. Access!RequireDomainRead(u) /\ Access!CanReadResolved(u, d)
    BY <1>3 DEF Access!RequireDocumentAction, Access!RequireReadResolved
  <1> HIDE DEF ids, active, kinds
  <1>6. d \in Access!ResolveReadableDocuments(u, ids)
    BY <1>4, <1>5 DEF Access!ResolveReadableDocuments, Access!CanReadResolved,
         Access!HasImplicitReadAccess, Access!AssignedAmong, Access!AcknowledgedAmong
  <1>7. QED
    BY <1>4, <1>6 DEF AllActive, ids, active, kinds

(* Nobody is forgotten, for any number of people, substitutes and overlaps.*)
THEOREM NobodyIsEverForgotten == Spec => []NobodyIsForgotten
  <1>1. IInv => NobodyIsForgotten
    <2> SUFFICES ASSUME IInv, NEW s \in Sent, NEW x \in Users, marks[s][x] \in Unconfirmed
        PROVE  /\ x \in participants => s \in PendingForCurrentUser(x)
               /\ \A u \in Users : s \in SheetsOf(u, sheets[s].document) => s \in AllActive(u)
      BY DEF NobodyIsForgotten
    <2>1. x \in participants => s \in PendingForCurrentUser(x)
      BY DEF PendingForCurrentUser, Access!RequireDomainRead, Access!Subjects, Pending
    <2>2. QED
      BY <2>1, OpenIsShown
  <1>2. QED
    BY <1>1, ConfirmationsAgree, PTL

(* What is shown as pending can be answered: the user's own row, or that of*)
(* a principal, who comes first.                                           *)
THEOREM ShownCanBeAnswered == Spec => []ShownIsAnswerable
  <1>1. ShownIsAnswerable
    <2> SUFFICES ASSUME NEW u \in Users, NEW s \in PendingForCurrentUser(u), NEW x \in AnswersFor(u, s)
        PROVE  marks[s][x] \in Unconfirmed
      BY DEF ShownIsAnswerable
    <2>1. PICK y \in Access!Subjects(u) : s \in Pending(y)
      BY DEF PendingForCurrentUser
    <2>2. QED
      BY <2>1 DEF AnswersFor, Access!Subjects, Pending
  <1>2. QED
    BY <1>1, PTL

(* A user who stands in for somebody has two subjects or more.             *)
LEMMA MoreSubjects ==
    ASSUME NEW u \in Users
    PROVE  Cardinality(Access!Subjects(u)) > 1 <=> Access!Subjects(u) # {u}
  <1> DEFINE S == Access!Subjects(u)
  <1>1. u \in S /\ S \subseteq Users
    BY DEF Access!Subjects, Access!ActivePrincipals
  <1> HIDE DEF S
  <1>2. IsFiniteSet(S)
    BY <1>1, AcknowledgmentConstants, FS_Subset
  <1>3. Cardinality(S) \in Nat /\ Cardinality(S) # 0
    BY <1>1, <1>2, FS_CardinalityType, FS_EmptySet
  <1>4. Cardinality(S) = 1 <=> S = {u}
    BY <1>1, <1>2, FS_Singleton
  <1>5. QED
    BY <1>3, <1>4 DEF S

(* Who reads by being asked (document_access_service.go): everybody on a   *)
(* sheet of the document and the substitutes, before and after confirming, *)
(* and nobody else without the right to read.                              *)
THEOREM AskedMayRead == Spec => []AskedCanRead
  <1>1. AskedCanRead
    <2> DEFINE asked(u, d) ==
          \E s \in Sent, x \in Access!Subjects(u) : sheets[s].document = d /\ marks[s][x] # "none"
    <2>1. ASSUME NEW u \in Users, NEW d \in Documents
          PROVE  /\ asked(u, d) /\ (u \in participants \/ Access!Subjects(u) # {u}) =>
                      Access!RequireReadResolved(u, d)
                 /\ Access!RequireReadResolved(u, d) => asked(u, d) \/ Access!HasPermission(u, KindOf[d], "read")
      <3> DEFINE inScope == u \in participants \/ Access!Subjects(u) # {u}
                 named == UNION {On(s) : s \in {t \in Sent : sheets[t].document = d}}
      <3>1. Access!Subjects(u) \subseteq Users
        BY DEF Access!Subjects, Access!ActivePrincipals
      <3>2. asked(u, d) <=> Access!Subjects(u) \cap named # {}
        BY <3>1 DEF On
      <3>3. Access!AcknowledgesIn(Access!Subjects(u), d) <=> Access!Subjects(u) \cap named # {}
        BY DEF Access!AcknowledgesIn, On
      <3>4. ~Access!ExecutesIn(Access!Subjects(u), d)
        BY DEF Access!ExecutesIn
      <3>5. Access!DepartmentNomenclatures(u) = {}
        BY DEF Access!DepartmentNomenclatures
      <3>6. Access!Cardinality(Access!Subjects(u)) = Cardinality(Access!Subjects(u))
        BY Zenon DEF Access!Cardinality, Cardinality
      <3>7. (u \in participants \/ Access!Cardinality(Access!Subjects(u)) > 1) <=> inScope
        BY <3>6, MoreSubjects
      <3>8. Access!HasImplicitReadAccess(u, d) <=> inScope /\ asked(u, d)
        BY <3>2, <3>3, <3>4, <3>5, <3>7 DEF Access!HasImplicitReadAccess
      <3>9. inScope => Access!RequireDomainRead(u)
        BY DEF Access!RequireDomainRead
      <3> HIDE DEF inScope, named, asked
      <3>10. QED
        BY <3>8, <3>9 DEF Access!RequireReadResolved, Access!CanReadResolved, inScope
    <2>2. QED
      BY <2>1 DEF AskedCanRead
  <1>2. QED
    BY <1>1, PTL

-----------------------------------------------------------------------------
(* When the last confirmation completes the sheet.                         *)

(* Confirmations of one sheet take turns: from its first statement to its  *)
(* commit, a transaction is the only one on the sheet.  The code does not  *)
(* see to that.                                                            *)
TakeTurns ==
    \A b, c \in Calls : Holding(b) /\ Holding(c) /\ calls[b].sheet = calls[c].sheet => b = c

(* A count that found somebody was right.                                  *)
AnotherRemains ==
    \A c \in Calls : calls[c].at = "counted" /\ ~calls[c].completes =>
        \E y \in Users \ {calls[c].subject} : marks[calls[c].sheet][y] \in Unconfirmed

TurnInv == AllConfirmedIsCompleted /\ AnotherRemains

(* A step that touches no table keeps it, if it leaves behind no wrong     *)
(* count.                                                                  *)
LEMMA TurnQuiet ==
    ASSUME TypeOK, TurnInv, UNCHANGED tables, NEW c \in Calls, NEW q,
           calls' = [calls EXCEPT ![c] = q],
           q.at = "counted" /\ ~q.completes =>
             \E y \in Users \ {q.subject} : marks[q.sheet][y] \in Unconfirmed
    PROVE  TurnInv'
  <1>1. /\ sheets' = sheets /\ marks' = marks /\ Sent' = Sent
        /\ calls'[c] = q /\ \A b \in Calls \ {c} : calls'[b] = calls[b]
    BY DEF tables, Sent, TypeOK
  <1>2. AllConfirmedIsCompleted'
    BY <1>1 DEF TurnInv, AllConfirmedIsCompleted
  <1>3. AnotherRemains'
    BY <1>1 DEF TurnInv, AnotherRemains
  <1>4. QED
    BY <1>2, <1>3 DEF TurnInv

(* If nobody remains, none is counted.                                     *)
LEMMA SomebodyRemains ==
    ASSUME NEW s, NEW x, Remaining(s, x) # 0
    PROVE  \E y \in Users \ {x} : marks[s][y] \in Unconfirmed
  <1> DEFINE open == {y \in On(s) \ {x} : marks[s][y] \in Unconfirmed}
  <1>1. open # {}
    BY FS_EmptySet DEF Remaining
  <1>2. QED
    BY <1>1 DEF On

(* A transaction that has its turn either completes the sheet or leaves    *)
(* somebody who has not confirmed.                                         *)
LEMMA CommitTurn ==
    ASSUME IInv, TakeTurns, TurnInv, NEW c \in Calls, Commit(c)
    PROVE  TurnInv'
  <1> DEFINE s == calls[c].sheet
             x == calls[c].subject
             b0 == sheets[s].completed \/ calls[c].completes
  <1>1. /\ s \in Sent /\ s \in Sheets /\ x \in Users /\ Holding(c) /\ calls[c].at = "counted"
        /\ sheets[s] \in Sheet /\ calls[c].completes \in BOOLEAN
    BY ConfirmingFields DEF Commit, IInv, TypeOK, HeldRows, Holding, Sent
  <1>2. Sent' = Sent
    BY CommitSheets DEF IInv
  <1>3. /\ calls'[c].at = "idle" /\ \A b \in Calls \ {c} : calls'[b] = calls[b]
        /\ marks'[s][x] = "confirmed"
        /\ \A t \in Sheets, y \in Users : t # s \/ y # x => marks'[t][y] = marks[t][y]
        /\ \A t \in Sheets : t # s => sheets'[t] = sheets[t]
    BY <1>1 DEF Commit, IInv, TypeOK, Idle
  <1>4. calls[c].completes => sheets'[s].completed
    <2>1. sheets' = [sheets EXCEPT ![s] = [sheets[s] EXCEPT !.completed = b0]]
      BY DEF Commit
    <2>2. b0 \in BOOLEAN
      OBVIOUS
    <2> HIDE DEF b0
    <2>3. [sheets[s] EXCEPT !.completed = b0].completed = b0
      BY <1>1, <2>2 DEF Sheet
    <2>4. sheets'[s].completed = b0
      BY <1>1, <2>1, <2>3 DEF IInv, TypeOK
    <2>5. QED
      BY <2>4 DEF b0
  <1>5. ASSUME ~calls[c].completes
        PROVE  \E y \in Users : marks'[s][y] \in Unconfirmed
    <2>1. PICK y \in Users \ {x} : marks[s][y] \in Unconfirmed
      BY <1>1, <1>5 DEF TurnInv, AnotherRemains
    <2>2. QED
      BY <1>1, <1>3, <2>1 DEF On
  <1>6. AllConfirmedIsCompleted'
    <2> SUFFICES ASSUME NEW t \in Sent, \A y \in Users : marks'[t][y] \in {"none", "confirmed"}
                 PROVE  sheets'[t].completed
      BY <1>2 DEF AllConfirmedIsCompleted
    <2>1. CASE t = s
      BY <1>4, <1>5, <2>1 DEF Unconfirmed
    <2>2. CASE t # s
      <3>1. t \in Sheets
        BY DEF Sent
      <3>2. \A y \in Users : marks[t][y] \in {"none", "confirmed"}
        BY <1>3, <2>2, <3>1
      <3>3. QED
        BY <1>3, <2>2, <3>1, <3>2 DEF TurnInv, AllConfirmedIsCompleted
    <2>3. QED
      BY <2>1, <2>2
  <1>7. AnotherRemains'
    <2> SUFFICES ASSUME NEW b \in Calls, calls'[b].at = "counted", ~calls'[b].completes
                 PROVE  \E y \in Users \ {calls'[b].subject} :
                           marks'[calls'[b].sheet][y] \in Unconfirmed
      BY DEF AnotherRemains
    <2>1. b # c /\ calls'[b] = calls[b]
      BY <1>3
    <2>2. calls[b].sheet # s /\ calls[b].sheet \in Sheets
      BY <1>1, <2>1 DEF TakeTurns, Holding, IInv, HeldRows, Sent
    <2>3. PICK y \in Users \ {calls[b].subject} : marks[calls[b].sheet][y] \in Unconfirmed
      BY <2>1 DEF TurnInv, AnotherRemains
    <2>4. marks'[calls[b].sheet][y] \in Unconfirmed
      BY <1>3, <2>2, <2>3
    <2>5. QED
      BY <2>1, <2>3, <2>4
  <1>8. QED
    BY <1>6, <1>7 DEF TurnInv

(* Every step of confirmations that take turns keeps it.                  *)
LEMMA NextTurnInv == IInv /\ TakeTurns /\ TurnInv /\ [Next]_vars => TurnInv'
  <1> SUFFICES ASSUME IInv, TakeTurns, TurnInv, [Next]_vars PROVE TurnInv'
    OBVIOUS
  <1>0. TypeOK /\ \A c \in Calls : calls[c] \in Call \cup {Idle}
    BY DEF IInv, TypeOK
  <1>1. ASSUME NEW u \in Users, NEW s \in Sheets, NEW d \in Documents, NEW team \in Teams,
               Create(u, s, d, team)
        PROVE  TurnInv'
    <2>1. /\ s \notin used /\ calls' = calls
          /\ sheets' = [sheets EXCEPT ![s] = [document |-> d, creator |-> u, completed |-> FALSE]]
          /\ marks' = [marks EXCEPT ![s] = [x \in Users |-> IF x \in team THEN "pending" ELSE "none"]]
      BY <1>1 DEF Create
    <2>2. PICK x \in team : x \in Users
      <3>1. team # {} /\ team \subseteq Users
        BY AcknowledgmentConstants
      <3>2. QED
        BY <3>1
    <2>3. marks'[s][x] = "pending" /\ \A t \in Sheets \ {s} : marks'[t] = marks[t] /\ sheets'[t] = sheets[t]
      BY <2>1, <2>2 DEF IInv, TypeOK
    <2>4. AllConfirmedIsCompleted'
      BY <2>2, <2>3 DEF TurnInv, AllConfirmedIsCompleted, Sent
    <2>5. AnotherRemains'
      <3> SUFFICES ASSUME NEW b \in Calls, calls[b].at = "counted", ~calls[b].completes
                   PROVE  \E y \in Users \ {calls[b].subject} :
                             marks'[calls[b].sheet][y] \in Unconfirmed
        BY <2>1 DEF AnotherRemains
      <3>1. calls[b].sheet \in Sheets \ {s}
        BY <2>1 DEF IInv, HeldRows, Holding, AuthorIsTold, Confirming, Sent
      <3>2. QED
        BY <2>3, <3>1 DEF TurnInv, AnotherRemains
    <2>6. QED
      BY <2>4, <2>5 DEF TurnInv
  <1>2. ASSUME NEW u \in Users, NEW x \in Users, NEW s \in Sheets, MarkViewed(u, s, x)
        PROVE  TurnInv'
    <2>1. /\ s \in Sent /\ marks[s][x] = "pending" /\ calls' = calls /\ sheets' = sheets
          /\ marks' = [marks EXCEPT ![s][x] = "viewed"]
      BY <1>2 DEF MarkViewed
    <2>2. \A t \in Sheets, y \in Users :
             /\ marks'[t][y] \in Unconfirmed <=> marks[t][y] \in Unconfirmed
             /\ marks'[t][y] \in {"none", "confirmed"} => marks[t][y] \in {"none", "confirmed"}
      BY <2>1 DEF IInv, TypeOK, Unconfirmed
    <2>3. Sent' = Sent /\ Sent \subseteq Sheets
      BY <2>1 DEF Sent
    <2>4. AllConfirmedIsCompleted'
      BY <2>1, <2>2, <2>3 DEF TurnInv, AllConfirmedIsCompleted
    <2>5. AnotherRemains'
      <3> SUFFICES ASSUME NEW b \in Calls, calls[b].at = "counted", ~calls[b].completes
                   PROVE  \E y \in Users \ {calls[b].subject} :
                             marks'[calls[b].sheet][y] \in Unconfirmed
        BY <2>1 DEF AnotherRemains
      <3>1. calls[b].sheet \in Sheets
        BY DEF IInv, HeldRows, Holding, Sent
      <3>2. PICK y \in Users \ {calls[b].subject} : marks[calls[b].sheet][y] \in Unconfirmed
        BY DEF TurnInv, AnotherRemains
      <3>3. marks'[calls[b].sheet][y] \in Unconfirmed
        BY <2>2, <3>1, <3>2
      <3>4. QED
        BY <3>2, <3>3
    <2>6. QED
      BY <2>4, <2>5 DEF TurnInv
  <1>3. ASSUME NEW c \in Calls, NEW u \in Users, NEW s \in Sheets, ResolveConfirmation(c, u, s)
        PROVE  TurnInv'
    <2>1. PICK x \in AnswersFor(u, s) :
            calls' = [calls EXCEPT ![c] =
              [at |-> "resolved", user |-> u, sheet |-> s, subject |-> x,
               told |-> ConfirmationRecipients(u, s), completes |-> FALSE]]
      BY <1>3 DEF ResolveConfirmation
    <2>2. UNCHANGED tables
      BY <1>3 DEF ResolveConfirmation
    <2>3. QED
      BY <1>0, <2>1, <2>2, TurnQuiet
  <1>4. ASSUME NEW c \in Calls, ConfirmRow(c) PROVE TurnInv'
    <2>1. PICK q \in Call \cup {Idle} : calls' = [calls EXCEPT ![c] = q] /\ (q = Idle \/ q.at = "locked")
      BY <1>0, <1>4, ConfirmRowCall
    <2>2. UNCHANGED tables /\ q.at # "counted"
      BY <1>4, <2>1 DEF ConfirmRow, Idle
    <2>3. QED
      BY <1>0, <2>1, <2>2, TurnQuiet
  <1>5. ASSUME NEW c \in Calls, CountRemaining(c) PROVE TurnInv'
    <2>1. PICK q \in Call :
             /\ calls' = [calls EXCEPT ![c] = q]
             /\ q.at = "counted" /\ q.sheet = calls[c].sheet
             /\ q.subject = calls[c].subject /\ q.told = calls[c].told
             /\ q.completes <=> Remaining(q.sheet, q.subject) = 0
      BY <1>0, <1>5, CountRemainingCall
    <2>2. UNCHANGED tables
      BY <1>5 DEF CountRemaining
    <2>3. ~q.completes => \E y \in Users \ {q.subject} : marks[q.sheet][y] \in Unconfirmed
      BY <2>1, SomebodyRemains
    <2>4. QED
      BY <1>0, <2>1, <2>2, <2>3, TurnQuiet
  <1>6. ASSUME NEW c \in Calls, Rollback(c) PROVE TurnInv'
    <2>1. calls' = [calls EXCEPT ![c] = Idle] /\ UNCHANGED tables /\ Idle.at # "counted"
      BY <1>6 DEF Rollback, Idle
    <2>2. QED
      BY <1>0, <2>1, TurnQuiet
  <1>7. ASSUME NEW c \in Calls, NEW u \in Users, NEW s \in Sheets, BeginDelete(c, u, s)
        PROVE  TurnInv'
    <2> DEFINE q == [at |-> "deleting", user |-> u, sheet |-> s]
    <2>1. calls' = [calls EXCEPT ![c] = q] /\ UNCHANGED tables /\ q.at # "counted"
      BY <1>7 DEF BeginDelete
    <2> HIDE DEF q
    <2>2. QED
      BY <1>0, <2>1, TurnQuiet
  <1>8. ASSUME NEW c \in Calls, Delete(c) PROVE TurnInv'
    <2> DEFINE s == calls[c].sheet
    <2>1. /\ calls[c].at = "deleting" /\ \A x \in Users : ~RowLocked(s, x)
          /\ sheets' = [sheets EXCEPT ![s] = NoSheet]
          /\ marks' = [marks EXCEPT ![s] = [x \in Users |-> "none"]]
          /\ calls' = [calls EXCEPT ![c] = Idle]
      BY <1>8 DEF Delete
    <2>2. s \in Sheets
      BY <1>0, <2>1, DeletingFields
    <2>3. /\ \A t \in Sheets \ {s} : marks'[t] = marks[t] /\ sheets'[t] = sheets[t]
          /\ sheets'[s] = NoSheet
          /\ calls'[c].at = "idle" /\ \A b \in Calls \ {c} : calls'[b] = calls[b]
      BY <2>1, <2>2 DEF IInv, TypeOK, Idle
    <2>4. AllConfirmedIsCompleted'
      BY <2>3 DEF TurnInv, AllConfirmedIsCompleted, Sent
    <2>5. AnotherRemains'
      <3> SUFFICES ASSUME NEW b \in Calls, calls'[b].at = "counted", ~calls'[b].completes
                   PROVE  \E y \in Users \ {calls'[b].subject} :
                             marks'[calls'[b].sheet][y] \in Unconfirmed
        BY DEF AnotherRemains
      <3>1. b # c /\ calls'[b] = calls[b]
        BY <2>3
      <3>2. calls[b].subject \in Users /\ calls[b].sheet \in Sheets
        BY <1>0, <3>1, ConfirmingFields
      <3>3. calls[b].sheet # s
        BY <2>1, <3>1, <3>2 DEF RowLocked
      <3>4. QED
        BY <2>3, <3>1, <3>2, <3>3 DEF TurnInv, AnotherRemains
    <2>6. QED
      BY <2>4, <2>5 DEF TurnInv
  <1>9. CASE UNCHANGED vars
    BY <1>9 DEF vars, tables, TurnInv, AllConfirmedIsCompleted, AnotherRemains, Sent
  <1>10. QED
    BY <1>1, <1>2, <1>3, <1>4, <1>5, <1>6, <1>7, <1>8, <1>9, CommitTurn DEF Next

(* The lost completion has one cause: as long as no two confirmations of a *)
(* sheet overlap, a sheet that everybody has confirmed is completed, as    *)
(* acknowledgment_repo.go says of its third statement.                     *)
THEOREM TurnsCompleteSheets == Spec /\ []TakeTurns => []AllConfirmedIsCompleted
  <1>1. Init => TurnInv
    BY DEF Init, TurnInv, AllConfirmedIsCompleted, AnotherRemains, Sent, Idle
  <1>2. TurnInv => AllConfirmedIsCompleted
    BY DEF TurnInv
  <1>3. QED
    BY <1>1, <1>2, NextTurnInv, ConfirmationsAgree, PTL DEF Spec
=============================================================================
