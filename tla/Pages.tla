-------------------------------- MODULE Pages --------------------------------
(***************************************************************************)
(* What an operator is shown and does with it: the paged lists of            *)
(* go/application/operator.go and go/application/notification.go, the         *)
(* cursors that bind a page to one host epoch, caller and revision, the       *)
(* client that reads every page (go/client/notification.go), and the          *)
(* presentation token without which nobody acts on a notification.            *)
(*                                                                         *)
(* A record is its ID and whether it is live, acted on or over; a revision    *)
(* is a hash of what was read, here that itself; a cursor is its prefix and   *)
(* its offset; a token is the ID and the epoch whose key signed it.  A        *)
(* delegate lists what it may answer (go/application/responder.go), under one *)
(* right to all questions.  Lists of choices and answers repeat that code.    *)
(***************************************************************************)
EXTENDS Integers, Sequences, FiniteSets

CONSTANTS
    Caller,     \* connections of operators and delegates, each its own scope
    Note,       \* notification IDs
    Question,   \* question IDs
    PageSize,   \* the limit a caller asks for, at most 64
    MaxIssued,  \* bound on the records there ever are
    MaxEpoch    \* bound on restarts

ASSUME PagesAssumption ==
    /\ Note \cap Question = {}
    /\ Note # {} /\ "stale" \notin Note      \* a list names something; see TokenOf
    /\ PageSize \in Nat \ {0} /\ MaxIssued \in Nat /\ MaxEpoch \in Nat

Id == Note \cup Question

VARIABLES
    file,       \* the retained records in admission order
    used,       \* the IDs given out
    late,       \* the clock reads past the end of every live record
    epoch,      \* Host.operatorEpoch and Host.presentationKey
    right,      \* whether AuthorizeOperator or AuthorizeResponder admits a caller
    at,         \* where each caller is
    list,       \* what it lists: attempt, records so far, cursor
    snap,       \* what its call read: rows, their prefix, the offset, the page
    want,       \* the notification it acts on
    tokens,     \* the presentation tokens it was given
    first,      \* history: the rows its attempt began with
    shown       \* history: the notifications shown in this epoch

vars == <<file, used, late, epoch, right, at, list, snap, want, tokens, first, shown>>

book == <<file, used, late>>
calls == <<at, list, snap, want>>

NoCursor == [prefix |-> <<>>, offset |-> 0]
NoWant == CHOOSE i \in Note : TRUE

NewList(kind, attempt) ==
    [kind |-> kind, attempt |-> attempt, out |-> <<>>, cursor |-> NoCursor]

NoList == NewList("notifications", 1)
NoSnap == [rows |-> <<>>, prefix |-> <<>>, offset |-> 0, part |-> <<>>]

Record == [id : Id, state : {"live", "acted", "over"}]

IdsOf(rows) == {rows[k].id : k \in DOMAIN rows}

TypeOK ==
    /\ \A k \in DOMAIN file : file[k] \in Record
    /\ IdsOf(file) \subseteq used /\ used \subseteq Id
    /\ \A j, k \in DOMAIN file : file[j].id = file[k].id => j = k
    /\ late \in BOOLEAN /\ epoch \in 0..MaxEpoch /\ right \in [Caller -> BOOLEAN]
    /\ at \in [Caller -> {"idle", "list", "read", "acting", "done", "gaveup", "failed"}]
    /\ want \in [Caller -> Note]
    /\ tokens \in [Caller -> SUBSET (Note \X (0..MaxEpoch))]
    /\ shown \subseteq Note
    /\ \A c \in Caller : /\ list[c].attempt \in 1..2
                         /\ snap[c].offset \in 0..Len(snap[c].rows)
                         /\ Len(list[c].out) <= Len(first[c])

Init ==
    /\ file = <<>> /\ used = {} /\ late = FALSE /\ epoch = 0
    /\ right \in [Caller -> BOOLEAN]
    /\ at = [c \in Caller |-> "idle"]
    /\ list = [c \in Caller |-> NoList]
    /\ snap = [c \in Caller |-> NoSnap]
    /\ want = [c \in Caller |-> NoWant]
    /\ tokens = [c \in Caller |-> {}]
    /\ first = [c \in Caller |-> <<>>]
    /\ shown = {}

-----------------------------------------------------------------------------
(* The Book, as far as a list tells it apart. *)

(* What a read makes of the file at this reading of the clock: an expired     *)
(* question is left out, an expired notification reads as over.               *)
Gone(r) == late /\ r.state = "live" /\ r.id \in Question

Aged(r) == IF late /\ r.state = "live" THEN [r EXCEPT !.state = "over"] ELSE r

(* The rows of s at the indices K, in their order: what SelectSeq makes, by     *)
(* its indices, which is what a proof can speak of.                          *)
Selected(s, K) ==
    [n \in 1..Cardinality(K) |-> s[CHOOSE k \in K : Cardinality({j \in K : j <= k}) = n]]

View ==
    Selected([k \in DOMAIN file |-> Aged(file[k])], {k \in DOMAIN file : ~Gone(file[k])})

(* The rows of v that are about S. *)
Only(v, S) == Selected(v, {k \in DOMAIN v : v[k].id \in S})

Write(rows) == file' = rows

(* IDs are fresh; which of the unused ones is taken tells nothing apart. *)
Fresh(S) == CHOOSE i \in S : i \notin used

Post(S) ==
    LET i == Fresh(S) IN
    /\ ~(S \subseteq used) /\ Cardinality(used) < MaxIssued
    /\ used' = used \cup {i}
    /\ Write(Append(View, [id |-> i, state |-> "live"]))
    /\ late' = FALSE
    /\ UNCHANGED <<epoch, right, calls, tokens, first, shown>>

(* An answer, dismissal or withdrawal. *)
Settle(i) ==
    /\ \E k \in DOMAIN View : /\ View[k] = [id |-> i, state |-> "live"]
                              /\ Write([View EXCEPT ![k].state = "over"])
    /\ UNCHANGED <<used, late, epoch, right, calls, tokens, first, shown>>

(* An acknowledgement, a retirement or the end of retention. *)
Collect(i) ==
    /\ \E k \in DOMAIN View : View[k].id = i /\ View[k].state # "live"
    /\ Write(Only(View, Id \ {i}))
    /\ UNCHANGED <<used, late, epoch, right, calls, tokens, first, shown>>

ClockStep ==
    /\ late' = ~late
    /\ UNCHANGED <<file, used, epoch, right, calls, tokens, first, shown>>

(* The rights owner decides otherwise. *)
ChangeRight(c) ==
    /\ right' = [right EXCEPT ![c] = ~right[c]]
    /\ UNCHANGED <<book, epoch, calls, tokens, first, shown>>

(* A new host over the same file: calls in progress fail, and cursors and     *)
(* tokens stay with those who hold them.                                      *)
Restart ==
    /\ epoch < MaxEpoch
    /\ epoch' = epoch + 1
    /\ at' = [c \in Caller |-> IF at[c] \in {"read", "acting"} THEN "failed" ELSE at[c]]
    /\ list' = [c \in Caller |-> IF at[c] = "read" THEN NoList ELSE list[c]]
    /\ first' = [c \in Caller |-> IF at[c] = "read" THEN <<>> ELSE first[c]]
    /\ snap' = [c \in Caller |-> NoSnap]
    /\ want' = [c \in Caller |-> NoWant]
    /\ shown' = {}
    /\ UNCHANGED <<book, right, tokens>>

-----------------------------------------------------------------------------
(* One page. *)

QuestionRows == Only(View, Question)

NotificationRows == Only(View, Note)

(* What a caller lists: for "answerable", every question, of which the page    *)
(* takes those it may answer.                                                *)
Rows(kind) == IF kind = "notifications" THEN NotificationRows ELSE QuestionRows

(* Cursors of questions are bound to the whole file as it was read, those of  *)
(* notifications to their partition.                                          *)
QuestionPrefix(c) == <<epoch, c, View>>

NotificationPrefix(c) == <<"notifications:", epoch, c, NotificationRows>>

(* EpochPrefix would bind a cursor to the host alone. *)
EpochPrefix(c, kind) == <<kind, epoch, c>>

Prefix(c, kind) == IF kind = "notifications" THEN NotificationPrefix(c) ELSE QuestionPrefix(c)

(* The call, or the list it belongs to, is refused. *)
Fails(c) ==
    /\ at' = [at EXCEPT ![c] = "failed"]
    /\ list' = [list EXCEPT ![c] = NoList]
    /\ first' = [first EXCEPT ![c] = <<>>]

(* The client begins another attempt on a gap, once.  Only the list of        *)
(* notifications has such a client.  Its limit of 64 pages an attempt is more *)
(* than the 1024 admissions and the partition's bytes can fill.               *)
AttemptsWithoutEnd(kind) == 3

Attempts(kind) == IF kind = "notifications" THEN 2 ELSE 1

NextAttempt(a) == IF a < 2 THEN a + 1 ELSE a

Again(c) ==
    IF list[c].attempt < Attempts(list[c].kind)
    THEN /\ at' = [at EXCEPT ![c] = "list"]
         /\ list' = [list EXCEPT ![c] = NewList(list[c].kind, NextAttempt(list[c].attempt))]
         /\ first' = [first EXCEPT ![c] = <<>>]
    ELSE /\ at' = [at EXCEPT ![c] = "gaveup"]
         /\ list' = [list EXCEPT ![c] = NoList]
         /\ first' = [first EXCEPT ![c] = <<>>]

StartList(c, kind) ==
    /\ at[c] \in {"idle", "done", "gaveup", "failed"}
    /\ at' = [at EXCEPT ![c] = "list"]
    /\ list' = [list EXCEPT ![c] = NewList(kind, 1)]
    /\ first' = [first EXCEPT ![c] = <<>>]
    /\ UNCHANGED <<book, epoch, right, snap, want, tokens, shown>>

(* The call is authorized and reads; a cursor of another prefix is a gap.  A   *)
(* delegate's call is authorized record by record.                           *)
ReadPage(c) ==
    LET l == list[c]
        rows == Rows(l.kind)
        prefix == Prefix(c, l.kind)
        admitted == l.kind = "answerable" \/ right[c]
        bound == l.cursor = NoCursor \/ (l.cursor.prefix = prefix /\ l.cursor.offset <= Len(rows))
    IN  /\ at[c] = "list"
        /\ \/ /\ ~admitted
              /\ Fails(c)
              /\ UNCHANGED snap
           \/ /\ admitted /\ ~bound
              /\ Again(c)
              /\ UNCHANGED snap
           \/ /\ admitted /\ bound
              /\ at' = [at EXCEPT ![c] = "read"]
              /\ snap' = [snap EXCEPT ![c] = [rows |-> rows, prefix |-> prefix,
                                              offset |-> l.cursor.offset, part |-> <<>>]]
              /\ first' = [first EXCEPT ![c] = IF l.cursor = NoCursor THEN rows ELSE first[c]]
              /\ UNCHANGED list
        /\ UNCHANGED <<book, epoch, right, want, tokens, shown>>

(* The second authorization.  OnceAuthorized would trust the first. *)
OnceAuthorized(c) == TRUE

StillAuthorized(c) == right[c]

Present(c, ids) ==
    /\ tokens' = [tokens EXCEPT ![c] = tokens[c] \cup {<<i, epoch>> : i \in ids \cap Note}]
    /\ shown' = shown \cup (ids \cap Note)

(* The reply: its records, and the cursor of the next page if there is one.   *)
Page(c, part, end) ==
    LET l == list[c]
        s == snap[c]
        out == l.out \o part
    IN  /\ Present(c, IdsOf(part))
        /\ UNCHANGED first
        /\ IF end = Len(s.rows)
           THEN /\ at' = [at EXCEPT ![c] = "done"]
                /\ list' = [list EXCEPT ![c] = [NewList(l.kind, 1) EXCEPT !.out = out]]
           ELSE /\ at' = [at EXCEPT ![c] = "list"]
                /\ list' = [list EXCEPT ![c] =
                      [kind |-> l.kind, attempt |-> l.attempt, out |-> out,
                       cursor |-> [prefix |-> s.prefix, offset |-> end]]]

(* The page ends at its limit or at its byte bound, after a record at least.  *)
Disclose(c) ==
    LET s == snap[c]
        left == Len(s.rows) - s.offset
    IN  /\ at[c] = "read" /\ list[c].kind # "answerable"
        /\ \/ /\ ~StillAuthorized(c)
              /\ Fails(c)
              /\ UNCHANGED <<tokens, shown>>
           \/ /\ StillAuthorized(c)
              /\ \E n \in 0..PageSize :
                    /\ n <= left /\ (n = 0 => left = 0)
                    /\ Page(c, SubSeq(s.rows, s.offset + 1, s.offset + n), s.offset + n)
        /\ snap' = [snap EXCEPT ![c] = NoSnap]
        /\ UNCHANGED <<book, epoch, right, want>>

(* A delegate's page takes one record after another: those that are pending    *)
(* and that it may answer as it is asked about them.                          *)
Examine(c) ==
    LET s == snap[c]
        row == s.rows[s.offset + 1]
        listed == row.state = "live" /\ right[c]
    IN  /\ at[c] = "read" /\ list[c].kind = "answerable"
        /\ s.offset < Len(s.rows) /\ Len(s.part) < PageSize
        /\ snap' = [snap EXCEPT ![c] =
              [rows |-> s.rows, prefix |-> s.prefix, offset |-> s.offset + 1,
               part |-> IF listed THEN Append(s.part, row) ELSE s.part]]
        /\ UNCHANGED <<book, epoch, right, at, list, want, tokens, first, shown>>

(* Every record of its page is authorized again before the reply.             *)
DiscloseAnswerable(c) ==
    LET s == snap[c]
    IN  /\ at[c] = "read" /\ list[c].kind = "answerable"
        /\ s.offset = Len(s.rows) \/ s.part # <<>>
        /\ \/ /\ s.part # <<>> /\ ~StillAuthorized(c)
              /\ Fails(c)
              /\ UNCHANGED <<tokens, shown>>
           \/ /\ s.part = <<>> \/ StillAuthorized(c)
              /\ Page(c, s.part, s.offset)
        /\ snap' = [snap EXCEPT ![c] = NoSnap]
        /\ UNCHANGED <<book, epoch, right, want>>

Serve(c) == ReadPage(c) \/ Disclose(c) \/ Examine(c) \/ DiscloseAnswerable(c)

-----------------------------------------------------------------------------
(* One notification. *)

(* ReadNotification, authorized before and after the read. *)
ReadOne(c, i) ==
    /\ at[c] \notin {"read", "acting"}
    /\ right[c]
    /\ i \in IdsOf(NotificationRows)
    /\ Present(c, {i})
    /\ UNCHANGED <<book, epoch, right, calls, first>>

(* TokenOfAny would take the token of any epoch. *)
TokenOfAny(t) == t[1]

TokenOf(t) == IF t[2] = epoch THEN t[1] ELSE "stale"

(* Act: authorized, and the token is this host's for this record. *)
Act(c, i) ==
    /\ at[c] \notin {"list", "read", "acting"}
    /\ right[c]
    /\ \E t \in tokens[c] : TokenOf(t) = i
    /\ at' = [at EXCEPT ![c] = "acting"]
    /\ list' = [list EXCEPT ![c] = NoList]
    /\ first' = [first EXCEPT ![c] = <<>>]
    /\ want' = [want EXCEPT ![c] = i]
    /\ UNCHANGED <<book, epoch, right, snap, tokens, shown>>

(* The edit answers for what is not retained, and authorizes again for what     *)
(* is.  A record that is over takes nothing.                                 *)
RecordAct(c) ==
    LET retained == want[c] \in IdsOf(View)
        live == {k \in DOMAIN View : View[k] = [id |-> want[c], state |-> "live"]}
    IN  /\ at[c] = "acting"
        /\ \/ /\ retained /\ ~StillAuthorized(c)
              /\ Fails(c)
              /\ file' \in {file, View}
           \/ /\ ~retained \/ StillAuthorized(c)
              /\ at' = [at EXCEPT ![c] = "idle"]
              /\ UNCHANGED <<list, first>>
              /\ IF live = {} THEN file' \in {file, View}
                 ELSE \E k \in live : Write([View EXCEPT ![k].state = "acted"])
        /\ want' = [want EXCEPT ![c] = NoWant]
        /\ UNCHANGED <<used, late, epoch, right, snap, tokens, shown>>

Next ==
    \/ Post(Note) \/ Post(Question)
    \/ \E i \in Id : Settle(i) \/ Collect(i)
    \/ ClockStep
    \/ Restart
    \/ \E c \in Caller : ChangeRight(c) \/ Serve(c) \/ RecordAct(c)
    \/ \E c \in Caller, kind \in {"notifications", "questions", "answerable"} : StartList(c, kind)
    \/ \E c \in Caller, i \in Note : ReadOne(c, i) \/ Act(c, i)

(* A call that began is served, and the client goes on with its pages.        *)
Fairness == \A c \in Caller : WF_vars(Serve(c))

Spec == Init /\ [][Next]_vars /\ Fairness

-----------------------------------------------------------------------------
(* Properties. *)

(* part is, in order, some of the live rows among the first n of rows. *)
LiveAmong(part, rows, n) ==
    \E pos \in [1..Len(part) -> 1..n] :
        \A i \in 1..Len(part) : /\ part[i] = rows[pos[i]] /\ part[i].state = "live"
                               /\ \A j \in 1..i-1 : pos[j] < pos[i]

(* A list read to its end is the list of one revision: no record twice, none  *)
(* missing, none in two of its states, whatever was posted, settled, expired  *)
(* or collected between its pages and whichever host served them.  What a     *)
(* delegate may answer is, in order, some of what was pending in one revision. *)
WholeList ==
    /\ TypeOK
    /\ \A c \in Caller : at[c] = "done" =>
          IF list[c].kind = "answerable"
          THEN LiveAmong(list[c].out, first[c], Len(first[c]))
          ELSE list[c].out = first[c]

(* Nothing is disclosed or done for a caller whose right ended while its call *)
(* was being served, but that what it wants to act on is not retained.        *)
UnderRight ==
    [][\A c \in Caller :
          ( \/ Len(list'[c].out) > Len(list[c].out)
            \/ tokens'[c] # tokens[c]
            \/ at[c] = "acting" /\ at'[c] = "idle" /\ want[c] \in IdsOf(View) )
          => right[c]]_vars

Acted(rows) == {rows[k].id : k \in {j \in DOMAIN rows : rows[j].state = "acted"}}

(* The person acts on what this host showed: an item left on a screen by a    *)
(* host that is gone takes no action.                                         *)
ActedOnShown == [][Acted(file') \ Acted(file) \subseteq shown]_vars

(* Reading every page ends, even if the list never stops changing.            *)
ListEnds ==
    \A c \in Caller : []<>(at[c] \notin {"list", "read"})

=============================================================================
