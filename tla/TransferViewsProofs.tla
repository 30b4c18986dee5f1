------------------------- MODULE TransferViewsProofs -------------------------
(***************************************************************************)
(* What the two windows of transfers show, for any number of transfers.    *)
(* A handler is a composition of operators on worlds: each is shown to keep*)
(* a world in order and to leave the other transfers and their rows alone, *)
(* but for those that a closing connection aborts, and so is the whole.    *)
(***************************************************************************)
EXTENDS TransferViews, FiniteSetTheorems, SequenceTheorems, TLAPS

Lists == INSTANCE LinkedListProofs

-----------------------------------------------------------------------------
(* The rows of one window.                                                 *)

\* A sequence of rows of which no two are of one transfer.
Tidy(rows, S) ==
    /\ rows \in Seq(S)
    /\ \A i, j \in 1 .. Len(rows) : rows[i].of = rows[j].of => i = j

\* What Find returns.
LEMMA FindFinds ==
    ASSUME NEW S, NEW rows, Tidy(rows, S), NEW t
    PROVE  \/ Find(rows, t) = 0 /\ \A r \in ToSet(rows) : r.of # t
           \/ /\ Find(rows, t) \in 1 .. Len(rows)
              /\ rows[Find(rows, t)].of = t
              /\ rows[Find(rows, t)] \in ToSet(rows)
              /\ \A r \in ToSet(rows) : r.of = t => r = rows[Find(rows, t)]
<1> DEFINE I == {i \in 1 .. Len(rows) : rows[i].of = t}
<1>1. Find(rows, t) = IF I # {} THEN Min(I) ELSE 0
  BY DEF Find, SelectInSeq
<1>2. rows \in Seq(S) /\ Len(rows) \in Nat /\ DOMAIN rows = 1 .. Len(rows)
  BY LenProperties DEF Tidy
<1>3. ToSet(rows) = {rows[i] : i \in 1 .. Len(rows)}
  BY <1>2 DEF ToSet
<1>4. CASE I = {}
  BY <1>1, <1>3, <1>4
<1>5. CASE I # {}
  <2>1. I \in SUBSET Nat
    BY <1>2
  <2>2. Min(I) \in I
    BY <1>5, <2>1, Lists!MinIsIn DEF Min, Lists!Min
  <2>3. \A i \in 1 .. Len(rows) : rows[i].of = t => i = Min(I)
    BY <2>2 DEF Tidy
  <2> HIDE DEF I
  <2>4. Find(rows, t) = Min(I)
    BY <1>1, <1>5
  <2>5. Min(I) \in 1 .. Len(rows) /\ rows[Min(I)].of = t
    BY <2>2 DEF I
  <2> QED BY <1>3, <2>3, <2>4, <2>5
<1> QED BY <1>4, <1>5

\* A row is written in place.
LEMMA WriteKeeps ==
    ASSUME NEW S, NEW rows, Tidy(rows, S), NEW i \in 1 .. Len(rows),
           NEW r \in S, r.of = rows[i].of
    PROVE  /\ Tidy([rows EXCEPT ![i] = r], S)
           /\ ToSet([rows EXCEPT ![i] = r]) = (ToSet(rows) \ {rows[i]}) \cup {r}
<1> DEFINE new == [rows EXCEPT ![i] = r]
<1>1. rows \in Seq(S) /\ Len(rows) \in Nat /\ DOMAIN rows = 1 .. Len(rows)
  BY LenProperties DEF Tidy
<1>2. /\ new \in Seq(S) /\ Len(new) = Len(rows)
      /\ \A j \in 1 .. Len(rows) : new[j] = IF j = i THEN r ELSE rows[j]
  BY <1>1, ExceptSeq
<1>3. DOMAIN new = 1 .. Len(rows)
  BY <1>1
<1>4. ToSet(rows) = {rows[j] : j \in 1 .. Len(rows)} /\ ToSet(new) = {new[j] : j \in 1 .. Len(rows)}
  BY <1>1, <1>3 DEF ToSet
<1>5. \A j, k \in 1 .. Len(rows) : rows[j].of = rows[k].of => j = k
  BY DEF Tidy
<1> HIDE DEF new
<1>6. Tidy(new, S)
  BY <1>2, <1>5 DEF Tidy
<1>7. \A j \in 1 .. Len(rows) : j # i => rows[j] # rows[i]
  BY <1>5
<1>8. ToSet(new) = (ToSet(rows) \ {rows[i]}) \cup {r}
  BY <1>2, <1>4, <1>7
<1> QED BY <1>6, <1>8 DEF new

\* A row is added at the end.
LEMMA AppendKeeps ==
    ASSUME NEW S, NEW rows, Tidy(rows, S), NEW r \in S, \A o \in ToSet(rows) : o.of # r.of
    PROVE  /\ Tidy(Append(rows, r), S)
           /\ ToSet(Append(rows, r)) = ToSet(rows) \cup {r}
<1> DEFINE new == Append(rows, r)
<1>1. rows \in Seq(S) /\ Len(rows) \in Nat /\ DOMAIN rows = 1 .. Len(rows)
  BY LenProperties DEF Tidy
<1>2. /\ new \in Seq(S) /\ Len(new) = Len(rows) + 1
      /\ \A j \in 1 .. Len(rows) : new[j] = rows[j]
      /\ new[Len(rows) + 1] = r
  BY <1>1
<1>3. DOMAIN new = 1 .. Len(rows) + 1
  BY <1>2, LenProperties
<1>4. ToSet(rows) = {rows[j] : j \in 1 .. Len(rows)}
  BY <1>1 DEF ToSet
<1>5. ToSet(new) = {new[j] : j \in 1 .. Len(rows) + 1}
  BY <1>3 DEF ToSet
<1>6. \A j, k \in 1 .. Len(rows) : rows[j].of = rows[k].of => j = k
  BY DEF Tidy
<1> HIDE DEF new
<1>7. \A j \in 1 .. Len(rows) + 1 : j \in 1 .. Len(rows) \/ j = Len(rows) + 1
  BY <1>1
<1>8. Tidy(new, S)
  BY <1>2, <1>4, <1>6, <1>7 DEF Tidy
<1>9. ToSet(new) = ToSet(rows) \cup {r}
  <2>1. Len(rows) + 1 \in 1 .. Len(rows) + 1 /\ \A j \in 1 .. Len(rows) : j \in 1 .. Len(rows) + 1
    BY <1>1
  <2> QED BY <1>2, <1>4, <1>5, <1>7, <2>1
<1> QED BY <1>8, <1>9 DEF new

\* A row is taken out.
LEMMA RemoveKeeps ==
    ASSUME NEW S, NEW rows, Tidy(rows, S), NEW i \in 1 .. Len(rows)
    PROVE  /\ Tidy(RemoveAt(rows, i), S)
           /\ ToSet(RemoveAt(rows, i)) = ToSet(rows) \ {rows[i]}
<1> DEFINE front == SubSeq(rows, 1, i - 1)
           back == SubSeq(rows, i + 1, Len(rows))
           new == RemoveAt(rows, i)
           Old(j) == IF j < i THEN j ELSE j + 1
<1>1. rows \in Seq(S) /\ Len(rows) \in Nat /\ DOMAIN rows = 1 .. Len(rows)
  BY LenProperties DEF Tidy
<1>2. \A j \in 1 .. Len(rows) : rows[j] \in S
  BY <1>1, ElementOfSeq
<1>3. /\ front \in Seq(S) /\ Len(front) = i - 1
      /\ \A j \in 1 .. i - 1 : front[j] = rows[j]
  BY <1>1, <1>2, SubSeqProperties
<1>4. /\ back \in Seq(S) /\ Len(back) = Len(rows) - i
      /\ \A j \in 1 .. Len(rows) - i : back[j] = rows[i + j]
  <2>1. i + 1 \in Int /\ Len(rows) \in Int /\ \A j \in i + 1 .. Len(rows) : rows[j] \in S
    BY <1>1, <1>2
  <2>2. /\ back \in Seq(S) /\ Len(back) = IF i + 1 <= Len(rows) THEN Len(rows) - (i + 1) + 1 ELSE 0
        /\ \A j \in 1 .. Len(rows) - (i + 1) + 1 : back[j] = rows[(i + 1) + j - 1]
    BY <2>1, SubSeqProperties
  <2> HIDE DEF back
  <2>3. /\ Len(rows) - (i + 1) + 1 = Len(rows) - i
        /\ (IF i + 1 <= Len(rows) THEN Len(rows) - (i + 1) + 1 ELSE 0) = Len(rows) - i
        /\ \A j \in 1 .. Len(rows) - i : (i + 1) + j - 1 = i + j
    <3>1. i \in Nat /\ Len(rows) \in Nat /\ i <= Len(rows)
      BY <1>1
    <3> QED BY <3>1
  <2> QED BY <2>2, <2>3
<1>5. new = front \o back
  BY DEF RemoveAt
<1> HIDE DEF front, back, new
<1>6. /\ new \in Seq(S) /\ Len(new) = (i - 1) + (Len(rows) - i)
      /\ \A j \in 1 .. (i - 1) + (Len(rows) - i) :
            new[j] = IF j <= i - 1 THEN front[j] ELSE back[j - (i - 1)]
  <2>1. /\ front \o back \in Seq(S) /\ Len(front \o back) = Len(front) + Len(back)
        /\ \A j \in 1 .. Len(front) + Len(back) :
              (front \o back)[j] = IF j <= Len(front) THEN front[j] ELSE back[j - Len(front)]
    BY <1>3, <1>4, ConcatProperties
  <2> QED BY <1>3, <1>4, <1>5, <2>1
<1>7. /\ Len(new) = Len(rows) - 1 /\ DOMAIN new = 1 .. Len(rows) - 1
      /\ \A j \in 1 .. Len(rows) - 1 : Old(j) \in (1 .. Len(rows)) \ {i} /\ new[j] = rows[Old(j)]
  <2>1. Len(new) = Len(rows) - 1 /\ DOMAIN new = 1 .. Len(rows) - 1
    BY <1>1, <1>6, LenProperties
  <2>2. ASSUME NEW j \in 1 .. Len(rows) - 1
        PROVE  Old(j) \in (1 .. Len(rows)) \ {i} /\ new[j] = rows[Old(j)]
    <3>1. new[j] = IF j <= i - 1 THEN front[j] ELSE back[j - (i - 1)]
      BY <1>1, <1>6
    <3>2. CASE j < i
      BY <1>1, <1>3, <3>1, <3>2
    <3>3. CASE ~ (j < i)
      <4>1. j - (i - 1) \in 1 .. Len(rows) - i /\ i + (j - (i - 1)) = j + 1
        BY <1>1, <3>3
      <4> QED BY <1>1, <1>4, <3>1, <3>3, <4>1
    <3> QED BY <3>2, <3>3
  <2> QED BY <2>1, <2>2
<1>8. \A j \in (1 .. Len(rows)) \ {i} : \E k \in 1 .. Len(rows) - 1 : Old(k) = j
  <2> TAKE j \in (1 .. Len(rows)) \ {i}
  <2>1. CASE j < i
    <3>1. j \in 1 .. Len(rows) - 1 /\ Old(j) = j
      BY <1>1, <2>1
    <3> QED BY <3>1
  <2>2. CASE j > i
    <3>1. j - 1 \in 1 .. Len(rows) - 1 /\ Old(j - 1) = j
      BY <1>1, <2>2
    <3> QED BY <3>1
  <2> QED BY <1>1, <2>1, <2>2
<1>9. \A j, k \in 1 .. Len(rows) - 1 : Old(j) = Old(k) => j = k
  BY <1>1
<1> HIDE DEF Old
<1>10. \A j, k \in 1 .. Len(rows) : rows[j].of = rows[k].of => j = k
  BY DEF Tidy
<1>11. Tidy(new, S)
  BY <1>6, <1>7, <1>9, <1>10 DEF Tidy
<1>12. ToSet(new) = ToSet(rows) \ {rows[i]}
  <2>1. ToSet(rows) = {rows[j] : j \in 1 .. Len(rows)}
    BY <1>1 DEF ToSet
  <2>2. ToSet(new) = {new[j] : j \in 1 .. Len(rows) - 1}
    BY <1>7 DEF ToSet
  <2>3. \A j \in 1 .. Len(rows) : rows[j] = rows[i] => j = i
    BY <1>10
  <2>4. ASSUME NEW r \in ToSet(new) PROVE r \in ToSet(rows) \ {rows[i]}
    <3>1. PICK k \in 1 .. Len(rows) - 1 : r = new[k]
      BY <2>2
    <3>2. Old(k) \in (1 .. Len(rows)) \ {i} /\ r = rows[Old(k)]
      BY <1>7, <3>1
    <3> QED BY <2>1, <2>3, <3>2
  <2>5. ASSUME NEW r \in ToSet(rows) \ {rows[i]} PROVE r \in ToSet(new)
    <3>1. PICK j \in (1 .. Len(rows)) \ {i} : r = rows[j]
      BY <2>1
    <3>2. PICK k \in 1 .. Len(rows) - 1 : Old(k) = j
      BY <1>8
    <3> QED BY <1>7, <2>2, <3>1, <3>2
  <2> QED BY <2>4, <2>5
<1> QED BY <1>11, <1>12 DEF new

-----------------------------------------------------------------------------
(* Worlds that are in order.                                               *)

\* What xfer holds of a transfer.
Fields ==
    [state : State, verdict : Verdict, meth : Method, local : BOOLEAN, ssl : BOOLEAN,
     paused : BOOLEAN, address : BOOLEAN, directory : Directory, applied : State,
     entry : BOOLEAN, con : {"NONE", "SSL_VERIFY", "ESTABLISHED"},
     position : 0 .. Size, from : 0 .. Size, current : 0 .. Size, last : 0 .. Size,
     zero : BOOLEAN]

Columns(k) == IF k = "APPROVED" THEN ApprovedColumns ELSE UnapprovedColumns

Typed(w) ==
    /\ w = [ctl |-> w.ctl, xfer |-> w.xfer, row |-> w.row]
    /\ w.ctl \in {"ESTABLISHED", "CLOSED"}
    /\ w.xfer \in [Transfer -> Fields]
    /\ w.row = [k \in Window |-> w.row[k]]
    /\ \A k \in Window : Tidy(w.row[k], Columns(k))

\* The bytes have not begun to flow, or they have.
Early == State \ {"TRANSFERING", "COMPLETED", "ABORTED"}
Fresh(x) == x.current = 0 /\ x.last = 0 /\ x.from = 0 /\ ~x.zero
Counts(x) ==
    /\ x.last <= x.current
    /\ x.state \in Early => Fresh(x)
    /\ x.state = "COMPLETED" => x.current = Size

\* A row that shows progress p tells how far x came, or that nothing moved.
Tells(p, x) == p = x.current \/ (p = 0 /\ x.current = x.from)

\* Before a row of x is written: what Progress leaves alone is right.
Follows(p, x) ==
    x.state # "COMPLETED" /\ x.current = x.last /\ ~x.zero => Tells(p, x)

\* Once it is written.
Fits(p, x) ==
    /\ Follows(p, x)
    /\ x.state = "COMPLETED" => p = Size
    /\ x.state = "ABORTED" => Tells(p, x)

\* A transfer has its row in the window of its verdict unless that was cleared.
HasRow(w, k, t) == \E r \in ToSet(w.row[k]) : r.of = t
Listed(w, c, t) ==
    \A k \in Window :
        HasRow(w, k, t) <=>
            /\ w.xfer[t].state # "NONE"
            /\ k = WindowOf(w.xfer[t])
            /\ <<t, k>> \notin c

\* Rows are cleared from the window they are in.
WasThere(w, c, t) ==
    /\ <<t, "APPROVED">> \in c => w.xfer[t].verdict = "ACCEPTED"
    /\ \A k \in Window : <<t, k>> \in c => w.xfer[t].state # "NONE"

Progressed(w, t, written) ==
    \A r \in ToSet(w.row["APPROVED"]) :
        r.of = t => IF written THEN Fits(r.progress, w.xfer[t])
                    ELSE Follows(r.progress, w.xfer[t])

\* A world in order but for the progress of the transfers of T, whose rows are
\* still to be written.
Kept(w, c, T) ==
    /\ Typed(w)
    /\ \A t \in Transfer :
          /\ Counts(w.xfer[t])
          /\ Listed(w, c, t)
          /\ WasThere(w, c, t)
          /\ Progressed(w, t, t \notin T)

InOrder(w, c) == Kept(w, c, {})

\* The rows of t are not stale.
Current(w, t) ==
    /\ \A r \in ToSet(w.row["UNAPPROVED"]) : r.of = t =>
          /\ r.state = w.xfer[t].state /\ r.meth = w.xfer[t].meth
          /\ r.verdict = w.xfer[t].verdict /\ r.address = w.xfer[t].address
          /\ DirectoryShown(r, w.xfer[t])
          /\ r.ssl = w.xfer[t].ssl \/ w.xfer[t].state = "ABORTED"
    /\ \A r \in ToSet(w.row["APPROVED"]) : r.of = t =>
          /\ r.state = w.xfer[t].state /\ r.meth = w.xfer[t].meth
          /\ r.paused = w.xfer[t].paused /\ DirectoryShown(r, w.xfer[t])

-----------------------------------------------------------------------------
(* Writing rows.                                                           *)

\* What is written fits.
LEMMA ProgressFits ==
    ASSUME NEW x \in Fields, Counts(x), NEW p \in 0 .. Size, Follows(p, x)
    PROVE  /\ Progress(x, p) \in 0 .. Size
           /\ Fits(Progress(x, p), x)
           /\ x.current # x.last => Progress(x, p) = x.current
<1>1. x.current \in 0 .. Size
  BY DEF Fields
<1>2. CASE x.current = x.last /\ ~x.zero /\ x.state # "COMPLETED"
  BY <1>1, <1>2 DEF Progress, Fits, Follows
<1>3. CASE ~ (x.current = x.last /\ ~x.zero /\ x.state # "COMPLETED")
  <2>1. Progress(x, p) = x.current
    BY <1>3 DEF Progress
  <2> QED BY <1>1, <1>3, <2>1 DEF Fits, Follows, Tells, Counts
<1> QED BY <1>2, <1>3

\* Rows have the columns of their window.
LEMMA RowTypes ==
    ASSUME NEW w, Typed(w)
    PROVE  /\ \A r \in ToSet(w.row["UNAPPROVED"]) : r \in UnapprovedColumns
           /\ \A r \in ToSet(w.row["APPROVED"]) : r \in ApprovedColumns
           /\ Tidy(w.row["UNAPPROVED"], UnapprovedColumns)
           /\ Tidy(w.row["APPROVED"], ApprovedColumns)
<1>1. /\ Tidy(w.row["UNAPPROVED"], UnapprovedColumns)
      /\ Tidy(w.row["APPROVED"], ApprovedColumns)
  BY DEF Typed, Window, Columns
<1>2. ASSUME NEW S, NEW rows, Tidy(rows, S) PROVE \A r \in ToSet(rows) : r \in S
  BY <1>2, LenProperties, ElementOfSeq DEF ToSet, Tidy
<1> QED BY <1>1, <1>2

\* The row of t in window k is replaced by r.
Written(w, k, t, r) == [w EXCEPT !.row[k][Find(w.row[k], t)] = r]

LEMMA RowWritten ==
    ASSUME NEW w, NEW c, NEW T, NEW t \in Transfer, Kept(w, c, T),
           NEW k \in Window, Find(w.row[k], t) # 0, NEW r \in Columns(k), r.of = t
    PROVE  LET u == Written(w, k, t, r)
           IN  /\ Typed(u) /\ u.ctl = w.ctl /\ u.xfer = w.xfer
               /\ \A o \in Transfer : Listed(u, c, o) /\ WasThere(u, c, o)
               /\ \A l \in Window \ {k} : u.row[l] = w.row[l]
               /\ \A q \in ToSet(u.row[k]) : q = r \/ (q \in ToSet(w.row[k]) /\ q.of # t)
               /\ r \in ToSet(u.row[k])
<1> DEFINE i == Find(w.row[k], t)
           u == Written(w, k, t, r)
<1>1. Typed(w) /\ \A o \in Transfer : Listed(w, c, o) /\ WasThere(w, c, o)
  BY DEF Kept
<1>2. Tidy(w.row[k], Columns(k))
  BY <1>1 DEF Typed
<1>3. /\ i \in 1 .. Len(w.row[k]) /\ w.row[k][i].of = t
      /\ \A q \in ToSet(w.row[k]) : q.of = t => q = w.row[k][i]
      /\ w.row[k][i] \in ToSet(w.row[k])
  BY <1>2, FindFinds
<1> DEFINE rows == [w.row[k] EXCEPT ![i] = r]
<1>4. /\ Tidy(rows, Columns(k))
      /\ ToSet(rows) = (ToSet(w.row[k]) \ {w.row[k][i]}) \cup {r}
  BY <1>2, <1>3, WriteKeeps
<1>5. u.row = [w.row EXCEPT ![k] = rows] /\ u.ctl = w.ctl /\ u.xfer = w.xfer
      /\ u = [ctl |-> u.ctl, xfer |-> u.xfer, row |-> u.row]
  BY <1>1 DEF Typed, Written
<1> HIDE DEF i, rows, u
<1>6. u.row[k] = rows /\ \A l \in Window \ {k} : u.row[l] = w.row[l]
  BY <1>1, <1>5 DEF Typed
<1>7. u.row = [l \in Window |-> u.row[l]]
  BY <1>1, <1>5 DEF Typed
<1>8. Typed(u)
  BY <1>1, <1>4, <1>5, <1>6, <1>7 DEF Typed
<1>9. \A o \in Transfer, l \in Window : HasRow(u, l, o) <=> HasRow(w, l, o)
  BY <1>3, <1>4, <1>6 DEF HasRow
<1>10. \A o \in Transfer : Listed(u, c, o) /\ WasThere(u, c, o)
  BY <1>1, <1>5, <1>9 DEF Listed, WasThere
<1> QED BY <1>3, <1>4, <1>5, <1>6, <1>8, <1>10 DEF u

\* The setter's announcement: the rows of t are written, no other is touched.
LEMMA UpdateKeeps ==
    ASSUME NEW w, NEW c, NEW T, NEW t \in Transfer, Kept(w, c, T), T \subseteq {t}
    PROVE  /\ InOrder(UpdateRow(w, t), c)
           /\ UpdateRow(w, t).ctl = w.ctl /\ UpdateRow(w, t).xfer = w.xfer
           /\ Current(UpdateRow(w, t), t)
           /\ \A o \in Transfer \ {t} : Current(w, o) => Current(UpdateRow(w, t), o)
<1> DEFINE x == w.xfer[t]
           k == WindowOf(x)
           i == Find(w.row[k], t)
           u == UpdateRow(w, t)
<1>1. /\ Typed(w) /\ x \in Fields /\ k \in Window
      /\ \A o \in Transfer : Counts(w.xfer[o]) /\ Progressed(w, o, o \notin T)
      /\ Listed(w, c, t)
  BY DEF Kept, Typed, WindowOf, Window
<1>2. \A l \in Window \ {k} : \A r \in ToSet(w.row[l]) : r.of # t
  BY <1>1 DEF Listed, HasRow
<1>3. Tidy(w.row[k], Columns(k))
  BY <1>1 DEF Typed
<1>4. CASE i = 0
  <2>1. u = w
    BY <1>4 DEF UpdateRow
  <2>2. \A r \in ToSet(w.row[k]) : r.of # t
    BY <1>3, <1>4, FindFinds
  <2>3. \A l \in Window : \A r \in ToSet(w.row[l]) : r.of # t
    BY <1>2, <2>2
  <2>4. Progressed(w, t, TRUE) /\ Current(w, t)
    BY <2>3 DEF Progressed, Current, Window
  <2>5. Kept(w, c, {})
    BY <2>4 DEF Kept
  <2> QED BY <2>1, <2>4, <2>5 DEF InOrder
<1>5. CASE i # 0 /\ x.verdict = "ACCEPTED"
  <2> DEFINE old == w.row["APPROVED"][i].progress
             r == ApprovedRow(x, t, old)
  <2>1. k = "APPROVED" /\ k \in Window /\ Columns(k) = ApprovedColumns
    BY <1>1, <1>5 DEF WindowOf, Columns
  <2>2. w.row["APPROVED"][i] \in ToSet(w.row["APPROVED"]) /\ w.row["APPROVED"][i].of = t
    BY <1>3, <1>5, <2>1, FindFinds
  <2>3. old \in 0 .. Size /\ Follows(old, x)
    BY <1>1, <2>2, RowTypes DEF Progressed, Fits, ApprovedColumns
  <2>4. Progress(x, old) \in 0 .. Size /\ Fits(Progress(x, old), x)
    BY <1>1, <2>3, ProgressFits
  <2> HIDE DEF old
  <2>5. /\ r \in Columns(k) /\ r.of = t /\ r.progress = Progress(x, old)
        /\ r.state = x.state /\ r.meth = x.meth /\ r.paused = x.paused
        /\ r.directory = x.directory
    BY <1>1, <2>1, <2>4 DEF ApprovedRow, ApprovedColumns, Fields
  <2>6. u = Written(w, k, t, r) /\ Find(w.row[k], t) # 0
    BY <1>5, <2>1 DEF UpdateRow, Written, old
  <2>7. k \in Window /\ r \in Columns(k) /\ r.of = t
    BY <1>1, <2>5
  <2> HIDE DEF u, r, i, k
  <2>8. /\ Typed(u) /\ u.ctl = w.ctl /\ u.xfer = w.xfer
        /\ \A o \in Transfer : Listed(u, c, o) /\ WasThere(u, c, o)
        /\ \A l \in Window \ {k} : u.row[l] = w.row[l]
        /\ \A q \in ToSet(u.row[k]) : q = r \/ (q \in ToSet(w.row[k]) /\ q.of # t)
    BY <2>7, <2>6, RowWritten
  <2>9. Progressed(u, t, TRUE) /\ Current(u, t)
    BY <1>2, <2>1, <2>4, <2>5, <2>8 DEF Progressed, Current, DirectoryShown, Window
  <2>10. \A o \in Transfer \ {t} : Progressed(u, o, TRUE) /\ (Current(w, o) => Current(u, o))
    BY <1>1, <2>1, <2>5, <2>8 DEF Progressed, Current, Window
  <2>11. Kept(u, c, {})
    BY <1>1, <2>8, <2>9, <2>10 DEF Kept
  <2> QED BY <2>8, <2>9, <2>10, <2>11 DEF u, InOrder
<1>6. CASE i # 0 /\ x.verdict # "ACCEPTED"
  <2> DEFINE r == UnapprovedRow(x, t)
  <2>1. k = "UNAPPROVED" /\ k \in Window /\ Columns(k) = UnapprovedColumns
    BY <1>1, <1>6 DEF WindowOf, Columns
  <2>2. /\ r \in Columns(k) /\ r.of = t
        /\ r.state = x.state /\ r.meth = x.meth /\ r.verdict = x.verdict /\ r.ssl = x.ssl
        /\ r.address = x.address /\ r.directory = x.directory
    BY <1>1, <2>1 DEF UnapprovedRow, UnapprovedColumns, Fields
  <2>3. u = Written(w, k, t, r) /\ Find(w.row[k], t) # 0
    BY <1>6, <2>1 DEF UpdateRow, Written
  <2>4. k \in Window /\ r \in Columns(k) /\ r.of = t
    BY <1>1, <2>2
  <2> HIDE DEF u, r, i, k
  <2>5. /\ Typed(u) /\ u.ctl = w.ctl /\ u.xfer = w.xfer
        /\ \A o \in Transfer : Listed(u, c, o) /\ WasThere(u, c, o)
        /\ \A l \in Window \ {k} : u.row[l] = w.row[l]
        /\ \A q \in ToSet(u.row[k]) : q = r \/ (q \in ToSet(w.row[k]) /\ q.of # t)
    BY <2>4, <2>3, RowWritten
  <2>6. Progressed(u, t, TRUE) /\ Current(u, t)
    BY <1>2, <2>1, <2>2, <2>5 DEF Progressed, Current, DirectoryShown, Window
  <2>7. \A o \in Transfer \ {t} : Progressed(u, o, TRUE) /\ (Current(w, o) => Current(u, o))
    BY <1>1, <2>1, <2>2, <2>5 DEF Progressed, Current, Window
  <2>8. Kept(u, c, {})
    BY <1>1, <2>5, <2>6, <2>7 DEF Kept
  <2> QED BY <2>5, <2>6, <2>7, <2>8 DEF u, InOrder
<1> QED BY <1>4, <1>5, <1>6

-----------------------------------------------------------------------------
(* The setters.                                                            *)

\* A transfer changed in place, its rows not yet written: those of the transfers
\* of T, itself or none, are going to be.
Changed(w, t, x) == [w EXCEPT !.xfer[t] = x]

MayChange(w, t, x, T) ==
    /\ T \subseteq {t}
    /\ x \in Fields /\ Counts(x)
    /\ x.state = "NONE" <=> w.xfer[t].state = "NONE"
    /\ x.verdict = "ACCEPTED" <=> w.xfer[t].verdict = "ACCEPTED"
    /\ \A r \in ToSet(w.row["APPROVED"]) :
          r.of = t /\ r.progress \in 0 .. Size /\ Fits(r.progress, w.xfer[t]) =>
             IF t \in T THEN Follows(r.progress, x) ELSE Fits(r.progress, x)

LEMMA ChangeKeeps ==
    ASSUME NEW w, NEW c, NEW t \in Transfer, NEW x, NEW T, InOrder(w, c), MayChange(w, t, x, T)
    PROVE  LET u == Changed(w, t, x)
           IN  /\ Kept(u, c, T)
               /\ u.ctl = w.ctl /\ u.row = w.row /\ u.xfer = [w.xfer EXCEPT ![t] = x]
               /\ \A o \in Transfer \ {t} : Current(w, o) => Current(u, o)
<1> DEFINE u == Changed(w, t, x)
<1>1. /\ x \in Fields /\ Counts(x) /\ T \subseteq {t}
      /\ x.state = "NONE" <=> w.xfer[t].state = "NONE"
      /\ x.verdict = "ACCEPTED" <=> w.xfer[t].verdict = "ACCEPTED"
  BY DEF MayChange
<1>2. /\ Typed(w)
      /\ \A o \in Transfer : /\ Counts(w.xfer[o]) /\ Listed(w, c, o) /\ WasThere(w, c, o)
                             /\ Progressed(w, o, TRUE)
  BY DEF InOrder, Kept
<1>3. /\ u.ctl = w.ctl /\ u.row = w.row /\ u.xfer = [w.xfer EXCEPT ![t] = x]
      /\ u = [ctl |-> u.ctl, xfer |-> u.xfer, row |-> u.row]
  BY <1>2 DEF Typed, Changed
<1> HIDE DEF u
<1>4. /\ u.xfer \in [Transfer -> Fields] /\ u.xfer[t] = x
      /\ \A o \in Transfer \ {t} : u.xfer[o] = w.xfer[o]
  BY <1>1, <1>2, <1>3 DEF Typed
<1>5. Typed(u)
  BY <1>2, <1>3, <1>4 DEF Typed
<1>6. \A o \in Transfer \ {t} : /\ Counts(u.xfer[o]) /\ Listed(u, c, o) /\ WasThere(u, c, o)
                                /\ Progressed(u, o, TRUE)
  <2> TAKE o \in Transfer \ {t}
  <2>1. \A k \in Window : HasRow(u, k, o) <=> HasRow(w, k, o)
    BY <1>3 DEF HasRow
  <2>2. u.xfer[o] = w.xfer[o]
    BY <1>4
  <2>3. Listed(u, c, o)
    BY <1>2, <2>1, <2>2 DEF Listed
  <2>4. WasThere(u, c, o) /\ Progressed(u, o, TRUE)
    BY <1>2, <1>3, <2>2 DEF WasThere, Progressed
  <2> QED BY <1>2, <2>2, <2>3, <2>4
<1>7. Listed(u, c, t) /\ WasThere(u, c, t)
  <2>1. \A k \in Window : HasRow(u, k, t) <=> HasRow(w, k, t)
    BY <1>3 DEF HasRow
  <2>2. WindowOf(u.xfer[t]) = WindowOf(w.xfer[t])
    BY <1>1, <1>4 DEF WindowOf
  <2>3. Listed(u, c, t)
    BY <1>1, <1>2, <1>4, <2>1, <2>2 DEF Listed
  <2> QED BY <1>1, <1>2, <1>4, <2>3 DEF WasThere
<1>8. Progressed(u, t, t \notin T)
  <2>1. \A r \in ToSet(w.row["APPROVED"]) : r.progress \in 0 .. Size
    BY <1>2, RowTypes DEF ApprovedColumns
  <2>2. \A r \in ToSet(w.row["APPROVED"]) :
           r.of = t /\ r.progress \in 0 .. Size /\ Fits(r.progress, w.xfer[t]) =>
              IF t \in T THEN Follows(r.progress, x) ELSE Fits(r.progress, x)
    BY DEF MayChange
  <2> QED BY <1>1, <1>2, <1>3, <1>4, <2>1, <2>2 DEF Progressed
<1>9. Kept(u, c, T)
  <2> SUFFICES ASSUME NEW o \in Transfer
               PROVE  /\ Counts(u.xfer[o]) /\ Listed(u, c, o) /\ WasThere(u, c, o)
                      /\ Progressed(u, o, o \notin T)
    BY <1>5 DEF Kept
  <2>1. CASE o = t
    BY <1>1, <1>4, <1>7, <1>8, <2>1
  <2>2. CASE o # t
    BY <1>1, <1>6, <2>2
  <2> QED BY <2>1, <2>2
<1>10. \A o \in Transfer \ {t} : Current(w, o) => Current(u, o)
  BY <1>3, <1>4 DEF Current
<1> QED BY <1>3, <1>9, <1>10 DEF u

\* What y must be to take the place of x and be announced.
Replaces(y, x) ==
    /\ y \in Fields /\ Counts(y)
    /\ y.state = "NONE" <=> x.state = "NONE"
    /\ y.verdict = "ACCEPTED" <=> x.verdict = "ACCEPTED"
    /\ \A p \in 0 .. Size : Fits(p, x) => Follows(p, y)

\* What a handler of another transfer may do to x: abort it.
Stopped(x) == [x EXCEPT !.state = "ABORTED", !.con = "NONE"]
May(x, y) == y = x \/ (x.state \notin Ended \cup {"NONE"} /\ y = Stopped(x))

\* The transfers of O are spared on the way from world w to world u: they are
\* left alone or aborted, and their rows stay current.
Spares(w, u, c, O) ==
    /\ InOrder(u, c)
    /\ \A o \in O : May(w.xfer[o], u.xfer[o]) /\ (Current(w, o) => Current(u, o))

LEMMA SparesOnward ==
    ASSUME NEW w, NEW v, NEW u, NEW c, NEW O, NEW P,
           Spares(w, v, c, O), Spares(v, u, c, P), O \subseteq Transfer, InOrder(w, c)
    PROVE  Spares(w, u, c, O \cap P)
<1>1. \A o \in Transfer : w.xfer[o] \in Fields
  BY DEF InOrder, Kept, Typed
<1>2. \A o \in O \cap P : May(w.xfer[o], v.xfer[o]) /\ May(v.xfer[o], u.xfer[o])
  BY DEF Spares
<1>3. \A x \in Fields : Stopped(x).state = "ABORTED"
  BY DEF Stopped, Fields
<1>4. \A o \in O \cap P : May(w.xfer[o], u.xfer[o])
  BY <1>1, <1>2, <1>3 DEF May, Ended
<1> QED BY <1>4 DEF Spares

LEMMA PutKeeps ==
    ASSUME NEW w, NEW c, NEW t \in Transfer, NEW x, InOrder(w, c), Replaces(x, w.xfer[t])
    PROVE  /\ Spares(w, Put(w, t, x), c, Transfer \ {t})
           /\ Current(Put(w, t, x), t)
           /\ Put(w, t, x).xfer[t] = x
           /\ Put(w, t, x).xfer = [w.xfer EXCEPT ![t] = x]
           /\ Put(w, t, x).ctl = w.ctl
<1> DEFINE m == Changed(w, t, x)
           u == Put(w, t, x)
<1>1. /\ Kept(m, c, {t}) /\ m.ctl = w.ctl /\ m.xfer = [w.xfer EXCEPT ![t] = x]
      /\ \A o \in Transfer \ {t} : Current(w, o) => Current(m, o)
  <2>1. MayChange(w, t, x, {t})
    BY DEF Replaces, MayChange
  <2>2. /\ Kept(m, c, {t}) /\ m.ctl = w.ctl
        /\ m.xfer = [w.xfer EXCEPT ![t] = x]
        /\ \A o \in Transfer \ {t} : Current(w, o) => Current(m, o)
    BY <2>1, ChangeKeeps
  <2> QED BY <2>2
<1>2. u = UpdateRow(m, t)
  BY DEF Put, Changed
<1> HIDE DEF m, u
<1>3. /\ InOrder(u, c) /\ u.ctl = m.ctl /\ u.xfer = m.xfer /\ Current(u, t)
      /\ \A o \in Transfer \ {t} : Current(m, o) => Current(u, o)
  BY <1>1, <1>2, UpdateKeeps
<1>4. w.xfer \in [Transfer -> Fields]
  BY DEF InOrder, Kept, Typed
<1>5. u.xfer[t] = x /\ \A o \in Transfer \ {t} : u.xfer[o] = w.xfer[o]
  BY <1>1, <1>3, <1>4
<1> QED BY <1>1, <1>3, <1>5 DEF u, Spares, May

\* What a setter of the state leaves of the other fields.
Alike(x, y) ==
    /\ y.verdict = x.verdict /\ y.meth = x.meth /\ y.local = x.local /\ y.entry = x.entry
    /\ Fresh(x) => Fresh(y)

LEMMA StoppedIsAlike ==
    ASSUME NEW x \in Fields
    PROVE  Stopped(x) \in Fields /\ Alike(x, Stopped(x)) /\ Stopped(x).state = "ABORTED"
BY DEF Stopped, Alike, Fields, Fresh, State

\* The states that x may be given: no bytes flow before it is TRANSFERING.
MayEnter(x, s) ==
    /\ s \in State \ {"NONE"} /\ x.state # "NONE"
    /\ s \in Early \cup {"TRANSFERING"} => Fresh(x)
    /\ s = "COMPLETED" => x.current = Size

\* In u, t has entered state s.
Entered(w, u, c, t, s) ==
    /\ Spares(w, u, c, Transfer \ {t}) /\ Current(u, t)
    /\ u.ctl = w.ctl
    /\ u.xfer[t].state = s
    /\ s # "TRANSFERING" => Alike(w.xfer[t], u.xfer[t])
    /\ u.xfer[t].verdict = w.xfer[t].verdict
    /\ u.xfer[t].entry = w.xfer[t].entry
    /\ s = "ABORTED" => u.xfer[t] = Stopped(w.xfer[t])

\* data_transfer_set_state.
LEMMA SetStateKeeps ==
    ASSUME NEW w, NEW c, NEW t \in Transfer, NEW s, InOrder(w, c), MayEnter(w.xfer[t], s)
    PROVE  Entered(w, SetState(w, t, s), c, t, s)
<1> DEFINE x == w.xfer[t]
           y == [x EXCEPT !.state = s, !.con = IF s \in Ended THEN "NONE" ELSE @]
           z == IF s = "TRANSFERING"
                THEN [y EXCEPT !.from = y.position, !.current = y.position,
                               !.last = y.position, !.zero = FALSE]
                ELSE IF s = "COMPLETED" THEN [y EXCEPT !.zero = FALSE] ELSE y
<1>1. x \in Fields /\ Counts(x) /\ w.xfer \in [Transfer -> Fields]
  BY DEF InOrder, Kept, Typed
<1>2. SetState(w, t, s) = Put(w, t, z)
  BY DEF SetState
<1>3. /\ s \in State \ {"NONE"} /\ x.state # "NONE"
      /\ s \in Early \cup {"TRANSFERING"} => Fresh(x)
      /\ s = "COMPLETED" => x.current = Size
  BY DEF MayEnter
<1> HIDE DEF x
<1>4. /\ z \in Fields /\ z.state = s /\ z.verdict = x.verdict /\ z.meth = x.meth
      /\ z.local = x.local /\ z.entry = x.entry
      /\ s # "TRANSFERING" => /\ z.current = x.current /\ z.last = x.last /\ z.from = x.from
                              /\ z.zero = x.zero \/ (s = "COMPLETED" /\ ~z.zero)
      /\ s = "TRANSFERING" => /\ z.current = z.from /\ z.last = z.from /\ ~z.zero
      /\ s = "ABORTED" => z = Stopped(x)
  BY <1>3, <1>1 DEF Fields, Stopped, Ended
<1> HIDE DEF z
<1>5. Counts(z)
  BY <1>3, <1>1, <1>4, ViewsAssumption DEF x, Counts, Fresh, Early, Fields
<1>6. \A p \in 0 .. Size : Fits(p, x) => Follows(p, z)
  BY <1>3, <1>1, <1>4, ViewsAssumption DEF x, Counts, Fresh, Early, Fits, Follows, Tells, State, Fields
<1>7. Replaces(z, w.xfer[t])
  BY <1>3, <1>4, <1>5, <1>6 DEF Replaces, x
<1>8. /\ Spares(w, Put(w, t, z), c, Transfer \ {t})
      /\ Current(Put(w, t, z), t)
      /\ Put(w, t, z).xfer[t] = z
      /\ Put(w, t, z).xfer = [w.xfer EXCEPT ![t] = z]
      /\ Put(w, t, z).ctl = w.ctl
  BY <1>7, PutKeeps
<1>9. s # "TRANSFERING" => Alike(x, z)
  BY <1>4 DEF Alike, Fresh
<1> QED BY <1>1, <1>2, <1>4, <1>8, <1>9 DEF x, Entered

\* data_transfer_abort.
LEMMA AbortKeeps ==
    ASSUME NEW w, NEW c, NEW t \in Transfer, InOrder(w, c)
    PROVE  /\ Spares(w, Abort(w, t), c, Transfer)
           /\ w.xfer[t].state \notin Ended \cup {"NONE"} => Current(Abort(w, t), t)
           /\ w.xfer[t].state # "NONE" => Abort(w, t).xfer[t].state \in Ended
           /\ Abort(w, t).ctl = w.ctl
<1>1. CASE w.xfer[t].state \in Ended \cup {"NONE"}
  BY <1>1 DEF Abort, Spares, May
<1>2. CASE w.xfer[t].state \notin Ended \cup {"NONE"}
  <2> DEFINE u == SetState(w, t, "ABORTED")
  <2>1. Abort(w, t) = u
    BY <1>2 DEF Abort
  <2>2. /\ Spares(w, u, c, Transfer \ {t}) /\ Current(u, t) /\ u.ctl = w.ctl
        /\ u.xfer[t].state = "ABORTED" /\ u.xfer[t] = Stopped(w.xfer[t])
    <3>1. MayEnter(w.xfer[t], "ABORTED")
      BY <1>2 DEF MayEnter, State, Early
    <3>2. Entered(w, u, c, t, "ABORTED")
      BY <3>1, SetStateKeeps
    <3> QED BY <3>2 DEF Entered
  <2> HIDE DEF u
  <2>3. May(w.xfer[t], u.xfer[t])
    BY <1>2, <2>2 DEF May
  <2> QED BY <1>2, <2>1, <2>2, <2>3 DEF Spares, Ended
<1> QED BY <1>1, <1>2

-----------------------------------------------------------------------------
(* Closing the connection.                                                 *)

\* The transfers of S are aborted one after the other: the recursion has a solution.
AbortAll(w, S) == FoldSet(LAMBDA t, v : Abort(v, t), w, S)
Unfolds(w, S, f) ==
    /\ f[{}] = w
    /\ \A s \in (SUBSET S) \ {{}} : \E t \in s : f[s] = Abort(f[s \ {t}], t)
    /\ AbortAll(w, S) = f[S]

LEMMA AbortsUnfold ==
    ASSUME NEW w, NEW S, IsFiniteSet(S)
    PROVE  \E f : Unfolds(w, S, f)
<1> DEFINE First(s) == CHOOSE t \in s : TRUE
           Value(f, s) == IF s = {} THEN w ELSE Abort(f[s \ {First(s)}], First(s))
           Sized(n) == {s \in SUBSET S : Cardinality(s) <= n}
           Aborts(f, D) == f = [s \in D |-> Value(f, s)]
           Long == {n \in Nat : \E f : Aborts(f, Sized(n))}
<1>1. \A s \in SUBSET S : IsFiniteSet(s) /\ Cardinality(s) \in Nat
  BY FS_Subset, FS_CardinalityType
<1>2. \A s \in (SUBSET S) \ {{}} : /\ First(s) \in s
                                   /\ Cardinality(s \ {First(s)}) = Cardinality(s) - 1
  <2> TAKE s \in (SUBSET S) \ {{}}
  <2>1. First(s) \in s
    OBVIOUS
  <2> QED BY <1>1, <2>1, FS_RemoveElement
<1> HIDE DEF First
<1>3. \A n \in Nat : \A s \in Sized(n + 1) \ {{}} : s \ {First(s)} \in Sized(n)
  <2> TAKE n \in Nat
  <2> TAKE s \in Sized(n + 1) \ {{}}
  <2>1. s \in (SUBSET S) \ {{}} /\ Cardinality(s) <= n + 1
    OBVIOUS
  <2>2. s \ {First(s)} \in SUBSET S /\ Cardinality(s \ {First(s)}) = Cardinality(s) - 1
    BY <1>2, <2>1
  <2> QED BY <1>1, <2>1, <2>2
<1>4. \A n \in Nat : Sized(n) \subseteq Sized(n + 1)
  BY <1>1
<1>5. Sized(0) = {{}}
  <2>1. \A s \in SUBSET S : Cardinality(s) <= 0 <=> s = {}
    BY <1>1, FS_EmptySet
  <2> QED BY <2>1
<1>6. 0 \in Long
  <2>1. Aborts([s \in Sized(0) |-> w], Sized(0))
    BY <1>5
  <2> QED BY <2>1
<1>7. ASSUME NEW n \in Long PROVE n + 1 \in Long
  <2>1. PICK f : Aborts(f, Sized(n))
    OBVIOUS
  <2> DEFINE g == [s \in Sized(n + 1) |-> Value(f, s)]
  <2>2. \A s \in Sized(n + 1) : Value(g, s) = Value(f, s)
    <3> TAKE s \in Sized(n + 1)
    <3>1. CASE s = {}
      BY <3>1
    <3>2. CASE s # {}
      <4> DEFINE r == s \ {First(s)}
      <4>1. r \in Sized(n) /\ r \in Sized(n + 1)
        BY <1>3, <1>4, <3>2
      <4> HIDE DEF r, Sized
      <4>2. f[r] = Value(f, r)
        BY <2>1, <4>1
      <4>3. g[r] = Value(f, r)
        BY <4>1
      <4> QED BY <4>2, <4>3, <3>2 DEF r
    <3> QED BY <3>1, <3>2
  <2> HIDE DEF Value, Sized
  <2>3. Aborts(g, Sized(n + 1))
    BY <2>2
  <2>4. n + 1 \in Nat
    OBVIOUS
  <2> HIDE DEF Aborts, g
  <2> QED BY <2>3, <2>4
<1>8. Long = Nat
  <2> HIDE DEF Long
  <2>1. Long \in SUBSET Nat
    BY DEF Long
  <2> QED BY <1>6, <1>7, <2>1, Lists!SetInduction
<1>9. Sized(Cardinality(S)) = SUBSET S
  BY FS_Subset, FS_CardinalityType
<1> DEFINE f == CHOOSE f : Aborts(f, SUBSET S)
<1>10. Aborts(f, SUBSET S)
  <2>1. Cardinality(S) \in Nat
    BY FS_CardinalityType
  <2> HIDE DEF Aborts, Sized
  <2>2. \E g : Aborts(g, SUBSET S)
    BY <1>8, <1>9, <2>1
  <2> QED BY <2>2
<1>11. AbortAll(w, S) = f[S]
  BY DEF AbortAll, FoldSet, MapThenFoldSet, First
<1> HIDE DEF f
<1>12. f[{}] = w
  BY <1>10
<1>13. \A s \in (SUBSET S) \ {{}} : f[s] = Abort(f[s \ {First(s)}], First(s))
  BY <1>10
<1> HIDE DEF Aborts
<1> QED BY <1>2, <1>11, <1>12, <1>13 DEF Unfolds

\* The state of the connection is no part of what is kept in order.
LEMMA CtlIsNotShown ==
    ASSUME NEW w, NEW c, InOrder(w, c)
    PROVE  /\ InOrder([w EXCEPT !.ctl = "CLOSED"], c)
           /\ [w EXCEPT !.ctl = "CLOSED"].xfer = w.xfer
           /\ \A t : Current(w, t) => Current([w EXCEPT !.ctl = "CLOSED"], t)
<1> DEFINE u == [w EXCEPT !.ctl = "CLOSED"]
<1>1. Typed(w)
  BY DEF InOrder, Kept
<1>2. /\ u.xfer = w.xfer /\ u.row = w.row /\ u.ctl = "CLOSED"
      /\ u = [ctl |-> u.ctl, xfer |-> u.xfer, row |-> u.row]
  BY <1>1 DEF Typed
<1> HIDE DEF u
<1>3. Typed(u)
  BY <1>1, <1>2 DEF Typed
<1>4. \A t : /\ Listed(w, c, t) => Listed(u, c, t)
             /\ WasThere(w, c, t) => WasThere(u, c, t)
             /\ Progressed(w, t, TRUE) => Progressed(u, t, TRUE)
             /\ Current(w, t) => Current(u, t)
  <2> TAKE t
  <2>1. \A k : HasRow(u, k, t) <=> HasRow(w, k, t)
    BY <1>2 DEF HasRow
  <2>2. Listed(w, c, t) => Listed(u, c, t)
    BY <1>2, <2>1 DEF Listed
  <2>3. WasThere(w, c, t) => WasThere(u, c, t)
    BY <1>2 DEF WasThere
  <2>4. Progressed(w, t, TRUE) => Progressed(u, t, TRUE)
    BY <1>2 DEF Progressed
  <2>5. Current(w, t) => Current(u, t)
    BY <1>2 DEF Current
  <2> QED BY <2>2, <2>3, <2>4, <2>5
<1>5. InOrder(u, c)
  BY <1>2, <1>3, <1>4 DEF InOrder, Kept
<1> QED BY <1>2, <1>4, <1>5 DEF u

\* peer_set_closed.
LEMMA CloseKeeps ==
    ASSUME NEW w, NEW c, InOrder(w, c)
    PROVE  Spares(w, CtlConClose(w), c, Transfer)
<1> DEFINE S == {t \in Transfer : w.xfer[t].con # "ESTABLISHED"}
<1>1. S \subseteq Transfer /\ IsFiniteSet(Transfer) /\ IsFiniteSet(S)
  BY ViewsAssumption, FS_Union, FS_Subset DEF Transfer
<1>2. PICK f : Unfolds(w, S, f)
  <2>1. IsFiniteSet(S)
    BY <1>1
  <2> HIDE DEF S
  <2> QED BY <2>1, AbortsUnfold
<1>3. CtlConClose(w) = [f[S] EXCEPT !.ctl = "CLOSED"]
  <2>1. CtlConClose(w) = [AbortAll(w, S) EXCEPT !.ctl = "CLOSED"]
    BY DEF CtlConClose, AbortAll
  <2> QED BY <1>2, <2>1 DEF Unfolds
<1> HIDE DEF S
<1> DEFINE Reached == {n \in Nat : \A s \in SUBSET S :
                                      Cardinality(s) = n => Spares(w, f[s], c, Transfer)}
<1>4. 0 \in Reached
  <2>1. \A s \in SUBSET S : Cardinality(s) = 0 => s = {}
    BY <1>1, FS_Subset, FS_EmptySet
  <2>2. Spares(w, w, c, Transfer)
    BY DEF Spares, May
  <2> QED BY <1>2, <2>1, <2>2 DEF Unfolds
<1>5. ASSUME NEW n \in Reached PROVE n + 1 \in Reached
  <2> SUFFICES ASSUME NEW s \in SUBSET S, Cardinality(s) = n + 1
               PROVE  Spares(w, f[s], c, Transfer)
    OBVIOUS
  <2>1. IsFiniteSet(s) /\ s # {}
    BY <1>1, FS_Subset, FS_EmptySet
  <2>2. PICK t \in s : f[s] = Abort(f[s \ {t}], t)
    BY <1>2, <2>1 DEF Unfolds
  <2>3. s \ {t} \in SUBSET S /\ Cardinality(s \ {t}) = n /\ t \in Transfer
    <3>1. Cardinality(s \ {t}) = Cardinality(s) - 1
      BY <2>1, FS_RemoveElement
    <3> QED BY <1>1, <3>1
  <2>4. Spares(w, f[s \ {t}], c, Transfer)
    BY <2>3
  <2>5. Spares(f[s \ {t}], f[s], c, Transfer)
    <3>1. InOrder(f[s \ {t}], c)
      BY <2>4 DEF Spares
    <3>2. Spares(f[s \ {t}], Abort(f[s \ {t}], t), c, Transfer)
      BY <2>3, <3>1, AbortKeeps
    <3> QED BY <2>2, <3>2
  <2>6. Spares(w, f[s], c, Transfer \cap Transfer)
    BY <2>4, <2>5, SparesOnward
  <2> QED BY <2>6
<1>6. Reached = Nat
  <2>1. Reached \in SUBSET Nat
    OBVIOUS
  <2> HIDE DEF Reached
  <2> QED BY <1>4, <1>5, <2>1, Lists!SetInduction
<1>7. Spares(w, f[S], c, Transfer)
  BY <1>1, <1>6, FS_CardinalityType
<1> HIDE DEF Reached
<1> QED BY <1>3, <1>7, CtlIsNotShown DEF Spares

\* A command is sent, or fails to be and closes the connection.
LEMMA SendKeeps ==
    ASSUME NEW w, NEW c, InOrder(w, c), NEW s \in SendCommand(w)
    PROVE  Spares(w, s, c, Transfer)
<1>1. CASE s = w
  BY <1>1 DEF Spares, May
<1>2. CASE s = CtlConClose(w)
  BY <1>2, CloseKeeps
<1> QED BY <1>1, <1>2 DEF SendCommand

\* What a transfer is after a handler of another one, or after a failed send.
LEMMA MayIsAlike ==
    ASSUME NEW x \in Fields, NEW y, May(x, y)
    PROVE  /\ y \in Fields /\ Alike(x, y) /\ y.state \in {x.state, "ABORTED"}
           /\ y.state = "NONE" <=> x.state = "NONE"
           /\ x.state \in Ended => y.state = x.state
<1>1. CASE y = x
  BY <1>1 DEF Alike
<1>2. CASE x.state \notin Ended \cup {"NONE"} /\ y = Stopped(x)
  BY <1>2, StoppedIsAlike
<1> QED BY <1>1, <1>2 DEF May

-----------------------------------------------------------------------------
(* What is built from the setters.  A handler of t leaves the rows of t    *)
(* current.                                                                *)

Handles(w, u, c, t) == Spares(w, u, c, Transfer \ {t}) /\ Current(u, t)

\* A handler goes on after a send.
LEMMA HandlesAfterSend ==
    ASSUME NEW w, NEW s, NEW u, NEW c, NEW t \in Transfer, InOrder(w, c),
           Spares(w, s, c, Transfer), Handles(s, u, c, t)
    PROVE  Handles(w, u, c, t)
<1>1. Spares(w, u, c, Transfer \cap (Transfer \ {t}))
  BY SparesOnward DEF Handles
<1>2. Transfer \cap (Transfer \ {t}) = Transfer \ {t}
  OBVIOUS
<1> QED BY <1>1, <1>2 DEF Handles

\* Two operators on the same transfer.
LEMMA HandlesOnward ==
    ASSUME NEW w, NEW s, NEW u, NEW c, NEW t \in Transfer, InOrder(w, c),
           Spares(w, s, c, Transfer \ {t}), Handles(s, u, c, t)
    PROVE  Handles(w, u, c, t)
<1>1. Spares(w, u, c, (Transfer \ {t}) \cap (Transfer \ {t}))
  BY SparesOnward DEF Handles
<1>2. (Transfer \ {t}) \cap (Transfer \ {t}) = Transfer \ {t}
  OBVIOUS
<1> QED BY <1>1, <1>2 DEF Handles

LEMMA SetPreparedKeeps ==
    ASSUME NEW w, NEW c, NEW t \in Transfer, InOrder(w, c),
           w.xfer[t].state # "NONE", Fresh(w.xfer[t]), NEW u \in SetPrepared(w, t)
    PROVE  /\ Handles(w, u, c, t) /\ Alike(w.xfer[t], u.xfer[t])
           /\ u.xfer[t].state \in {"PREPARATION_PENDING", "ABORTED"}
<1> DEFINE x == w.xfer[t]
           y == [x EXCEPT !.state = "PREPARATION_PENDING"]
           m == Changed(w, t, y)
<1>1. x \in Fields /\ Counts(x) /\ w.xfer \in [Transfer -> Fields]
  BY DEF InOrder, Kept, Typed
<1>2. PICK s \in SendCommand(m) : u = UpdateRow(s, t)
  BY DEF SetPrepared, Changed
<1>3. /\ y \in Fields /\ Counts(y) /\ Alike(x, y) /\ y.state = "PREPARATION_PENDING"
      /\ y.state = "NONE" <=> x.state = "NONE"
      /\ y.verdict = "ACCEPTED" <=> x.verdict = "ACCEPTED"
      /\ \A p \in 0 .. Size : Fits(p, x) => Fits(p, y)
  <2>1. /\ y \in Fields /\ y.state = "PREPARATION_PENDING" /\ y.current = x.current
        /\ y.last = x.last /\ y.from = x.from /\ y.zero = x.zero /\ Alike(x, y)
    BY <1>1 DEF Fields, State, Alike, Fresh
  <2>2. x.state # "COMPLETED"
    BY <1>1, ViewsAssumption DEF Counts, Fresh
  <2>3. x.current \in Nat /\ x.last \in Nat
    BY <1>1 DEF Fields
  <2> HIDE DEF x, y
  <2>4. Counts(y)
    BY <2>1, <2>3 DEF x, Counts, Fresh
  <2>5. \A p \in 0 .. Size : Fits(p, x) => Fits(p, y)
    BY <2>1, <2>2 DEF Fits, Follows, Tells
  <2> QED BY <2>1, <2>4, <2>5 DEF x, Alike
<1> HIDE DEF y
<1>4. /\ InOrder(m, c) /\ m.xfer = [w.xfer EXCEPT ![t] = y]
      /\ \A o \in Transfer \ {t} : Current(w, o) => Current(m, o)
  <2>1. MayChange(w, t, y, {})
    BY <1>3 DEF MayChange
  <2>2. /\ Kept(m, c, {})
        /\ m.xfer = [w.xfer EXCEPT ![t] = y]
        /\ \A o \in Transfer \ {t} : Current(w, o) => Current(m, o)
    BY <2>1, ChangeKeeps
  <2> QED BY <2>2 DEF InOrder
<1> HIDE DEF m
<1>5. Spares(m, s, c, Transfer)
  BY <1>4, SendKeeps
<1>6. m.xfer[t] = y /\ \A o \in Transfer \ {t} : m.xfer[o] = w.xfer[o]
  BY <1>1, <1>4
<1>7. Spares(w, m, c, Transfer \ {t})
  BY <1>4, <1>6 DEF Spares, May
<1>8. InOrder(s, c) /\ May(y, s.xfer[t])
  BY <1>5, <1>6 DEF Spares
<1>9. /\ InOrder(u, c) /\ u.xfer = s.xfer /\ Current(u, t)
      /\ \A o \in Transfer \ {t} : Current(s, o) => Current(u, o)
  BY <1>2, <1>8, UpdateKeeps DEF InOrder
<1>10. Handles(s, u, c, t)
  BY <1>9 DEF Handles, Spares, May
<1>11. Handles(w, u, c, t)
  BY <1>4, <1>5, <1>7, <1>10, HandlesAfterSend, HandlesOnward DEF Handles
<1>12. Alike(y, u.xfer[t]) /\ u.xfer[t].state \in {"PREPARATION_PENDING", "ABORTED"}
  BY <1>3, <1>8, <1>9, MayIsAlike
<1> QED BY <1>3, <1>11, <1>12 DEF Alike

-----------------------------------------------------------------------------
(* Rows that come and go.                                                  *)

LEMMA ChangeIsTyped ==
    ASSUME NEW w, Typed(w), NEW t \in Transfer, NEW x \in Fields
    PROVE  LET u == Changed(w, t, x)
           IN  /\ Typed(u) /\ u.ctl = w.ctl /\ u.row = w.row /\ u.xfer = [w.xfer EXCEPT ![t] = x]
               /\ u.xfer[t] = x /\ \A o \in Transfer \ {t} : u.xfer[o] = w.xfer[o]
<1> DEFINE u == Changed(w, t, x)
<1>1. /\ u.ctl = w.ctl /\ u.row = w.row /\ u.xfer = [w.xfer EXCEPT ![t] = x]
      /\ u = [ctl |-> u.ctl, xfer |-> u.xfer, row |-> u.row]
  BY DEF Typed, Changed
<1> HIDE DEF u
<1>2. /\ u.xfer \in [Transfer -> Fields] /\ u.xfer[t] = x
      /\ \A o \in Transfer \ {t} : u.xfer[o] = w.xfer[o]
  BY <1>1 DEF Typed
<1>3. Typed(u)
  BY <1>1, <1>2 DEF Typed
<1> QED BY <1>1, <1>2, <1>3 DEF u

\* A world whose rows of one window are replaced.
LEMMA RowsReplaced ==
    ASSUME NEW w, Typed(w), NEW k \in Window, NEW rows, Tidy(rows, Columns(k))
    PROVE  LET u == [w EXCEPT !.row[k] = rows]
           IN  /\ Typed(u) /\ u.ctl = w.ctl /\ u.xfer = w.xfer
               /\ u.row[k] = rows /\ \A l \in Window \ {k} : u.row[l] = w.row[l]
<1> DEFINE u == [w EXCEPT !.row[k] = rows]
<1>1. /\ u.ctl = w.ctl /\ u.xfer = w.xfer /\ u.row = [w.row EXCEPT ![k] = rows]
      /\ u = [ctl |-> u.ctl, xfer |-> u.xfer, row |-> u.row]
  BY DEF Typed
<1> HIDE DEF u
<1>2. /\ u.row = [l \in Window |-> u.row[l]]
      /\ u.row[k] = rows /\ \A l \in Window \ {k} : u.row[l] = w.row[l]
  BY <1>1 DEF Typed
<1>3. Typed(u)
  BY <1>1, <1>2 DEF Typed
<1> QED BY <1>1, <1>2, <1>3 DEF u

LEMMA RowRemoved ==
    ASSUME NEW w, Typed(w), NEW k \in Window, NEW t
    PROVE  LET u == RemoveRow(w, k, t)
           IN  /\ Typed(u) /\ u.ctl = w.ctl /\ u.xfer = w.xfer
               /\ ToSet(u.row[k]) = {r \in ToSet(w.row[k]) : r.of # t}
               /\ \A l \in Window \ {k} : u.row[l] = w.row[l]
<1> DEFINE u == RemoveRow(w, k, t)
           i == Find(w.row[k], t)
<1>1. Tidy(w.row[k], Columns(k))
  BY DEF Typed
<1>2. \/ i = 0 /\ \A r \in ToSet(w.row[k]) : r.of # t
      \/ /\ i \in 1 .. Len(w.row[k]) /\ w.row[k][i].of = t
         /\ \A r \in ToSet(w.row[k]) : r.of = t => r = w.row[k][i]
  BY <1>1, FindFinds
<1>3. CASE i = 0
  <2>1. u = w
    BY <1>3 DEF RemoveRow
  <2>2. \A r \in ToSet(w.row[k]) : r.of # t
    BY <1>2, <1>3
  <2> QED BY <2>1, <2>2
<1>4. CASE i # 0
  <2> DEFINE rows == RemoveAt(w.row[k], i)
  <2>1. /\ i \in 1 .. Len(w.row[k]) /\ w.row[k][i].of = t
        /\ \A r \in ToSet(w.row[k]) : r.of = t => r = w.row[k][i]
    BY <1>2, <1>4
  <2>2. Tidy(rows, Columns(k)) /\ ToSet(rows) = ToSet(w.row[k]) \ {w.row[k][i]}
    BY <1>1, <2>1, RemoveKeeps
  <2>3. u = [w EXCEPT !.row[k] = rows]
    BY <1>4 DEF RemoveRow
  <2> HIDE DEF rows, u, i
  <2>4. /\ Typed(u) /\ u.ctl = w.ctl /\ u.xfer = w.xfer
        /\ u.row[k] = rows /\ \A l \in Window \ {k} : u.row[l] = w.row[l]
    BY <2>2, <2>3, RowsReplaced
  <2>5. ToSet(rows) = {r \in ToSet(w.row[k]) : r.of # t}
    BY <2>1, <2>2
  <2> QED BY <2>4, <2>5 DEF u
<1> QED BY <1>3, <1>4

\* In u, t has a row more in window k, the one of its verdict.
Added(w, u, t, k) ==
    /\ Typed(u) /\ u.ctl = w.ctl /\ u.xfer = w.xfer
    /\ \E r : /\ r.of = t /\ ToSet(u.row[k]) = ToSet(w.row[k]) \cup {r}
              /\ k = "APPROVED" => Fits(r.progress, w.xfer[t])
    /\ \A l \in Window \ {k} : u.row[l] = w.row[l]
    /\ Current(u, t)

LEMMA RowAdded ==
    ASSUME NEW w, Typed(w), NEW t \in Transfer, Counts(w.xfer[t]), Fresh(w.xfer[t]),
           \A l \in Window : ~HasRow(w, l, t)
    PROVE  Added(w, AddRow(w, t), t, WindowOf(w.xfer[t]))
<1> DEFINE x == w.xfer[t]
           k == WindowOf(x)
           u == AddRow(w, t)
           r == IF x.verdict = "ACCEPTED" THEN ApprovedRow(x, t, 0) ELSE UnapprovedRow(x, t)
           rows == Append(w.row[k], r)
<1>1. x \in Fields /\ k \in Window /\ Tidy(w.row[k], Columns(k))
  BY DEF Typed, WindowOf, Window
<1>2. Progress(x, 0) \in 0 .. Size /\ Fits(Progress(x, 0), x)
  <2>1. 0 \in 0 .. Size /\ Follows(0, x)
    BY ViewsAssumption DEF Follows, Tells, Fresh
  <2> QED BY <1>1, <2>1, ProgressFits
<1>3. /\ r \in Columns(k) /\ r.of = t
      /\ k = "APPROVED" => Fits(r.progress, x)
  <2>1. CASE x.verdict = "ACCEPTED"
    BY <1>1, <1>2, <2>1 DEF WindowOf, Columns, ApprovedRow, ApprovedColumns, Fields
  <2>2. CASE x.verdict # "ACCEPTED"
    BY <1>1, <2>2 DEF WindowOf, Columns, UnapprovedRow, UnapprovedColumns, Fields
  <2> QED BY <2>1, <2>2
<1>4. u = [w EXCEPT !.row[k] = rows]
  BY DEF AddRow, WindowOf
<1>5. /\ r.state = x.state /\ r.meth = x.meth
      /\ r.directory = x.directory
      /\ k = "APPROVED" => r.paused = x.paused
      /\ k = "UNAPPROVED" => r.verdict = x.verdict /\ r.ssl = x.ssl /\ r.address = x.address
  BY DEF WindowOf, ApprovedRow, UnapprovedRow
<1> HIDE DEF r
<1>6. Tidy(rows, Columns(k)) /\ ToSet(rows) = ToSet(w.row[k]) \cup {r}
  <2>1. \A o \in ToSet(w.row[k]) : o.of # r.of
    BY <1>1, <1>3 DEF HasRow
  <2> QED BY <1>1, <1>3, <2>1, AppendKeeps
<1> HIDE DEF rows, k, u
<1>7. /\ Typed(u) /\ u.ctl = w.ctl /\ u.xfer = w.xfer
      /\ u.row[k] = rows /\ \A l \in Window \ {k} : u.row[l] = w.row[l]
  BY <1>1, <1>4, <1>6, RowsReplaced
<1>8. Current(u, t)
  <2>1. \A l \in Window : \A q \in ToSet(u.row[l]) : q.of = t => l = k /\ q = r
    BY <1>6, <1>7 DEF HasRow
  <2> QED BY <1>7, <1>5, <2>1 DEF Current, DirectoryShown, Window
<1> QED BY <1>3, <1>6, <1>7, <1>8 DEF u, k, Added

\* data_transfer_set_verdict: the row moves to the other window.
Ruled(x, v) == [x EXCEPT !.verdict = v]

LEMMA AcceptedMoves ==
    ASSUME NEW w, NEW c, NEW t \in Transfer, InOrder(w, c), w.xfer[t].state # "NONE",
           Fresh(w.xfer[t]), w.xfer[t].verdict = "PENDING"
    PROVE  /\ Handles(w, SetVerdict(w, t, "ACCEPTED"), c, t)
           /\ SetVerdict(w, t, "ACCEPTED").xfer[t] = Ruled(w.xfer[t], "ACCEPTED")
<1> DEFINE x == Ruled(w.xfer[t], "ACCEPTED")
           g == RemoveRow(w, "UNAPPROVED", t)
           m == Changed(g, t, x)
           a == AddRow(m, t)
           u == UpdateRow(a, t)
<1>1. /\ Typed(w) /\ w.xfer[t] \in Fields
      /\ \A o \in Transfer : /\ Counts(w.xfer[o]) /\ Listed(w, c, o) /\ WasThere(w, c, o)
                             /\ Progressed(w, o, TRUE)
  BY DEF InOrder, Kept, Typed
<1>2. SetVerdict(w, t, "ACCEPTED") = u
  BY DEF SetVerdict, Changed, Ruled
<1>3. "UNAPPROVED" \in Window /\ "APPROVED" \in Window /\ "APPROVED" \in Window \ {"UNAPPROVED"}
      /\ "UNAPPROVED" \in Window \ {"APPROVED"} /\ Window = {"UNAPPROVED", "APPROVED"}
  BY DEF Window
<1>4. /\ x \in Fields /\ Counts(x) /\ Fresh(x) /\ x.state = w.xfer[t].state
      /\ x.verdict = "ACCEPTED" /\ WindowOf(x) = "APPROVED" /\ WindowOf(w.xfer[t]) = "UNAPPROVED"
  BY <1>1 DEF Ruled, Fields, Verdict, Counts, Fresh, WindowOf
<1> HIDE DEF x
<1>5. /\ Typed(g) /\ g.ctl = w.ctl /\ g.xfer = w.xfer
      /\ ToSet(g.row["UNAPPROVED"]) = {r \in ToSet(w.row["UNAPPROVED"]) : r.of # t}
      /\ g.row["APPROVED"] = w.row["APPROVED"]
  BY <1>1, <1>3, RowRemoved
<1> HIDE DEF g
<1>6. /\ Typed(m) /\ m.ctl = w.ctl /\ m.row = g.row
      /\ m.xfer[t] = x /\ \A o \in Transfer \ {t} : m.xfer[o] = w.xfer[o]
  <2>1. x \in Fields /\ Typed(g)
    BY <1>4, <1>5
  <2>2. /\ Typed(m) /\ m.ctl = g.ctl /\ m.row = g.row /\ m.xfer = [g.xfer EXCEPT ![t] = x]
        /\ m.xfer[t] = x /\ \A o \in Transfer \ {t} : m.xfer[o] = g.xfer[o]
    BY <2>1, ChangeIsTyped
  <2> HIDE DEF m
  <2> QED BY <1>5, <2>2
<1> HIDE DEF m
<1>7. \A r \in ToSet(w.row["APPROVED"]) : r.of # t
  BY <1>1, <1>3, <1>4 DEF Listed, HasRow
<1>8. \A l \in Window : ~HasRow(m, l, t)
  BY <1>3, <1>5, <1>6, <1>7 DEF HasRow
<1>9. /\ Typed(a) /\ a.ctl = w.ctl /\ a.xfer = m.xfer
      /\ a.row["UNAPPROVED"] = g.row["UNAPPROVED"]
      /\ \E r : /\ r.of = t /\ ToSet(a.row["APPROVED"]) = ToSet(w.row["APPROVED"]) \cup {r}
                /\ Fits(r.progress, x)
  <2>1. Added(m, a, t, "APPROVED")
    <3>1. Added(m, a, t, WindowOf(m.xfer[t]))
      BY <1>4, <1>6, <1>8, RowAdded
    <3> QED BY <1>4, <1>6, <3>1
  <2> HIDE DEF a
  <2> QED BY <1>3, <1>4, <1>5, <1>6, <2>1 DEF Added
<1> HIDE DEF a
<1>10. \A o \in Transfer \ {t}, k \in Window : HasRow(a, k, o) <=> HasRow(w, k, o)
  BY <1>3, <1>5, <1>9 DEF HasRow
<1>11. \A o \in Transfer \ {t} : /\ Counts(a.xfer[o]) /\ Listed(a, c, o) /\ WasThere(a, c, o)
                                 /\ Progressed(a, o, TRUE) /\ (Current(w, o) => Current(a, o))
  <2> TAKE o \in Transfer \ {t}
  <2>1. a.xfer[o] = w.xfer[o]
    BY <1>6, <1>9
  <2>2. Listed(a, c, o)
    BY <1>1, <1>10, <2>1 DEF Listed
  <2>3. WasThere(a, c, o) /\ Counts(a.xfer[o])
    BY <1>1, <2>1 DEF WasThere
  <2>4. Progressed(a, o, TRUE)
    BY <1>1, <1>9, <2>1 DEF Progressed
  <2>5. Current(w, o) => Current(a, o)
    BY <1>5, <1>9, <2>1 DEF Current
  <2> QED BY <2>2, <2>3, <2>4, <2>5
<1>12. /\ Counts(a.xfer[t]) /\ Listed(a, c, t) /\ WasThere(a, c, t) /\ Progressed(a, t, TRUE)
  <2>1. a.xfer[t] = x /\ ~HasRow(a, "UNAPPROVED", t) /\ HasRow(a, "APPROVED", t)
    BY <1>5, <1>6, <1>9 DEF HasRow
  <2>2. <<t, "APPROVED">> \notin c
    BY <1>1, <1>4 DEF WasThere
  <2>3. Listed(a, c, t)
    BY <1>3, <1>4, <2>1, <2>2 DEF Listed
  <2>4. WasThere(a, c, t)
    BY <1>1, <1>4, <2>1 DEF WasThere
  <2>5. Progressed(a, t, TRUE)
    BY <1>7, <1>9, <2>1 DEF Progressed
  <2> QED BY <1>4, <2>1, <2>3, <2>4, <2>5
<1>13. Kept(a, c, {})
  <2>1. \A o \in Transfer : o = t \/ o \in Transfer \ {t}
    OBVIOUS
  <2> QED BY <1>9, <1>11, <1>12, <2>1 DEF Kept
<1>14. /\ InOrder(u, c) /\ u.xfer = a.xfer /\ Current(u, t)
       /\ \A o \in Transfer \ {t} : Current(a, o) => Current(u, o)
  BY <1>13, UpdateKeeps
<1>15. \A o \in Transfer \ {t} : u.xfer[o] = w.xfer[o] /\ (Current(w, o) => Current(u, o))
  BY <1>6, <1>9, <1>11, <1>14
<1>16. u.xfer[t] = x
  BY <1>6, <1>9, <1>14
<1> QED BY <1>2, <1>14, <1>15, <1>16 DEF x, Handles, Spares, May

LEMMA SetVerdictKeeps ==
    ASSUME NEW w, NEW c, NEW t \in Transfer, InOrder(w, c), w.xfer[t].state # "NONE",
           Fresh(w.xfer[t]), w.xfer[t].verdict = "PENDING", NEW v \in {"ACCEPTED", "DECLINED"}
    PROVE  /\ Handles(w, SetVerdict(w, t, v), c, t)
           /\ SetVerdict(w, t, v).xfer[t] = Ruled(w.xfer[t], v)
<1>1. CASE v = "ACCEPTED"
  BY <1>1, AcceptedMoves
<1>2. CASE v = "DECLINED"
  <2> DEFINE x == w.xfer[t]
             y == Ruled(x, v)
  <2>1. x \in Fields /\ Counts(x)
    BY DEF InOrder, Kept, Typed
  <2>2. SetVerdict(w, t, v) = Put(w, t, y)
    BY <1>2 DEF SetVerdict, Ruled
  <2>3. /\ y \in Fields /\ y.state = x.state /\ y.current = x.current /\ y.last = x.last
        /\ y.from = x.from /\ y.zero = x.zero /\ y.verdict # "ACCEPTED"
    BY <1>2, <2>1 DEF Ruled, Fields, Verdict
  <2> HIDE DEF y
  <2>4. Replaces(y, w.xfer[t])
    BY <2>1, <2>3 DEF Replaces, Counts, Fresh, Fits, Follows, Tells
  <2>5. /\ Spares(w, Put(w, t, y), c, Transfer \ {t})
        /\ Current(Put(w, t, y), t)
        /\ Put(w, t, y).xfer[t] = y
        /\ Put(w, t, y).xfer = [w.xfer EXCEPT ![t] = y]
        /\ Put(w, t, y).ctl = w.ctl
    BY <2>4, PutKeeps
  <2> QED BY <2>2, <2>5 DEF Handles, y
<1> QED BY <1>1, <1>2

\* file_verdict_command_pack_and_send.
LEMMA SendVerdictKeeps ==
    ASSUME NEW w, NEW c, NEW t \in Transfer, InOrder(w, c), w.xfer[t].state # "NONE",
           Fresh(w.xfer[t]), w.xfer[t].verdict = "PENDING",
           NEW v \in {"ACCEPTED", "DECLINED"}, NEW u \in SendVerdict(w, t, v)
    PROVE  /\ Handles(w, u, c, t)
           /\ u.xfer[t].verdict = v /\ u.xfer[t].entry = w.xfer[t].entry
           /\ Fresh(u.xfer[t])
           /\ u.xfer[t].state \in {w.xfer[t].state} \cup Ended
           /\ v = "DECLINED" => u.xfer[t].state \in Ended
<1>1. PICK s \in SendCommand(w) :
         u = SetVerdict(IF s.ctl = "CLOSED" \/ v = "DECLINED" THEN Abort(s, t) ELSE s, t, v)
  BY DEF SendVerdict
<1> DEFINE a == IF s.ctl = "CLOSED" \/ v = "DECLINED" THEN Abort(s, t) ELSE s
<1>2. u = SetVerdict(a, t, v)
  BY <1>1
<1>3. Spares(w, s, c, Transfer)
  BY SendKeeps
<1>4. InOrder(s, c) /\ w.xfer[t] \in Fields /\ s.xfer[t] \in Fields
  BY <1>3 DEF Spares, InOrder, Kept, Typed
<1>5. Spares(s, a, c, Transfer) /\ (v = "DECLINED" /\ s.xfer[t].state # "NONE" =>
                                      a.xfer[t].state \in Ended)
  <2>1. CASE s.ctl = "CLOSED" \/ v = "DECLINED"
    BY <1>4, <2>1, AbortKeeps
  <2>2. CASE ~ (s.ctl = "CLOSED" \/ v = "DECLINED")
    BY <1>4, <2>2 DEF Spares, May
  <2> QED BY <2>1, <2>2
<1> HIDE DEF a
<1>6. May(w.xfer[t], s.xfer[t]) /\ May(s.xfer[t], a.xfer[t])
  BY <1>3, <1>5 DEF Spares
<1>7. /\ Alike(w.xfer[t], s.xfer[t]) /\ s.xfer[t].state \in {w.xfer[t].state, "ABORTED"}
      /\ Alike(s.xfer[t], a.xfer[t]) /\ a.xfer[t].state \in {s.xfer[t].state, "ABORTED"}
      /\ a.xfer[t] \in Fields
  BY <1>4, <1>6, MayIsAlike
<1>8. /\ a.xfer[t].state # "NONE" /\ Fresh(a.xfer[t]) /\ a.xfer[t].verdict = "PENDING"
      /\ a.xfer[t].entry = w.xfer[t].entry /\ InOrder(a, c)
      /\ a.xfer[t].state \in {w.xfer[t].state, "ABORTED"}
      /\ v = "DECLINED" => a.xfer[t].state \in Ended
  BY <1>5, <1>7 DEF Alike, Spares
<1>9. Handles(a, u, c, t) /\ u.xfer[t] = Ruled(a.xfer[t], v)
  <2>1. /\ Handles(a, SetVerdict(a, t, v), c, t)
        /\ SetVerdict(a, t, v).xfer[t] = Ruled(a.xfer[t], v)
    <3>1. /\ InOrder(a, c) /\ a.xfer[t].state # "NONE"
          /\ Fresh(a.xfer[t]) /\ a.xfer[t].verdict = "PENDING"
      BY <1>8
    <3> QED BY <3>1, SetVerdictKeeps
  <2> QED BY <1>2, <2>1
<1>10. /\ u.xfer[t].verdict = v /\ u.xfer[t].state = a.xfer[t].state
      /\ u.xfer[t].entry = a.xfer[t].entry /\ Fresh(u.xfer[t])
  BY <1>7, <1>8, <1>9 DEF Ruled, Fields, Fresh
<1>11. Handles(w, u, c, t)
  BY <1>3, <1>4, <1>5, <1>9, HandlesAfterSend
<1> QED BY <1>8, <1>10, <1>11 DEF Ended

\* file_suggest_command_pack_and_send.
LEMMA SendSuggestKeeps ==
    ASSUME NEW w, NEW c, NEW t \in Transfer, InOrder(w, c), w.xfer[t].state # "NONE",
           Fresh(w.xfer[t]), NEW u \in SendSuggest(w, t)
    PROVE  /\ Handles(w, u, c, t) /\ Alike(w.xfer[t], u.xfer[t])
           /\ u.xfer[t].state = "VERDICT_PENDING"
<1>1. PICK s \in SendCommand(w) : u = SetState(s, t, "VERDICT_PENDING")
  BY DEF SendSuggest
<1>2. Spares(w, s, c, Transfer)
  BY SendKeeps
<1>3. InOrder(s, c) /\ w.xfer[t] \in Fields /\ May(w.xfer[t], s.xfer[t])
  BY <1>2 DEF Spares, InOrder, Kept, Typed
<1>4. Alike(w.xfer[t], s.xfer[t]) /\ s.xfer[t].state # "NONE"
  BY <1>3, MayIsAlike
<1>5. MayEnter(s.xfer[t], "VERDICT_PENDING")
  BY <1>4 DEF MayEnter, State, Alike
<1>6. /\ Handles(s, u, c, t) /\ u.xfer[t].state = "VERDICT_PENDING"
      /\ Alike(s.xfer[t], u.xfer[t])
  <2> DEFINE r == SetState(s, t, "VERDICT_PENDING")
  <2>1. Entered(s, r, c, t, "VERDICT_PENDING")
    BY <1>3, <1>5, SetStateKeeps
  <2> HIDE DEF r
  <2>2. u = r
    BY <1>1 DEF r
  <2> QED BY <2>1, <2>2 DEF Handles, Entered
<1>7. Handles(w, u, c, t)
  BY <1>2, <1>6, HandlesAfterSend
<1> QED BY <1>4, <1>6, <1>7 DEF Alike

-----------------------------------------------------------------------------
(* The handlers.                                                           *)

\* A change that no row shows, of a transfer that has its rows where they were; or
\* a directory that Apply has just changed.
Unshown(x, y) ==
    /\ y \in Fields /\ Counts(y)
    /\ y.state = x.state /\ y.verdict = x.verdict /\ y.meth = x.meth /\ y.paused = x.paused
    /\ y.ssl = x.ssl \/ y.state = "ABORTED" \/ y.verdict = "ACCEPTED"
    /\ y.address = x.address \/ y.verdict = "ACCEPTED"
    /\ (y.directory = x.directory /\ y.applied = x.applied) \/ y.applied = y.state
    /\ \A p \in 0 .. Size : Fits(p, x) => Fits(p, y)

LEMMA UnshownKeeps ==
    ASSUME NEW w, NEW c, NEW t \in Transfer, NEW y, InOrder(w, c), Unshown(w.xfer[t], y)
    PROVE  LET u == Changed(w, t, y)
           IN  /\ Spares(w, u, c, Transfer \ {t}) /\ (Current(w, t) => Current(u, t))
               /\ u.xfer[t] = y /\ u.ctl = w.ctl
<1> DEFINE u == Changed(w, t, y)
<1>1. Typed(w) /\ Listed(w, c, t) /\ y \in Fields
  BY DEF InOrder, Kept, Unshown
<1>2. MayChange(w, t, y, {})
  BY DEF Unshown, MayChange
<1>3. /\ Kept(u, c, {})
      /\ u.ctl = w.ctl /\ u.row = w.row /\ u.xfer = [w.xfer EXCEPT ![t] = y]
      /\ \A o \in Transfer \ {t} : Current(w, o) => Current(u, o)
  BY <1>2, ChangeKeeps
<1> HIDE DEF u
<1>4. u.xfer[t] = y /\ \A o \in Transfer \ {t} : u.xfer[o] = w.xfer[o]
  BY <1>1, <1>3 DEF Typed
<1>5. y.verdict = "ACCEPTED" => \A r \in ToSet(w.row["UNAPPROVED"]) : r.of # t
  BY <1>1 DEF Listed, HasRow, WindowOf, Window, Unshown
<1>6. Current(w, t) => Current(u, t)
  BY <1>3, <1>4, <1>5 DEF Current, DirectoryShown, Unshown
<1> QED BY <1>3, <1>4, <1>6 DEF u, Spares, May, InOrder

\* Between two handlers the verdict and the accept entry fit the state.
Phase(x, t) ==
    /\ x.state \in {"NONE", "SETUP_PENDING", "ACTIVE_RESOLVE_SRC_IP", "VERDICT_PENDING"} =>
          x.verdict = "PENDING" /\ ~x.entry
    /\ x.state = "PASSIVE_RESOLVE_ACCEPT_IP" =>
          x.verdict = IF t \in Incoming THEN "PENDING" ELSE "ACCEPTED"
    /\ x.entry /\ x.verdict # "ACCEPTED" => x.state \in {"PASSIVE_RESOLVE_ACCEPT_IP", "ABORTED"}
    /\ x.state = "NONE" => x.con = "NONE"

\* data_transfer_setup_passive_accept.
LEMMA SetupPassiveAcceptKeeps ==
    ASSUME NEW w, NEW c, NEW t \in Transfer, InOrder(w, c), w.xfer[t].state # "NONE",
           Fresh(w.xfer[t]), ~w.xfer[t].entry,
           w.xfer[t].verdict = IF t \in Incoming THEN "PENDING" ELSE "ACCEPTED",
           NEW u \in SetupPassiveAccept(w, t)
    PROVE  /\ Handles(w, u, c, t) /\ Phase(u.xfer[t], t) /\ u.xfer[t].state # "NONE"
           /\ t \notin Incoming => u.xfer[t].verdict = "ACCEPTED"
<1> DEFINE x == w.xfer[t]
<1>1. x \in Fields
  BY DEF InOrder, Kept, Typed
<1>2. CASE x.local
  <2> DEFINE s == SetState(w, t, "PASSIVE_RESOLVE_ACCEPT_IP")
             y == [s.xfer[t] EXCEPT !.entry = TRUE]
  <2>1. MayEnter(w.xfer[t], "PASSIVE_RESOLVE_ACCEPT_IP")
    BY DEF MayEnter, State
  <2>2. /\ Spares(w, s, c, Transfer \ {t}) /\ Current(s, t)
        /\ s.xfer[t].state = "PASSIVE_RESOLVE_ACCEPT_IP"
        /\ s.xfer[t].verdict = x.verdict
    <3>1. Entered(w, s, c, t, "PASSIVE_RESOLVE_ACCEPT_IP")
      BY <2>1, SetStateKeeps
    <3> QED BY <3>1 DEF Entered
  <2>3. u = Changed(s, t, y)
    BY <1>2 DEF SetupPassiveAccept, Changed
  <2> HIDE DEF s
  <2>4. InOrder(s, c) /\ s.xfer[t] \in Fields /\ Counts(s.xfer[t])
    BY <2>2 DEF Spares, InOrder, Kept, Typed
  <2>5. Unshown(s.xfer[t], y)
    BY <2>4 DEF Unshown, Fields, Counts, Fresh, Fits, Follows, Tells
  <2>6. y.entry /\ y.state = "PASSIVE_RESOLVE_ACCEPT_IP" /\ y.verdict = x.verdict
    BY <2>2, <2>4 DEF Fields
  <2> HIDE DEF y
  <2>7. Spares(s, u, c, Transfer \ {t}) /\ Current(u, t) /\ u.xfer[t] = y
    BY <2>2, <2>3, <2>4, <2>5, UnshownKeeps
  <2>8. Handles(w, u, c, t)
    BY <2>2, <2>7, HandlesOnward DEF Handles
  <2>9. Phase(y, t)
    BY <2>6 DEF Phase
  <2> QED BY <2>6, <2>7, <2>8, <2>9
<1>3. CASE ~x.local /\ t \in Incoming
  <2>1. PICK s \in SetPrepared(w, t) : u \in SendVerdict(s, t, "ACCEPTED")
    BY <1>3 DEF SetupPassiveAccept, Then
  <2>2. /\ Handles(w, s, c, t) /\ Alike(x, s.xfer[t])
        /\ s.xfer[t].state \in {"PREPARATION_PENDING", "ABORTED"}
    BY SetPreparedKeeps
  <2>3. /\ InOrder(s, c) /\ s.xfer[t].state # "NONE" /\ Fresh(s.xfer[t])
        /\ s.xfer[t].verdict = "PENDING" /\ ~s.xfer[t].entry
    BY <1>3, <2>2 DEF Alike, Handles, Spares
  <2>4. "ACCEPTED" \in {"ACCEPTED", "DECLINED"}
    OBVIOUS
  <2>5. /\ Handles(s, u, c, t) /\ u.xfer[t].verdict = "ACCEPTED"
        /\ u.xfer[t].state \in {s.xfer[t].state} \cup Ended
    BY <2>1, <2>3, <2>4, SendVerdictKeeps
  <2>6. Handles(w, u, c, t)
    BY <2>2, <2>5, HandlesOnward DEF Handles
  <2> QED BY <1>3, <2>2, <2>5, <2>6 DEF Phase, Ended
<1>4. CASE ~x.local /\ t \notin Incoming
  <2>1. u \in SetPrepared(w, t)
    BY <1>4 DEF SetupPassiveAccept
  <2>2. /\ Handles(w, u, c, t) /\ Alike(x, u.xfer[t])
        /\ u.xfer[t].state \in {"PREPARATION_PENDING", "ABORTED"}
    BY <2>1, SetPreparedKeeps
  <2> QED BY <1>4, <2>2 DEF Phase, Alike
<1> QED BY <1>2, <1>3, <1>4

\* The transfer that data_transfer_init announces.
Suggested(ssl) == [NoTransfer EXCEPT !.state = "SETUP_PENDING", !.ssl = ssl]

LEMMA SuggestedIsFresh ==
    ASSUME NEW ssl \in BOOLEAN
    PROVE  LET x == Suggested(ssl)
           IN  /\ x \in Fields /\ Counts(x) /\ Fresh(x)
               /\ x.state = "SETUP_PENDING" /\ x.verdict = "PENDING" /\ ~x.entry
<1> DEFINE n == NoTransfer
           x == [n EXCEPT !.state = "SETUP_PENDING", !.ssl = ssl]
<1>1. 0 \in 0 .. Size /\ Output \in Directory
  BY ViewsAssumption
<1>2. n \in Fields
  BY <1>1 DEF NoTransfer, Fields, State, Verdict, Method
<1>3. n.verdict = "PENDING" /\ ~n.entry /\ n.current = 0 /\ n.last = 0 /\ n.from = 0 /\ ~n.zero
  BY DEF NoTransfer
<1>4. Suggested(ssl) = x
  BY DEF Suggested
<1> HIDE DEF n
<1>5. /\ x \in Fields
      /\ x.state = "SETUP_PENDING" /\ x.verdict = "PENDING" /\ ~x.entry
      /\ x.current = 0 /\ x.last = 0 /\ x.from = 0 /\ ~x.zero
  BY <1>2, <1>3 DEF Fields, State
<1> HIDE DEF x
<1> QED BY <1>4, <1>5 DEF Counts, Fresh

\* data_transfer_init.
LEMMA InitKeeps ==
    ASSUME NEW w, NEW c, NEW t \in Transfer, InOrder(w, c), w.xfer[t].state = "NONE",
           NEW ssl \in BOOLEAN
    PROVE  /\ Handles(w, InitTransfer(w, t, ssl), c, t)
           /\ InitTransfer(w, t, ssl).xfer[t] = Suggested(ssl)
<1> DEFINE x == Suggested(ssl)
           m == Changed(w, t, x)
           u == AddRow(m, t)
<1>1. /\ Typed(w)
      /\ \A o \in Transfer : /\ Counts(w.xfer[o]) /\ Listed(w, c, o) /\ WasThere(w, c, o)
                             /\ Progressed(w, o, TRUE)
  BY DEF InOrder, Kept
<1>2. \A k \in Window : ~HasRow(w, k, t)
  BY <1>1 DEF Listed
<1>3. /\ x \in Fields /\ Counts(x) /\ Fresh(x) /\ x.state = "SETUP_PENDING"
      /\ x.verdict = "PENDING" /\ WindowOf(x) = "UNAPPROVED"
  BY SuggestedIsFresh DEF WindowOf
<1>4. InitTransfer(w, t, ssl) = AddRow(UpdateRow(m, t), t)
  BY DEF InitTransfer, Put, Changed, Suggested
<1> HIDE DEF x
<1>5. /\ Typed(m) /\ m.ctl = w.ctl /\ m.row = w.row /\ m.xfer = [w.xfer EXCEPT ![t] = x]
      /\ m.xfer[t] = x /\ \A o \in Transfer \ {t} : m.xfer[o] = w.xfer[o]
  BY <1>1, <1>3, ChangeIsTyped
<1> HIDE DEF m
<1>6. Window = {"UNAPPROVED", "APPROVED"}
  BY DEF Window
<1>7. UpdateRow(m, t) = m
  <2>1. Tidy(m.row["UNAPPROVED"], UnapprovedColumns)
    BY <1>5, RowTypes
  <2>2. \A r \in ToSet(m.row["UNAPPROVED"]) : r.of # t
    BY <1>2, <1>5, <1>6 DEF HasRow
  <2>3. Find(m.row["UNAPPROVED"], t) = 0
    BY <2>1, <2>2, FindFinds
  <2> QED BY <1>3, <1>5, <2>3 DEF UpdateRow
<1>8. \A k \in Window : ~HasRow(m, k, t)
  BY <1>2, <1>5 DEF HasRow
<1>9. /\ Typed(u) /\ u.ctl = w.ctl /\ u.xfer = m.xfer
      /\ u.row["APPROVED"] = w.row["APPROVED"]
      /\ \E r : r.of = t /\ ToSet(u.row["UNAPPROVED"]) = ToSet(w.row["UNAPPROVED"]) \cup {r}
      /\ Current(u, t)
  <2>1. Counts(m.xfer[t]) /\ Fresh(m.xfer[t])
    BY <1>3, <1>5
  <2>2. Added(m, u, t, "UNAPPROVED")
    <3>1. Added(m, u, t, WindowOf(m.xfer[t]))
      BY <1>5, <1>8, <2>1, RowAdded
    <3> QED BY <1>3, <1>5, <3>1
  <2> HIDE DEF u
  <2> QED BY <1>3, <1>5, <1>6, <2>2 DEF Added
<1> HIDE DEF u
<1>10. \A o \in Transfer \ {t} : /\ Counts(u.xfer[o]) /\ Listed(u, c, o) /\ WasThere(u, c, o)
                                 /\ Progressed(u, o, TRUE) /\ (Current(w, o) => Current(u, o))
  <2> TAKE o \in Transfer \ {t}
  <2>1. u.xfer[o] = w.xfer[o]
    BY <1>5, <1>9
  <2>2. \A k \in Window : HasRow(u, k, o) <=> HasRow(w, k, o)
    BY <1>6, <1>9 DEF HasRow
  <2>3. Listed(u, c, o)
    BY <1>1, <2>1, <2>2 DEF Listed
  <2>4. WasThere(u, c, o) /\ Counts(u.xfer[o])
    BY <1>1, <2>1 DEF WasThere
  <2>5. Progressed(u, o, TRUE)
    BY <1>1, <1>9, <2>1 DEF Progressed
  <2>6. Current(w, o) => Current(u, o)
    BY <1>9, <2>1 DEF Current
  <2> QED BY <2>3, <2>4, <2>5, <2>6
<1>11. /\ Counts(u.xfer[t]) /\ Listed(u, c, t) /\ WasThere(u, c, t) /\ Progressed(u, t, TRUE)
  <2>1. u.xfer[t] = x /\ HasRow(u, "UNAPPROVED", t) /\ ~HasRow(u, "APPROVED", t)
    BY <1>2, <1>5, <1>6, <1>9 DEF HasRow
  <2>2. \A k \in Window : <<t, k>> \notin c
    BY <1>1 DEF WasThere
  <2>3. Listed(u, c, t)
    BY <1>3, <1>6, <2>1, <2>2 DEF Listed
  <2>4. WasThere(u, c, t)
    BY <1>6, <2>2 DEF WasThere
  <2>5. Progressed(u, t, TRUE)
    BY <2>1 DEF Progressed, HasRow
  <2> QED BY <1>3, <2>1, <2>3, <2>4, <2>5
<1>12. Kept(u, c, {})
  <2>1. \A o \in Transfer : o = t \/ o \in Transfer \ {t}
    OBVIOUS
  <2> QED BY <1>9, <1>10, <1>11, <2>1 DEF Kept
<1>13. \A o \in Transfer \ {t} : u.xfer[o] = w.xfer[o]
  BY <1>5, <1>9
<1>14. Handles(w, u, c, t) /\ u.xfer[t] = x
  BY <1>5, <1>9, <1>10, <1>12, <1>13 DEF Handles, Spares, May, InOrder
<1> QED BY <1>4, <1>7, <1>14 DEF u, x

\* A handler that leaves t in a state of its phases.
Settles(w, u, c, t) ==
    Handles(w, u, c, t) /\ Phase(u.xfer[t], t) /\ u.xfer[t].state # "NONE"

\* One pass of the suggest loop.
LEMMA SuggestKeeps ==
    ASSUME NEW w, NEW c, NEW t \in Transfer, InOrder(w, c), w.xfer[t].state = "NONE",
           NEW m \in Method, NEW local \in BOOLEAN, NEW ssl \in BOOLEAN,
           NEW u \in SuggestFile(w, t, m, local, ssl)
    PROVE  Settles(w, u, c, t)
<1> DEFINE new == InitTransfer(w, t, ssl)
           x == Suggested(ssl)
           y == [new.xfer[t] EXCEPT !.meth = m, !.local = local]
           set == Put(new, t, y)
<1>1. Handles(w, new, c, t) /\ new.xfer[t] = x
  BY InitKeeps
<1> HIDE DEF new
<1>2. /\ x \in Fields /\ x.state = "SETUP_PENDING" /\ x.verdict = "PENDING" /\ ~x.entry
      /\ Fresh(x)
  BY SuggestedIsFresh
<1>3. u \in SendSuggest(set, t) \/ u = SetState(set, t, "ACTIVE_RESOLVE_SRC_IP")
  BY DEF SuggestFile, new
<1> HIDE DEF x
<1>4. /\ y \in Fields /\ y.state = "SETUP_PENDING" /\ y.verdict = "PENDING" /\ ~y.entry
      /\ Fresh(y)
  BY <1>1, <1>2 DEF Fields, Fresh
<1> HIDE DEF y
<1>5. Replaces(y, new.xfer[t])
  BY <1>1, <1>2, <1>4, ViewsAssumption DEF Replaces, Counts, Fresh, Early, State, Fits, Follows, Tells
<1>6. InOrder(new, c)
  BY <1>1 DEF Handles, Spares
<1>7. Handles(new, set, c, t) /\ set.xfer[t] = y
  <2>1. /\ Spares(new, set, c, Transfer \ {t})
        /\ Current(set, t)
        /\ set.xfer[t] = y
        /\ set.xfer = [new.xfer EXCEPT ![t] = y]
        /\ set.ctl = new.ctl
    BY <1>5, <1>6, PutKeeps
  <2> HIDE DEF set
  <2> QED BY <2>1 DEF Handles
<1> HIDE DEF set
<1>8. Handles(w, set, c, t) /\ InOrder(set, c)
  BY <1>1, <1>7, HandlesOnward DEF Handles, Spares
<1>9. /\ Handles(set, u, c, t) /\ Alike(y, u.xfer[t])
      /\ u.xfer[t].state \in {"VERDICT_PENDING", "ACTIVE_RESOLVE_SRC_IP"}
  <2>1. CASE u \in SendSuggest(set, t)
    BY <1>4, <1>7, <1>8, <2>1, SendSuggestKeeps
  <2>2. CASE u = SetState(set, t, "ACTIVE_RESOLVE_SRC_IP")
    <3>1. MayEnter(set.xfer[t], "ACTIVE_RESOLVE_SRC_IP")
      BY <1>4, <1>7 DEF MayEnter, State
    <3>2. Entered(set, u, c, t, "ACTIVE_RESOLVE_SRC_IP")
      BY <1>8, <2>2, <3>1, SetStateKeeps
    <3> QED BY <1>7, <3>2 DEF Entered, Handles
  <2> QED BY <1>3, <2>1, <2>2
<1>10. Handles(w, u, c, t)
  BY <1>8, <1>9, HandlesOnward DEF Handles
<1> QED BY <1>4, <1>9, <1>10 DEF Settles, Phase, Alike

-----------------------------------------------------------------------------
(* The suggest loop.                                                       *)

LEMMA MaxIsIn ==
    ASSUME NEW n \in Nat, NEW S \in SUBSET (1 .. n), S # {}
    PROVE  Max(S) \in S /\ \A y \in S : Max(S) >= y
<1> DEFINE D == {n - x : x \in S}
<1>1. D \in SUBSET Nat /\ D # {}
  <2>1. \A x \in S : n - x \in Nat
    <3> TAKE x \in S
    <3>1. x \in 1 .. n
      OBVIOUS
    <3> QED BY <3>1
  <2> QED BY <2>1
<1>2. Lists!Min(D) \in D /\ \A d \in D : Lists!Min(D) <= d
  BY <1>1, Lists!MinIsIn DEF Lists!Min
<1>3. PICK x \in S : Lists!Min(D) = n - x
  BY <1>2
<1>4. \A y \in S : x >= y
  <2> TAKE y \in S
  <2>1. n - y \in D
    OBVIOUS
  <2>2. n - x <= n - y
    BY <1>2, <1>3, <2>1
  <2> QED BY <2>2
<1> QED BY <1>4 DEF Max

\* One pass of the loop in each of the worlds that it may have come to.
Passed(W, t, m, local, ssl) == Then(W, LAMBDA v : SuggestFile(v, t, m, local, ssl))
SuggestAll(w, files, m, local, ssl) ==
    FoldLeft(LAMBDA W, t : Then(W, LAMBDA v : SuggestFile(v, t, m, local, ssl)), {w}, files)

\* f holds the worlds after each pass.
Loops(f, w, n, files, m, local, ssl) ==
    /\ f[0] = {w}
    /\ \A j \in 1 .. n : f[j] = Passed(f[j - 1], files[j], m, local, ssl)
    /\ SuggestAll(w, files, m, local, ssl) = f[n]

LEMMA PassesUnfold ==
    ASSUME NEW w, NEW n \in Nat, NEW files, DOMAIN files = 1 .. n, NEW m, NEW local, NEW ssl
    PROVE  \E f : Loops(f, w, n, files, m, local, ssl)
<1> DEFINE S == 1 .. n
           Latest(s) == Max(s)
           Value(f, s) == IF s = {} THEN {w}
                          ELSE Passed(f[s \ {Latest(s)}], files[Latest(s)], m, local, ssl)
           Sized(k) == {s \in SUBSET S : \A i \in s : i <= k}
           Passes(f, D) == f = [s \in D |-> Value(f, s)]
           Long == {k \in Nat : \E f : Passes(f, Sized(k))}
<1>1. \A s \in (SUBSET S) \ {{}} : Latest(s) \in s /\ \A i \in s : i <= Latest(s)
  <2> TAKE s \in (SUBSET S) \ {{}}
  <2>1. Max(s) \in s /\ \A i \in s : Max(s) >= i
    BY MaxIsIn
  <2> QED BY <2>1
<1> HIDE DEF Latest
<1>2. \A k \in Nat : \A s \in Sized(k + 1) \ {{}} : s \ {Latest(s)} \in Sized(k)
  <2> TAKE k \in Nat
  <2> TAKE s \in Sized(k + 1) \ {{}}
  <2>1. s \in (SUBSET S) \ {{}} /\ \A i \in s : i <= k + 1
    OBVIOUS
  <2>2. Latest(s) \in s /\ \A i \in s : i <= Latest(s)
    BY <1>1, <2>1
  <2>3. \A i \in s \ {Latest(s)} : i <= k
    <3> TAKE i \in s \ {Latest(s)}
    <3>1. i \in 1 .. n /\ Latest(s) \in 1 .. n /\ i <= Latest(s) /\ Latest(s) <= k + 1
      BY <2>1, <2>2
    <3> QED BY <3>1
  <2> QED BY <2>1, <2>3
<1>3. \A k \in Nat : Sized(k) \subseteq Sized(k + 1)
  <2> TAKE k \in Nat
  <2>1. \A i \in S : i <= k => i <= k + 1
    OBVIOUS
  <2> QED BY <2>1
<1>4. Sized(0) = {{}}
  <2>1. \A s \in SUBSET S : (\A i \in s : i <= 0) <=> s = {}
    <3> TAKE s \in SUBSET S
    <3>1. \A i \in s : i \in Nat /\ 1 <= i
      OBVIOUS
    <3> QED BY <3>1
  <2> QED BY <2>1
<1>5. 0 \in Long
  <2>1. Passes([s \in Sized(0) |-> {w}], Sized(0))
    BY <1>4
  <2> QED BY <2>1
<1>6. ASSUME NEW k \in Long PROVE k + 1 \in Long
  <2>1. PICK f : Passes(f, Sized(k))
    OBVIOUS
  <2> DEFINE g == [s \in Sized(k + 1) |-> Value(f, s)]
  <2>2. \A s \in Sized(k + 1) : Value(g, s) = Value(f, s)
    <3> TAKE s \in Sized(k + 1)
    <3>1. CASE s = {}
      BY <3>1
    <3>2. CASE s # {}
      <4> DEFINE r == s \ {Latest(s)}
      <4>1. r \in Sized(k) /\ r \in Sized(k + 1)
        BY <1>2, <1>3, <3>2
      <4> HIDE DEF r, Sized
      <4>2. f[r] = Value(f, r)
        BY <2>1, <4>1
      <4>3. g[r] = Value(f, r)
        BY <4>1
      <4> QED BY <4>2, <4>3, <3>2 DEF r
    <3> QED BY <3>1, <3>2
  <2> HIDE DEF Value, Sized
  <2>3. Passes(g, Sized(k + 1))
    BY <2>2
  <2>4. k + 1 \in Nat
    OBVIOUS
  <2> HIDE DEF Passes, g
  <2> QED BY <2>3, <2>4
<1>7. Long = Nat
  <2> HIDE DEF Long
  <2>1. Long \in SUBSET Nat
    BY DEF Long
  <2> QED BY <1>5, <1>6, <2>1, Lists!SetInduction
<1>8. Sized(n) = SUBSET S
  OBVIOUS
<1> DEFINE f == CHOOSE f : Passes(f, SUBSET S)
<1>9. Passes(f, SUBSET S)
  <2> HIDE DEF Passes, Sized
  <2>1. \E g : Passes(g, SUBSET S)
    BY <1>7, <1>8
  <2> QED BY <2>1
<1>10. SuggestAll(w, files, m, local, ssl) = f[S]
  BY DEF SuggestAll, FoldLeft, MapThenFoldSet, Latest, Passed, Then
<1> HIDE DEF f
<1>11. f[{}] = {w}
  BY <1>9
<1>12. \A s \in (SUBSET S) \ {{}} :
          f[s] = Passed(f[s \ {Latest(s)}], files[Latest(s)], m, local, ssl)
  BY <1>9
<1> HIDE DEF Passes
<1>13. ASSUME NEW j \in 1 .. n
       PROVE  f[1 .. j] = Passed(f[1 .. j - 1], files[j], m, local, ssl)
  <2>1. (1 .. j) \in (SUBSET S) \ {{}} /\ j \in 1 .. j
    OBVIOUS
  <2>2. Latest(1 .. j) = j
    <3>1. Latest(1 .. j) \in 1 .. j /\ \A i \in 1 .. j : i <= Latest(1 .. j)
      BY <1>1, <2>1
    <3> QED BY <2>1, <3>1
  <2>3. (1 .. j) \ {j} = 1 .. j - 1
    OBVIOUS
  <2> QED BY <1>12, <2>1, <2>2, <2>3
<1> DEFINE h == [j \in 0 .. n |-> f[1 .. j]]
<1>14. h[0] = {w}
  <2>1. 1 .. 0 = {} /\ 0 \in 0 .. n
    OBVIOUS
  <2> QED BY <1>11, <2>1
<1>15. \A j \in 1 .. n : h[j] = Passed(h[j - 1], files[j], m, local, ssl)
  <2> TAKE j \in 1 .. n
  <2>1. j \in 0 .. n /\ j - 1 \in 0 .. n
    OBVIOUS
  <2> QED BY <1>13, <2>1
<1>16. h[n] = f[S]
  OBVIOUS
<1> HIDE DEF h
<1> QED BY <1>10, <1>14, <1>15, <1>16 DEF Loops

\* What an aborted transfer was.
LEMMA MayOnward ==
    ASSUME NEW x \in Fields, NEW y, NEW z, May(x, y), May(y, z)
    PROVE  May(x, z)
<1>1. Stopped(x).state = "ABORTED"
  BY StoppedIsAlike
<1> QED BY <1>1 DEF May, Ended

LEMMA MayKeepsPhase ==
    ASSUME NEW x \in Fields, NEW y, NEW t, May(x, y), Phase(x, t)
    PROVE  Phase(y, t)
<1>1. y = x \/ y.state = "ABORTED"
  BY StoppedIsAlike DEF May
<1> QED BY <1>1 DEF Phase

\* The loop is in world v after j files.
Partly(w, v, c, files, j) ==
    /\ InOrder(v, c)
    /\ \A i \in 1 .. j : /\ Current(v, files[i]) /\ Phase(v.xfer[files[i]], files[i])
                         /\ v.xfer[files[i]].state # "NONE"
    /\ \A t \in Transfer : (\A i \in 1 .. j : files[i] # t) =>
          May(w.xfer[t], v.xfer[t]) /\ (Current(w, t) => Current(v, t))

LEMMA PassKeeps ==
    ASSUME NEW w, NEW c, InOrder(w, c), NEW n \in Nat, NEW files \in [1 .. n -> Transfer],
           \A i, j \in 1 .. n : files[i] = files[j] => i = j,
           \A i \in 1 .. n : w.xfer[files[i]].state = "NONE",
           NEW m \in Method, NEW local \in BOOLEAN, NEW ssl \in BOOLEAN,
           NEW j \in 1 .. n, NEW v, Partly(w, v, c, files, j - 1),
           NEW u \in SuggestFile(v, files[j], m, local, ssl)
    PROVE  Partly(w, u, c, files, j)
<1> DEFINE t == files[j]
<1>1. t \in Transfer /\ w.xfer[t].state = "NONE"
  OBVIOUS
<1>2. \A i \in 1 .. j - 1 : files[i] # t /\ files[i] \in Transfer
  <2> TAKE i \in 1 .. j - 1
  <2>1. i \in 1 .. n /\ i # j
    OBVIOUS
  <2> QED BY <2>1
<1>3. v.xfer[t].state = "NONE"
  <2>1. May(w.xfer[t], v.xfer[t])
    BY <1>1, <1>2 DEF Partly
  <2> QED BY <1>1, <2>1 DEF May
<1>4. InOrder(v, c)
  BY DEF Partly
<1> HIDE DEF t
<1>5. u \in SuggestFile(v, t, m, local, ssl)
  BY DEF t
<1>6. Handles(v, u, c, t) /\ Phase(u.xfer[t], t) /\ u.xfer[t].state # "NONE"
  <2>1. Settles(v, u, c, t)
    BY <1>1, <1>3, <1>4, <1>5, SuggestKeeps
  <2> QED BY <2>1 DEF Settles
<1>7. \A o \in Transfer : v.xfer[o] \in Fields /\ w.xfer[o] \in Fields
  <2>1. w.xfer \in [Transfer -> Fields] /\ v.xfer \in [Transfer -> Fields]
    BY <1>4 DEF InOrder, Kept, Typed
  <2> QED BY <2>1
<1>8. \A o \in Transfer \ {t} : May(v.xfer[o], u.xfer[o]) /\ (Current(v, o) => Current(u, o))
  BY <1>6 DEF Handles, Spares
<1>9. \A i \in 1 .. j - 1 : /\ Current(u, files[i]) /\ Phase(u.xfer[files[i]], files[i])
                            /\ u.xfer[files[i]].state # "NONE"
  <2> TAKE i \in 1 .. j - 1
  <2> DEFINE o == files[i]
  <2>1. /\ o \in Transfer \ {t} /\ Current(v, o) /\ Phase(v.xfer[o], o)
        /\ v.xfer[o].state # "NONE"
    BY <1>2 DEF Partly
  <2> HIDE DEF o
  <2>2. May(v.xfer[o], u.xfer[o]) /\ Current(u, o) /\ v.xfer[o] \in Fields
    BY <1>7, <1>8, <2>1
  <2>3. Phase(u.xfer[o], o)
    BY <2>1, <2>2, MayKeepsPhase
  <2>4. u.xfer[o].state # "NONE"
    BY <2>1, <2>2, MayIsAlike
  <2> QED BY <2>2, <2>3, <2>4 DEF o
<1>10. \A i \in 1 .. j : i = j \/ i \in 1 .. j - 1
  OBVIOUS
<1>11. \A i \in 1 .. j : /\ Current(u, files[i]) /\ Phase(u.xfer[files[i]], files[i])
                         /\ u.xfer[files[i]].state # "NONE"
  <2>1. Current(u, files[j]) /\ Phase(u.xfer[files[j]], files[j]) /\ u.xfer[files[j]].state # "NONE"
    BY <1>6 DEF t, Handles
  <2> QED BY <1>9, <1>10, <2>1
<1>12. ASSUME NEW o \in Transfer, \A i \in 1 .. j : files[i] # o
       PROVE  May(w.xfer[o], u.xfer[o]) /\ (Current(w, o) => Current(u, o))
  <2>1. o # t /\ \A i \in 1 .. j - 1 : files[i] # o
    <3>1. j \in 1 .. j /\ \A i \in 1 .. j - 1 : i \in 1 .. j
      OBVIOUS
    <3> QED BY <1>12, <3>1 DEF t
  <2>2. May(w.xfer[o], v.xfer[o]) /\ (Current(w, o) => Current(v, o))
    BY <2>1 DEF Partly
  <2>3. May(v.xfer[o], u.xfer[o]) /\ (Current(v, o) => Current(u, o))
    BY <1>8, <2>1
  <2> QED BY <1>7, <2>2, <2>3, MayOnward
<1>13. InOrder(u, c)
  BY <1>6 DEF Handles, Spares
<1> QED BY <1>11, <1>12, <1>13 DEF Partly

\* The suggest loop: every file gets its row, whatever is sent fails.
LEMMA SuggestAllKeeps ==
    ASSUME NEW w, NEW c, InOrder(w, c), NEW n \in Nat, NEW files \in [1 .. n -> Transfer],
           \A i, j \in 1 .. n : files[i] = files[j] => i = j,
           \A i \in 1 .. n : w.xfer[files[i]].state = "NONE",
           NEW m \in Method, NEW local \in BOOLEAN, NEW ssl \in BOOLEAN,
           NEW u \in SuggestAll(w, files, m, local, ssl)
    PROVE  Partly(w, u, c, files, n)
<1>1. DOMAIN files = 1 .. n
  OBVIOUS
<1>2. PICK f : Loops(f, w, n, files, m, local, ssl)
  BY <1>1, PassesUnfold
<1> DEFINE Done == {j \in Nat : j <= n => \A v \in f[j] : Partly(w, v, c, files, j)}
<1>3. 0 \in Done
  <2>1. Partly(w, w, c, files, 0)
    BY DEF Partly, May
  <2> QED BY <1>2, <2>1 DEF Loops
<1>4. ASSUME NEW j \in Done PROVE j + 1 \in Done
  <2> SUFFICES ASSUME j + 1 <= n, NEW u0 \in f[j + 1] PROVE Partly(w, u0, c, files, j + 1)
    OBVIOUS
  <2>1. j + 1 \in 1 .. n /\ (j + 1) - 1 = j
    OBVIOUS
  <2>2. PICK v \in f[j] : u0 \in SuggestFile(v, files[j + 1], m, local, ssl)
    BY <1>2, <2>1 DEF Loops, Passed, Then
  <2>3. Partly(w, v, c, files, (j + 1) - 1)
    BY <2>1
  <2> QED BY <2>1, <2>2, <2>3, PassKeeps
<1>5. Done = Nat
  <2> HIDE DEF Done
  <2>1. Done \in SUBSET Nat
    BY DEF Done
  <2> QED BY <1>3, <1>4, <2>1, Lists!SetInduction
<1>6. n \in Done
  BY <1>5
<1> QED BY <1>2, <1>6 DEF Loops

-----------------------------------------------------------------------------
(* The invariant.                                                          *)

Ordered ==
    /\ InOrder(Now, cleared)
    /\ \A t \in Transfer : Current(Now, t) /\ Phase(xfer[t], t)

\* The menu and the dialog are open on a transfer that exists.
Pointed ==
    /\ popup \in Transfer \cup {Nobody}
    /\ menu \in BOOLEAN /\ dialog \in BOOLEAN
    /\ edits \in 0 .. MaxEdits
    /\ cleared \subseteq Transfer \X Window
    /\ menu \/ dialog => popup \in Transfer
    /\ popup \in Transfer => xfer[popup].state # "NONE"

Inv == Ordered /\ Pointed

\* What a step may do to any transfer.
Proceeds ==
    \A t \in Transfer :
        /\ xfer[t].verdict # "PENDING" => xfer'[t].verdict = xfer[t].verdict
        /\ xfer[t].state # "NONE" => xfer'[t].state # "NONE"

\* A handler that only does what it may do to any transfer.
LEMMA SparedIsOrdered ==
    ASSUME Ordered, NEW u, Spares(Now, u, cleared, Transfer), Become(u), cleared' = cleared
    PROVE  Ordered' /\ Proceeds
<1>1. Now' = u
  <2>1. u = [ctl |-> u.ctl, xfer |-> u.xfer, row |-> u.row]
    BY DEF Spares, InOrder, Kept, Typed
  <2> QED BY <2>1 DEF Become, Now
<1>2. InOrder(Now, cleared) /\ \A t \in Transfer : xfer[t] \in Fields
  BY DEF Ordered, InOrder, Kept, Typed, Now
<1>3. \A t \in Transfer : /\ May(xfer[t], xfer'[t]) /\ Current(Now, t) /\ Phase(xfer[t], t)
                          /\ Current(u, t)
  BY DEF Spares, Ordered, Become, Now
<1>4. \A t \in Transfer : Phase(xfer'[t], t)
  BY <1>2, <1>3, MayKeepsPhase
<1>5. Ordered'
  <2>1. InOrder(u, cleared)
    BY DEF Spares
  <2> QED BY <1>1, <1>3, <1>4, <2>1 DEF Ordered
<1>6. Proceeds
  BY <1>2, <1>3, MayIsAlike DEF Proceeds, Alike
<1> QED BY <1>5, <1>6

\* A handler of t that settles it.
LEMMA SettledIsOrdered ==
    ASSUME Ordered, NEW t \in Transfer, NEW u, Settles(Now, u, cleared, t), Become(u),
           cleared' = cleared,
           xfer[t].verdict # "PENDING" => u.xfer[t].verdict = xfer[t].verdict
    PROVE  Ordered' /\ Proceeds
<1>1. Now' = u
  <2>1. u = [ctl |-> u.ctl, xfer |-> u.xfer, row |-> u.row]
    BY DEF Settles, Handles, Spares, InOrder, Kept, Typed
  <2> QED BY <2>1 DEF Become, Now
<1>2. InOrder(Now, cleared) /\ \A o \in Transfer : xfer[o] \in Fields
  BY DEF Ordered, InOrder, Kept, Typed, Now
<1>3. \A o \in Transfer \ {t} : /\ May(xfer[o], xfer'[o]) /\ Current(Now, o) /\ Phase(xfer[o], o)
                                /\ Current(u, o)
  BY DEF Settles, Handles, Spares, Ordered, Become, Now
<1>4. \A o \in Transfer \ {t} : Phase(xfer'[o], o)
  BY <1>2, <1>3, MayKeepsPhase
<1>5. Current(u, t) /\ Phase(xfer'[t], t) /\ xfer'[t].state # "NONE" /\ InOrder(u, cleared)
  BY DEF Settles, Handles, Spares, Become
<1>6. Ordered'
  BY <1>1, <1>3, <1>4, <1>5 DEF Ordered
<1>7. Proceeds
  <2>1. \A o \in Transfer \ {t} : /\ xfer[o].verdict # "PENDING" => xfer'[o].verdict = xfer[o].verdict
                                  /\ xfer[o].state # "NONE" => xfer'[o].state # "NONE"
    BY <1>2, <1>3, MayIsAlike DEF Alike
  <2>2. xfer[t].verdict # "PENDING" => xfer'[t].verdict = xfer[t].verdict
    BY DEF Become
  <2> QED BY <1>5, <2>1, <2>2 DEF Proceeds
<1> QED BY <1>6, <1>7

\* The pointers, after a handler that leaves them alone or a choice in the menu.
LEMMA PointersKept ==
    ASSUME Pointed, Proceeds, UNCHANGED windows
    PROVE  Pointed'
<1>1. popup \in Transfer => xfer'[popup].state # "NONE"
  BY DEF Pointed, Proceeds
<1> QED BY <1>1 DEF Pointed, windows

LEMMA PointersChosen ==
    ASSUME Pointed, Proceeds, NEW shown \in BOOLEAN, Choose(shown),
           edits' \in 0 .. MaxEdits, cleared' \subseteq Transfer \X Window
    PROVE  Pointed'
<1>1. popup \in Transfer /\ xfer'[popup].state # "NONE"
  BY DEF Pointed, Proceeds, Choose
<1>2. Nobody \notin Transfer
  BY ViewsAssumption DEF Transfer
<1> QED BY <1>1, <1>2 DEF Pointed, Choose

\* What the invariant says of one transfer.
LEMMA InvOfOne ==
    ASSUME Ordered, NEW t \in Transfer
    PROVE  /\ Now.xfer = xfer /\ Now.ctl = ctl /\ Now.row = row
           /\ InOrder(Now, cleared)
           /\ xfer[t] \in Fields /\ Counts(xfer[t]) /\ Phase(xfer[t], t) /\ Current(Now, t)
           /\ xfer[t].state \in Early => Fresh(xfer[t])
<1>1. Now.xfer = xfer /\ Now.ctl = ctl /\ Now.row = row
  BY DEF Now
<1>2. InOrder(Now, cleared) /\ Phase(xfer[t], t) /\ Current(Now, t)
  BY DEF Ordered
<1>3. xfer[t] \in Fields /\ Counts(xfer[t])
  BY <1>1, <1>2 DEF InOrder, Kept, Typed
<1> QED BY <1>1, <1>2, <1>3 DEF Counts

\* The states that x may be given between two handlers.
MaySettle(x, s) ==
    /\ MayEnter(x, s)
    /\ s \notin {"SETUP_PENDING", "PASSIVE_RESOLVE_ACCEPT_IP"}
    /\ ~x.entry \/ x.verdict = "ACCEPTED"
    /\ s \in {"ACTIVE_RESOLVE_SRC_IP", "VERDICT_PENDING"} => x.verdict = "PENDING"

LEMMA EntersKeeps ==
    ASSUME NEW w, NEW c, NEW t \in Transfer, NEW s, InOrder(w, c), MaySettle(w.xfer[t], s)
    PROVE  /\ Settles(w, SetState(w, t, s), c, t)
           /\ SetState(w, t, s).xfer[t].verdict = w.xfer[t].verdict
<1> DEFINE u == SetState(w, t, s)
<1>1. MayEnter(w.xfer[t], s)
  BY DEF MaySettle
<1>2. /\ Spares(w, u, c, Transfer \ {t}) /\ Current(u, t) /\ u.xfer[t].state = s
      /\ u.xfer[t].verdict = w.xfer[t].verdict /\ u.xfer[t].entry = w.xfer[t].entry
  <2>1. Entered(w, u, c, t, s)
    BY <1>1, SetStateKeeps
  <2> QED BY <2>1 DEF Entered
<1> HIDE DEF u
<1>3. Phase(u.xfer[t], t)
  BY <1>2 DEF Phase, Ended, MaySettle, MayEnter, State
<1> QED BY <1>2, <1>3 DEF u, Settles, Handles, MaySettle, MayEnter

-----------------------------------------------------------------------------
(* The user.                                                               *)

\* A handler whose pointers are those of a choice or unchanged.
Step == Inv' /\ Proceeds

\* One that gives t a new state and announces it.
LEMMA EnteredIsStep ==
    ASSUME Inv, NEW t \in Transfer, NEW s, MaySettle(xfer[t], s),
           Become(SetState(Now, t, s)), cleared' = cleared
    PROVE  Ordered' /\ Proceeds
<1>1. InOrder(Now, cleared) /\ Now.xfer = xfer
  BY InvOfOne DEF Inv
<1> DEFINE u == SetState(Now, t, s)
<1>2. Settles(Now, u, cleared, t) /\ u.xfer[t].verdict = Now.xfer[t].verdict
  BY <1>1, EntersKeeps
<1> HIDE DEF u
<1>3. u.xfer[t].verdict = xfer[t].verdict
  BY <1>1, <1>2
<1>4. Become(u)
  BY DEF u
<1> QED BY <1>2, <1>3, <1>4, SettledIsOrdered DEF Inv

\* One that aborts t.
LEMMA AbortedIsStep ==
    ASSUME Inv, NEW t \in Transfer, Become(Abort(Now, t)), cleared' = cleared
    PROVE  Ordered' /\ Proceeds
<1>1. InOrder(Now, cleared)
  BY DEF Inv, Ordered
<1> DEFINE u == Abort(Now, t)
<1>2. Spares(Now, u, cleared, Transfer)
  BY <1>1, AbortKeeps
<1> HIDE DEF u
<1>3. Become(u)
  BY DEF u
<1> QED BY <1>2, <1>3, SparedIsOrdered DEF Inv

\* One that announces another value of its transfer.
LEMMA PutIsStep ==
    ASSUME Inv, NEW t \in Transfer, NEW y, Replaces(y, xfer[t]), Phase(y, t),
           y.verdict = xfer[t].verdict, xfer[t].state # "NONE"
    PROVE  Settles(Now, Put(Now, t, y), cleared, t) /\ Put(Now, t, y).xfer[t] = y
<1>1. InOrder(Now, cleared) /\ Now.xfer = xfer
  BY InvOfOne DEF Inv
<1> DEFINE u == Put(Now, t, y)
<1>2. /\ Spares(Now, u, cleared, Transfer \ {t})
      /\ Current(u, t)
      /\ u.xfer[t] = y
      /\ u.xfer = [Now.xfer EXCEPT ![t] = y]
      /\ u.ctl = Now.ctl
  BY <1>1, PutKeeps
<1> HIDE DEF u
<1>3. y.state # "NONE"
  BY DEF Replaces
<1> QED BY <1>2, <1>3 DEF u, Settles, Handles

\* Every file that is suggested gets its row.
LEMMA UISuggestKeeps ==
    ASSUME Inv, NEW files \in SetToAllKPermutations(Outgoing), NEW m \in Method,
           NEW local \in BOOLEAN, NEW ssl \in BOOLEAN, UISuggest(files, m, local, ssl)
    PROVE  Step
<1>1. PICK s \in SUBSET Outgoing : files \in SetToSeqs(s)
  BY DEF SetToAllKPermutations
<1> DEFINE n == Cardinality(s)
<1>2. n \in Nat
  BY ViewsAssumption, FS_Subset, FS_CardinalityType
<1>3. files \in [1 .. n -> Transfer] /\ DOMAIN files = 1 .. n
      /\ \A i, j \in 1 .. n : files[i] = files[j] => i = j
  BY <1>1 DEF SetToSeqs, Transfer
<1>4. PICK u \in SuggestAll(Now, files, m, local, ssl) : Become(u)
  BY DEF UISuggest, SuggestAll
<1>5. cleared' = cleared /\ UNCHANGED windows /\ \A i \in 1 .. n : xfer[files[i]].state = "NONE"
  BY <1>3 DEF UISuggest, windows
<1> HIDE DEF n
<1>6. InOrder(Now, cleared) /\ Now.xfer = xfer
  BY DEF Inv, Ordered, Now
<1>7. Partly(Now, u, cleared, files, n)
  BY <1>2, <1>3, <1>4, <1>5, <1>6, SuggestAllKeeps
<1>8. Now' = u
  <2>1. u = [ctl |-> u.ctl, xfer |-> u.xfer, row |-> u.row]
    BY <1>7 DEF Partly, InOrder, Kept, Typed
  <2> QED BY <1>4, <2>1 DEF Become, Now
<1>9. ASSUME NEW t \in Transfer
      PROVE  /\ Current(u, t) /\ Phase(u.xfer[t], t)
             /\ xfer[t].verdict # "PENDING" => u.xfer[t].verdict = xfer[t].verdict
             /\ xfer[t].state # "NONE" => u.xfer[t].state # "NONE"
  <2>1. xfer[t] \in Fields /\ Phase(xfer[t], t) /\ Current(Now, t)
    BY InvOfOne DEF Inv
  <2>2. CASE \A i \in 1 .. n : files[i] # t
    <3>1. May(xfer[t], u.xfer[t]) /\ Current(u, t)
      BY <1>6, <1>7, <2>1, <2>2 DEF Partly
    <3> QED BY <2>1, <3>1, MayKeepsPhase, MayIsAlike DEF Alike
  <2>3. CASE \E i \in 1 .. n : files[i] = t
    <3>1. Current(u, t) /\ Phase(u.xfer[t], t) /\ u.xfer[t].state # "NONE"
      BY <1>7, <2>3 DEF Partly
    <3>2. xfer[t].verdict = "PENDING"
      BY <1>5, <2>1, <2>3 DEF Phase
    <3> QED BY <3>1, <3>2
  <2> QED BY <2>2, <2>3
<1>10. Ordered'
  BY <1>4, <1>5, <1>7, <1>8, <1>9 DEF Ordered, Partly, Become
<1>11. Proceeds
  BY <1>4, <1>9 DEF Proceeds, Become
<1> QED BY <1>5, <1>10, <1>11, PointersKept DEF Inv, Step

\* A transfer that has a row exists.
LEMMA FoundExists ==
    ASSUME Inv, NEW t \in Transfer, NEW k \in Window, Find(row[k], t) # 0
    PROVE  xfer[t].state # "NONE"
<1>1. Now.xfer = xfer /\ Now.row = row
  BY DEF Now
<1>2. Typed(Now) /\ Listed(Now, cleared, t)
  BY DEF Inv, Ordered, InOrder, Kept
<1>3. Tidy(row[k], Columns(k))
  BY <1>1, <1>2 DEF Typed
<1>4. \E r \in ToSet(row[k]) : r.of = t
  BY <1>3, FindFinds
<1> QED BY <1>1, <1>2, <1>4 DEF Listed, HasRow

LEMMA ClickKeeps ==
    ASSUME Inv, NEW t \in Transfer, Click(t)
    PROVE  Step
<1>1. "UNAPPROVED" \in Window
  BY DEF Window
<1>2. xfer[t].state # "NONE"
  BY <1>1, FoundExists DEF Click
<1>3. Now' = Now /\ cleared' = cleared /\ xfer' = xfer
  BY DEF Click, Now
<1>4. Ordered'
  BY <1>3 DEF Inv, Ordered
<1>5. Proceeds
  BY <1>3 DEF Proceeds
<1>6. Pointed'
  BY <1>2 DEF Inv, Pointed, Click
<1> QED BY <1>4, <1>5, <1>6 DEF Step, Inv

\* The row of t is cleared from the window of its verdict.
LEMMA ClearedIsStep ==
    ASSUME Inv, NEW t \in Transfer, xfer[t].state # "NONE",
           Become(RemoveRow(Now, WindowOf(xfer[t]), t)),
           cleared' = cleared \cup {<<t, WindowOf(xfer[t])>>}
    PROVE  Ordered' /\ Proceeds /\ cleared' \subseteq Transfer \X Window
<1> DEFINE k == WindowOf(xfer[t])
           u == RemoveRow(Now, k, t)
<1>1. Now.xfer = xfer /\ Now.row = row /\ k \in Window
  BY DEF Now, WindowOf, Window
<1>2. /\ Typed(Now)
      /\ \A o \in Transfer : /\ Counts(xfer[o]) /\ Listed(Now, cleared, o)
                             /\ WasThere(Now, cleared, o) /\ Progressed(Now, o, TRUE)
                             /\ Current(Now, o) /\ Phase(xfer[o], o)
  BY <1>1 DEF Inv, Ordered, InOrder, Kept
<1>3. /\ Typed(u) /\ u.ctl = Now.ctl /\ u.xfer = Now.xfer
      /\ ToSet(u.row[k]) = {r \in ToSet(Now.row[k]) : r.of # t}
      /\ \A l \in Window \ {k} : u.row[l] = Now.row[l]
  BY <1>1, <1>2, RowRemoved
<1>4. Become(u) /\ cleared' = cleared \cup {<<t, k>>}
  OBVIOUS
<1>5. xfer[t].verdict = "ACCEPTED" <=> k = "APPROVED"
  BY DEF WindowOf
<1> HIDE DEF u, k
<1>6. Now' = u /\ xfer' = xfer
  <2>1. u = [ctl |-> u.ctl, xfer |-> u.xfer, row |-> u.row]
    BY <1>3 DEF Typed
  <2> QED BY <1>1, <1>3, <1>4, <2>1 DEF Become, Now
<1>7. \A l \in Window : \A r : r \in ToSet(u.row[l]) <=>
         r \in ToSet(Now.row[l]) /\ (l = k => r.of # t)
  BY <1>3
<1>8. Window = {"UNAPPROVED", "APPROVED"}
  BY DEF Window
<1>9. ASSUME NEW o \in Transfer
      PROVE  /\ Listed(u, cleared', o) /\ WasThere(u, cleared', o)
             /\ Progressed(u, o, TRUE) /\ Current(u, o)
  <2>1. \A l \in Window : HasRow(u, l, o) <=> HasRow(Now, l, o) /\ ~(o = t /\ l = k)
    BY <1>7 DEF HasRow
  <2>2. \A l \in Window : <<o, l>> \in cleared' <=> <<o, l>> \in cleared \/ (o = t /\ l = k)
    BY <1>4
  <2>3. Listed(u, cleared', o)
    BY <1>2, <1>3, <2>1, <2>2 DEF Listed
  <2>4. WasThere(u, cleared', o)
    BY <1>1, <1>2, <1>3, <1>5, <1>8, <2>2 DEF WasThere
  <2>5. Progressed(u, o, TRUE)
    BY <1>2, <1>3, <1>7, <1>8 DEF Progressed
  <2>6. Current(u, o)
    <3>1. /\ \A r \in ToSet(u.row["UNAPPROVED"]) : r \in ToSet(Now.row["UNAPPROVED"])
          /\ \A r \in ToSet(u.row["APPROVED"]) : r \in ToSet(Now.row["APPROVED"])
      BY <1>7, <1>8
    <3>2. u.xfer = Now.xfer /\ Current(Now, o)
      BY <1>2, <1>3
    <3> QED BY <3>1, <3>2 DEF Current
  <2> QED BY <2>3, <2>4, <2>5, <2>6
<1>10. InOrder(u, cleared')
  BY <1>1, <1>2, <1>3, <1>9 DEF InOrder, Kept
<1>11. Ordered'
  BY <1>2, <1>6, <1>9, <1>10 DEF Ordered
<1>12. Proceeds
  BY <1>6 DEF Proceeds
<1>13. cleared' \subseteq Transfer \X Window
  BY <1>1, <1>4 DEF Inv, Pointed
<1> QED BY <1>11, <1>12, <1>13

\* The menu.
LEMMA ChoosesKeep ==
    ASSUME Inv, MenuNone \/ MenuEditSettings
    PROVE  Step
<1>1. Now' = Now /\ cleared' = cleared /\ xfer' = xfer /\ edits' = edits
  BY DEF MenuNone, MenuEditSettings, Now
<1>2. Ordered'
  BY <1>1 DEF Inv, Ordered
<1>3. Proceeds
  BY <1>1 DEF Proceeds
<1>4. PICK shown \in BOOLEAN : Choose(shown)
  <2>1. dialog \in BOOLEAN /\ (popup \in Incoming) \in BOOLEAN
    BY DEF Inv, Pointed
  <2>2. Choose(dialog) \/ Choose(popup \in Incoming)
    BY DEF MenuNone, MenuEditSettings
  <2> QED BY <2>1, <2>2, Zenon
<1>5. Pointed'
  BY <1>1, <1>3, <1>4, PointersChosen DEF Inv, Pointed
<1> QED BY <1>2, <1>3, <1>5 DEF Step, Inv

\* The state a menu item asks for fits the verdict.
LEMMA SetupIsPending ==
    ASSUME Inv, NEW t \in Transfer,
           xfer[t].state \in {"SETUP_PENDING", "ACTIVE_RESOLVE_SRC_IP", "VERDICT_PENDING"}
    PROVE  xfer[t].verdict = "PENDING" /\ ~xfer[t].entry /\ Fresh(xfer[t])
<1>1. Phase(xfer[t], t) /\ (xfer[t].state \in Early => Fresh(xfer[t]))
  BY InvOfOne DEF Inv
<1> QED BY <1>1 DEF Phase, Early, State

LEMMA MenuAcceptKeeps ==
    ASSUME Inv, MenuAccept
    PROVE  Step
<1> DEFINE t == popup
<1>1. t \in Transfer /\ t \in Incoming /\ xfer[t].state = "SETUP_PENDING"
  BY DEF MenuAccept, Transfer
<1>2. cleared' = cleared /\ edits' = edits /\ Choose(dialog) /\ dialog \in BOOLEAN
  BY DEF MenuAccept, Inv, Pointed
<1>3. \/ \E w \in SetupPassiveAccept(Now, t) : Become(w)
      \/ Become(SetState(Now, t, "ACTIVE_RESOLVE_SRC_IP"))
  BY DEF MenuAccept
<1> HIDE DEF t
<1>4. xfer[t].verdict = "PENDING" /\ ~xfer[t].entry /\ Fresh(xfer[t])
  BY <1>1, SetupIsPending
<1>5. Ordered' /\ Proceeds
  <2>1. CASE \E w \in SetupPassiveAccept(Now, t) : Become(w)
    <3>1. PICK u \in SetupPassiveAccept(Now, t) : Become(u)
      BY <2>1
    <3>2. InOrder(Now, cleared) /\ Now.xfer = xfer
      BY DEF Inv, Ordered, Now
    <3>3. /\ Handles(Now, u, cleared, t) /\ Phase(u.xfer[t], t) /\ u.xfer[t].state # "NONE"
          /\ t \notin Incoming => u.xfer[t].verdict = "ACCEPTED"
      <4>1. /\ Now.xfer[t].state # "NONE" /\ Fresh(Now.xfer[t]) /\ ~Now.xfer[t].entry
            /\ Now.xfer[t].verdict = IF t \in Incoming THEN "PENDING" ELSE "ACCEPTED"
        BY <1>1, <1>4, <3>2
      <4> QED BY <1>1, <3>1, <3>2, <4>1, SetupPassiveAcceptKeeps
    <3>4. Settles(Now, u, cleared, t)
      BY <3>3 DEF Settles
    <3> QED BY <1>1, <1>2, <1>4, <3>1, <3>4, SettledIsOrdered DEF Inv
  <2>2. CASE Become(SetState(Now, t, "ACTIVE_RESOLVE_SRC_IP"))
    <3>1. MaySettle(xfer[t], "ACTIVE_RESOLVE_SRC_IP")
      BY <1>1, <1>4 DEF MaySettle, MayEnter, State
    <3> QED BY <1>1, <1>2, <2>2, <3>1, EnteredIsStep
  <2> QED BY <1>3, <2>1, <2>2
<1>6. Pointed'
  BY <1>2, <1>5, PointersChosen DEF Inv, Pointed
<1> QED BY <1>5, <1>6 DEF Step, Inv

LEMMA MenuDeclineKeeps ==
    ASSUME Inv, MenuDecline
    PROVE  Step
<1> DEFINE t == popup
<1>1. t \in Transfer /\ xfer[t].state = "SETUP_PENDING"
  BY DEF MenuDecline, Transfer
<1>2. cleared' = cleared /\ edits' = edits /\ Choose(dialog) /\ dialog \in BOOLEAN
  BY DEF MenuDecline, Inv, Pointed
<1>3. PICK v \in {"ACCEPTED", "DECLINED"} : v = "DECLINED"
  OBVIOUS
<1>4. PICK u \in SendVerdict(Now, t, v) : Become(u)
  BY <1>3 DEF MenuDecline
<1> HIDE DEF t
<1>5. xfer[t].verdict = "PENDING" /\ ~xfer[t].entry /\ Fresh(xfer[t])
  BY <1>1, SetupIsPending
<1>6. InOrder(Now, cleared) /\ Now.xfer = xfer
  BY DEF Inv, Ordered, Now
<1>7. /\ Handles(Now, u, cleared, t)
      /\ u.xfer[t].verdict = v /\ u.xfer[t].entry = Now.xfer[t].entry
      /\ Fresh(u.xfer[t])
      /\ u.xfer[t].state \in {Now.xfer[t].state} \cup Ended
      /\ v = "DECLINED" => u.xfer[t].state \in Ended
  <2>1. /\ Now.xfer[t].state # "NONE" /\ Fresh(Now.xfer[t])
        /\ Now.xfer[t].verdict = "PENDING"
    BY <1>1, <1>5, <1>6
  <2> QED BY <1>1, <1>4, <1>6, <2>1, SendVerdictKeeps
<1>8. Settles(Now, u, cleared, t)
  BY <1>3, <1>5, <1>6, <1>7 DEF Settles, Phase, Ended
<1>9. Ordered' /\ Proceeds
  BY <1>1, <1>2, <1>4, <1>5, <1>8, SettledIsOrdered DEF Inv
<1>10. Pointed'
  BY <1>2, <1>9, PointersChosen DEF Inv, Pointed
<1> QED BY <1>9, <1>10 DEF Step, Inv

LEMMA MenuAbortKeeps ==
    ASSUME Inv, MenuAbort
    PROVE  Step
<1>1. /\ popup \in Transfer /\ cleared' = cleared /\ edits' = edits
      /\ Choose(dialog) /\ dialog \in BOOLEAN /\ Become(Abort(Now, popup))
  BY DEF MenuAbort, Choose, Inv, Pointed
<1>2. Ordered' /\ Proceeds
  BY <1>1, AbortedIsStep
<1>3. Pointed'
  BY <1>1, <1>2, PointersChosen DEF Inv, Pointed
<1> QED BY <1>2, <1>3 DEF Step, Inv

LEMMA MenuClearKeeps ==
    ASSUME Inv, MenuClear
    PROVE  Step
<1>1. /\ popup \in Transfer /\ xfer[popup].state # "NONE"
      /\ Choose(dialog) /\ dialog \in BOOLEAN
      /\ Become(RemoveRow(Now, WindowOf(xfer[popup]), popup))
      /\ cleared' = cleared \cup {<<popup, WindowOf(xfer[popup])>>}
  BY DEF MenuClear, Choose, Inv, Pointed
<1>2. edits' \in 0 .. MaxEdits
  BY ViewsAssumption DEF MenuClear, Edit, Inv, Pointed
<1>3. Ordered' /\ Proceeds /\ cleared' \subseteq Transfer \X Window
  BY <1>1, ClearedIsStep
<1>4. Pointed'
  BY <1>1, <1>2, <1>3, PointersChosen DEF Inv
<1> QED BY <1>3, <1>4 DEF Step, Inv

\* A setting of a transfer that its phase and progress do not depend on.
Sets(x, y) ==
    /\ y \in Fields
    /\ y.state = x.state /\ y.verdict = x.verdict /\ y.entry = x.entry /\ y.con = x.con
    /\ y.current = x.current /\ y.last = x.last /\ y.from = x.from /\ y.zero = x.zero

LEMMA SetsReplaces ==
    ASSUME NEW x \in Fields, NEW y, NEW t, Counts(x), Phase(x, t), Sets(x, y)
    PROVE  Replaces(y, x) /\ Phase(y, t)
<1>1. Replaces(y, x)
  BY DEF Sets, Replaces, Counts, Fresh, Fits, Follows, Tells
<1>2. Phase(y, t)
  BY DEF Sets, Phase
<1> QED BY <1>1, <1>2

\* The settings dialog works on a transfer in any state.
LEMMA ApplyKeeps ==
    ASSUME Inv, NEW local \in BOOLEAN, NEW ssl \in BOOLEAN, NEW directory \in Directory,
           NEW position \in Position, Apply(local, ssl, directory, position)
    PROVE  Step
<1> DEFINE t == popup
           x == xfer[t]
           y == IF x.meth = "ACTIVE" THEN [x EXCEPT !.ssl = ssl] ELSE [x EXCEPT !.local = local]
           v == Put(Now, t, x)
           u == Put(v, t, y)
           m == [u.xfer[t] EXCEPT !.directory = directory,
                                  !.applied = IF directory = x.directory THEN @ ELSE x.state]
           z == [m EXCEPT !.position = position]
           moved == [u EXCEPT !.xfer[t].directory = directory,
                              !.xfer[t].applied =
                                  IF directory = x.directory THEN @ ELSE x.state]
<1>1. t \in Transfer /\ x.state # "NONE"
  BY DEF Apply, Inv, Pointed
<1>2. /\ cleared' = cleared /\ menu' = menu /\ dialog' = FALSE /\ popup' = Nobody
      /\ edits' \in 0 .. MaxEdits
  BY ViewsAssumption DEF Apply, Edit, Inv, Pointed
<1>3. Become([moved EXCEPT !.xfer[t].position = position]) \/ Become(moved)
  BY DEF Apply
<1> HIDE DEF t
<1>4. x \in Fields /\ Counts(x) /\ Phase(x, t) /\ InOrder(Now, cleared) /\ Now.xfer = xfer
  BY <1>1, InvOfOne DEF Inv
<1>5. y \in Fields /\ Sets(x, y) /\ Sets(x, x) /\ y.directory = x.directory
  BY <1>4 DEF Fields, Sets
<1>6. Replaces(x, x) /\ Replaces(y, x) /\ Phase(y, t)
  BY <1>4, <1>5, SetsReplaces
<1> HIDE DEF y
<1>7. Settles(Now, v, cleared, t) /\ v.xfer[t] = x
  BY <1>1, <1>4, <1>6, PutIsStep
<1> HIDE DEF v
<1>8. InOrder(v, cleared) /\ Spares(Now, v, cleared, Transfer \ {t})
  BY <1>7 DEF Settles, Handles, Spares
<1>9. /\ Spares(v, u, cleared, Transfer \ {t})
      /\ Current(u, t)
      /\ u.xfer[t] = y
      /\ u.xfer = [v.xfer EXCEPT ![t] = y]
      /\ u.ctl = v.ctl
  <2>1. Replaces(y, v.xfer[t])
    BY <1>6, <1>7
  <2>2. /\ Spares(v, Put(v, t, y), cleared, Transfer \ {t})
        /\ Current(Put(v, t, y), t)
        /\ Put(v, t, y).xfer[t] = y
        /\ Put(v, t, y).xfer = [v.xfer EXCEPT ![t] = y]
        /\ Put(v, t, y).ctl = v.ctl
    <3> HIDE DEF x
    <3> QED BY <1>1, <1>8, <2>1, PutKeeps
  <2> QED BY <2>2
<1> HIDE DEF u
<1>10. Handles(Now, u, cleared, t) /\ InOrder(u, cleared)
  BY <1>1, <1>4, <1>8, <1>9, HandlesOnward DEF Handles, Spares
<1>11. /\ moved = Changed(u, t, m)
       /\ [moved EXCEPT !.xfer[t].position = position] = Changed(u, t, z)
  <2>1. Typed(u)
    BY <1>10 DEF InOrder, Kept
  <2> QED BY <1>1, <2>1 DEF Typed, Changed
<1>12. /\ Unshown(u.xfer[t], m) /\ Unshown(u.xfer[t], z)
       /\ m.state = y.state /\ m.verdict = y.verdict /\ m.entry = y.entry /\ m.con = y.con
       /\ z.state = y.state /\ z.verdict = y.verdict /\ z.entry = y.entry /\ z.con = y.con
  <2>1. y \in Fields /\ Counts(y) /\ y.state = x.state /\ y.directory = x.directory
    BY <1>5, <1>6 DEF Replaces, Sets
  <2>2. position \in 0 .. Size
    BY ViewsAssumption
  <2>3. /\ m \in Fields /\ z \in Fields
        /\ (m.directory = y.directory /\ m.applied = y.applied) \/ m.applied = y.state
        /\ (z.directory = y.directory /\ z.applied = y.applied) \/ z.applied = y.state
    BY <1>4, <1>9, <2>1, <2>2 DEF Fields
  <2>4. /\ m.state = y.state /\ m.verdict = y.verdict /\ m.entry = y.entry /\ m.con = y.con
        /\ m.meth = y.meth /\ m.paused = y.paused /\ m.ssl = y.ssl /\ m.address = y.address
        /\ m.current = y.current /\ m.last = y.last /\ m.from = y.from /\ m.zero = y.zero
    BY <1>9, <2>1 DEF Fields
  <2>5. /\ z.state = y.state /\ z.verdict = y.verdict /\ z.entry = y.entry /\ z.con = y.con
        /\ z.meth = y.meth /\ z.paused = y.paused /\ z.ssl = y.ssl /\ z.address = y.address
        /\ z.current = y.current /\ z.last = y.last /\ z.from = y.from /\ z.zero = y.zero
    BY <1>9, <2>1 DEF Fields
  <2> HIDE DEF m, z
  <2>6. Unshown(y, m)
    BY <2>1, <2>3, <2>4 DEF Unshown, Counts, Fresh, Fits, Follows, Tells
  <2>7. Unshown(y, z)
    BY <2>1, <2>3, <2>5 DEF Unshown, Counts, Fresh, Fits, Follows, Tells
  <2> QED BY <1>9, <2>4, <2>5, <2>6, <2>7
<1> HIDE DEF m, z, moved
<1>13. ASSUME NEW n, Unshown(u.xfer[t], n), Become(Changed(u, t, n)),
              n.state = y.state, n.verdict = y.verdict, n.entry = y.entry, n.con = y.con
       PROVE  Ordered' /\ Proceeds
  <2> DEFINE r == Changed(u, t, n)
  <2>1. /\ Spares(u, r, cleared, Transfer \ {t})
        /\ Current(u, t) => Current(r, t)
        /\ r.xfer[t] = n
        /\ r.ctl = u.ctl
    BY <1>1, <1>10, <1>13, UnshownKeeps
  <2>2. Become(r)
    BY <1>13
  <2> HIDE DEF r
  <2>3. Handles(u, r, cleared, t)
    BY <1>9, <2>1 DEF Handles
  <2>4. Handles(Now, r, cleared, t)
    BY <1>1, <1>4, <1>10, <2>3, HandlesOnward DEF Handles
  <2>5. Phase(n, t) /\ n.state # "NONE" /\ n.verdict = xfer[t].verdict
    BY <1>1, <1>5, <1>6, <1>13 DEF Phase, Sets
  <2>6. Settles(Now, r, cleared, t)
    BY <2>1, <2>4, <2>5 DEF Settles
  <2> QED BY <1>1, <1>2, <2>1, <2>2, <2>5, <2>6, SettledIsOrdered DEF Inv
<1>14. Ordered' /\ Proceeds
  BY <1>3, <1>11, <1>12, <1>13
<1>15. Pointed'
  <2>1. Nobody \notin Transfer /\ ~menu
    BY ViewsAssumption DEF Transfer, Apply
  <2> QED BY <1>2, <2>1 DEF Inv, Pointed
<1> QED BY <1>14, <1>15 DEF Step, Inv

LEMMA CancelKeeps ==
    ASSUME Inv, Cancel
    PROVE  Step
<1>1. Now' = Now /\ cleared' = cleared /\ xfer' = xfer
  BY DEF Cancel, Now
<1>2. Ordered'
  BY <1>1 DEF Inv, Ordered
<1>3. Proceeds
  BY <1>1 DEF Proceeds
<1>4. Pointed'
  <2>1. Nobody \notin Transfer
    BY ViewsAssumption DEF Transfer
  <2> QED BY <2>1 DEF Inv, Pointed, Cancel
<1> QED BY <1>2, <1>3, <1>4 DEF Step, Inv

\* The menu of the approved window.
LEMMA ApprovedExists ==
    ASSUME Inv, NEW t \in Transfer, OnApproved(t)
    PROVE  xfer[t].state # "NONE"
<1>1. "APPROVED" \in Window
  BY DEF Window
<1> QED BY <1>1, FoundExists DEF OnApproved

LEMMA OnApprovedKeeps ==
    ASSUME Inv, NEW t \in Transfer, NEW paused \in BOOLEAN,
           SetTransferState(t, paused) \/ AbortApproved(t) \/ ClearApproved(t)
    PROVE  Step
<1>1. xfer[t].state # "NONE"
  BY ApprovedExists DEF SetTransferState, AbortApproved, ClearApproved
<1>2. CASE SetTransferState(t, paused)
  <2> DEFINE x == xfer[t]
             y == [x EXCEPT !.paused = paused]
             u == Put(Now, t, y)
  <2>1. /\ Become(u) /\ cleared' = cleared /\ UNCHANGED <<popup, menu, dialog>>
        /\ edits' \in 0 .. MaxEdits
    BY <1>2, ViewsAssumption DEF SetTransferState, Edit, Inv, Pointed
  <2>2. x \in Fields /\ Counts(x) /\ Phase(x, t)
    BY InvOfOne DEF Inv
  <2>3. Sets(x, y)
    BY <2>2 DEF Sets, Fields
  <2> HIDE DEF y
  <2>4. Replaces(y, x) /\ Phase(y, t) /\ y.verdict = x.verdict
    BY <2>2, <2>3, SetsReplaces DEF Sets
  <2>5. Settles(Now, u, cleared, t) /\ u.xfer[t] = y
    BY <1>1, <2>4, PutIsStep
  <2> HIDE DEF u
  <2>6. Ordered' /\ Proceeds
    BY <2>1, <2>4, <2>5, SettledIsOrdered DEF Inv
  <2>7. popup \in Transfer => xfer'[popup].state # "NONE"
    BY <2>6 DEF Inv, Pointed, Proceeds
  <2>8. Pointed'
    BY <2>1, <2>7 DEF Inv, Pointed
  <2> QED BY <2>6, <2>8 DEF Inv, Step
<1>3. CASE AbortApproved(t)
  <2>1. Become(Abort(Now, t)) /\ cleared' = cleared /\ UNCHANGED windows
    BY <1>3 DEF AbortApproved, windows
  <2> QED BY <2>1, AbortedIsStep, PointersKept DEF Inv, Step
<1>4. CASE ClearApproved(t)
  <2>1. /\ Become(RemoveRow(Now, WindowOf(xfer[t]), t))
        /\ cleared' = cleared \cup {<<t, WindowOf(xfer[t])>>}
        /\ UNCHANGED <<popup, menu, dialog>>
    BY <1>4 DEF ClearApproved
  <2>2. edits' \in 0 .. MaxEdits
    BY <1>4, ViewsAssumption DEF ClearApproved, Edit, Inv, Pointed
  <2>3. Ordered' /\ Proceeds /\ cleared' \subseteq Transfer \X Window
    BY <1>1, <2>1, ClearedIsStep
  <2>4. popup \in Transfer => xfer'[popup].state # "NONE"
    BY <2>3 DEF Inv, Pointed, Proceeds
  <2>5. Pointed'
    BY <2>1, <2>2, <2>3, <2>4 DEF Inv, Pointed
  <2> QED BY <2>3, <2>5 DEF Step, Inv
<1> QED BY <1>2, <1>3, <1>4

-----------------------------------------------------------------------------
(* The peer.                                                               *)

LEMMA ReceiveSuggestKeeps ==
    ASSUME Inv, NEW t \in Incoming, NEW m \in Method, ReceiveSuggest(t, m)
    PROVE  Step
<1> DEFINE new == InitTransfer(Now, t, FALSE)
           x == Suggested(FALSE)
           y == [new.xfer[t] EXCEPT !.meth = m, !.address = TRUE]
           u == Put(new, t, y)
<1>1. t \in Transfer /\ FALSE \in BOOLEAN
  BY DEF Transfer
<1>2. /\ xfer[t].state = "NONE" /\ Become(u) /\ cleared' = cleared /\ UNCHANGED windows
  BY DEF ReceiveSuggest, windows
<1>3. InOrder(Now, cleared) /\ Now.xfer = xfer /\ Phase(xfer[t], t)
  BY <1>1, InvOfOne DEF Inv
<1>4. Handles(Now, new, cleared, t) /\ new.xfer[t] = x
  <2>1. Now.xfer[t].state = "NONE"
    BY <1>2, <1>3
  <2> QED BY <1>1, <1>3, <2>1, InitKeeps
<1> HIDE DEF new
<1>5. /\ x \in Fields /\ x.state = "SETUP_PENDING" /\ x.verdict = "PENDING" /\ ~x.entry
      /\ Fresh(x) /\ Counts(x)
  BY <1>1, SuggestedIsFresh
<1> HIDE DEF x
<1>6. Phase(x, t)
  BY <1>5 DEF Phase
<1>7. Sets(x, y)
  BY <1>4, <1>5 DEF Sets, Fields
<1> HIDE DEF y
<1>8. Replaces(y, new.xfer[t]) /\ Phase(y, t) /\ y.state = "SETUP_PENDING"
  BY <1>4, <1>5, <1>6, <1>7, SetsReplaces DEF Sets
<1>9. InOrder(new, cleared)
  BY <1>4 DEF Handles, Spares
<1>10. /\ Spares(new, u, cleared, Transfer \ {t})
       /\ Current(u, t)
       /\ u.xfer[t] = y
       /\ u.xfer = [new.xfer EXCEPT ![t] = y]
       /\ u.ctl = new.ctl
  BY <1>1, <1>8, <1>9, PutKeeps
<1> HIDE DEF u
<1>11. Handles(Now, u, cleared, t)
  BY <1>1, <1>3, <1>4, <1>10, HandlesOnward DEF Handles
<1>12. Settles(Now, u, cleared, t)
  BY <1>8, <1>10, <1>11 DEF Settles
<1>13. xfer[t].verdict = "PENDING"
  BY <1>2, <1>3 DEF Phase
<1>14. Ordered' /\ Proceeds
  BY <1>1, <1>2, <1>12, <1>13, SettledIsOrdered DEF Inv
<1> QED BY <1>2, <1>14, PointersKept DEF Inv, Step

\* Rows that are written once more stay as they should be.
LEMMA UpdateSettles ==
    ASSUME NEW w, NEW s, NEW c, NEW t \in Transfer, InOrder(w, c), Settles(w, s, c, t)
    PROVE  Settles(w, UpdateRow(s, t), c, t)
<1> DEFINE u == UpdateRow(s, t)
<1>1. Kept(s, c, {})
  BY DEF Settles, Handles, Spares, InOrder
<1>2. /\ InOrder(u, c)
      /\ u.ctl = s.ctl /\ u.xfer = s.xfer
      /\ Current(u, t)
      /\ \A o \in Transfer \ {t} : Current(s, o) => Current(u, o)
  BY <1>1, UpdateKeeps
<1> HIDE DEF u
<1> QED BY <1>2 DEF u, Settles, Handles, Spares

LEMMA ReceiveVerdictKeeps ==
    ASSUME Inv, NEW t \in Outgoing, NEW v \in {"ACCEPTED", "DECLINED"},
           NEW position \in Position, ReceiveVerdict(t, v, position)
    PROVE  Step
<1>1. t \in Transfer /\ t \notin Incoming
  BY ViewsAssumption DEF Transfer
<1>2. cleared' = cleared /\ UNCHANGED windows
  BY DEF ReceiveVerdict, windows
<1>3. InOrder(Now, cleared) /\ Now.xfer = xfer
  BY DEF Inv, Ordered, Now
<1>4. CASE xfer[t].state = "VERDICT_PENDING"
  <2> DEFINE x == xfer[t]
             ruled == SetVerdict(Now, t, v)
             y == [ruled.xfer[t] EXCEPT !.position = position, !.address = TRUE]
             told == Changed(ruled, t, y)
             set == [ruled EXCEPT !.xfer[t].position = position, !.xfer[t].address = TRUE]
  <2>1. x.verdict = "PENDING" /\ ~x.entry /\ Fresh(x) /\ x \in Fields
    BY <1>1, <1>4, SetupIsPending, InvOfOne DEF Inv
  <2>2. PICK s \in IF v = "DECLINED" THEN {Abort(ruled, t)}
                   ELSE IF x.meth = "PASSIVE" THEN SetupPassiveAccept(set, t)
                   ELSE SetPrepared(set, t) : Become(UpdateRow(s, t))
    BY <1>4 DEF ReceiveVerdict
  <2>3. Handles(Now, ruled, cleared, t) /\ ruled.xfer[t] = Ruled(x, v)
    <3>1. /\ Now.xfer[t].state # "NONE" /\ Fresh(Now.xfer[t])
          /\ Now.xfer[t].verdict = "PENDING"
      BY <1>3, <1>4, <2>1
    <3>2. /\ Handles(Now, ruled, cleared, t)
          /\ ruled.xfer[t] = Ruled(Now.xfer[t], v)
      BY <1>1, <1>3, <3>1, SetVerdictKeeps
    <3> QED BY <1>3, <3>2
  <2> HIDE DEF ruled
  <2>4. InOrder(ruled, cleared) /\ Spares(Now, ruled, cleared, Transfer \ {t}) /\ Current(ruled, t)
    BY <2>3 DEF Handles, Spares
  <2>5. /\ ruled.xfer[t] \in Fields /\ Counts(ruled.xfer[t])
        /\ ruled.xfer[t].state = "VERDICT_PENDING" /\ ruled.xfer[t].verdict = v
        /\ ~ruled.xfer[t].entry /\ Fresh(ruled.xfer[t])
    <3>1. ruled.xfer[t] \in Fields /\ Counts(ruled.xfer[t])
      BY <1>1, <2>4 DEF InOrder, Kept, Typed
    <3> QED BY <1>4, <2>1, <2>3, <3>1 DEF Ruled, Fields, Fresh
  <2>6. Settles(Now, s, cleared, t)
    <3>1. CASE v = "DECLINED"
      <4> DEFINE a == Abort(ruled, t)
      <4>1. s = a
        BY <2>2, <3>1
      <4>2. /\ Spares(ruled, a, cleared, Transfer)
            /\ ruled.xfer[t].state \notin Ended \cup {"NONE"} => Current(a, t)
            /\ ruled.xfer[t].state # "NONE" => a.xfer[t].state \in Ended
            /\ a.ctl = ruled.ctl
        BY <1>1, <2>4, AbortKeeps
      <4> HIDE DEF a
      <4>3. Current(a, t) /\ a.xfer[t].state \in Ended /\ Spares(ruled, a, cleared, Transfer \ {t})
        BY <2>5, <4>2 DEF Ended, Spares
      <4>4. Handles(Now, a, cleared, t)
        BY <1>1, <1>3, <2>4, <4>3, HandlesOnward DEF Handles
      <4>5. ~a.xfer[t].entry
        BY <1>1, <2>5, <4>2, MayIsAlike DEF Spares, Alike
      <4> QED BY <4>1, <4>3, <4>4, <4>5 DEF Settles, Phase, Ended
    <3>2. CASE v = "ACCEPTED"
      <4>1. Unshown(ruled.xfer[t], y)
        <5>1. position \in 0 .. Size
          BY ViewsAssumption
        <5> QED BY <2>5, <3>2, <5>1 DEF Unshown, Fields, Counts, Fresh, Fits, Follows, Tells
      <4>2. /\ y.state = "VERDICT_PENDING" /\ y.verdict = "ACCEPTED" /\ ~y.entry /\ Fresh(y)
        BY <2>5, <3>2 DEF Fields, Fresh
      <4> HIDE DEF y
      <4>3. /\ Spares(ruled, told, cleared, Transfer \ {t})
            /\ Current(ruled, t) => Current(told, t)
            /\ told.xfer[t] = y
            /\ told.ctl = ruled.ctl
        BY <1>1, <2>4, <4>1, UnshownKeeps
      <4>4. s \in SetupPassiveAccept(told, t) \/ s \in SetPrepared(told, t)
        <5>1. set = told
          BY <1>1, <2>4 DEF InOrder, Kept, Typed, Changed, y
        <5> HIDE DEF set, told
        <5> QED BY <2>2, <3>2, <5>1
      <4> HIDE DEF told
      <4>5. InOrder(told, cleared)
        BY <4>3 DEF Spares
      <4>6. /\ told.xfer[t].state # "NONE" /\ Fresh(told.xfer[t]) /\ ~told.xfer[t].entry
            /\ told.xfer[t].verdict = IF t \in Incoming THEN "PENDING" ELSE "ACCEPTED"
        BY <1>1, <4>2, <4>3
      <4>7. Handles(told, s, cleared, t) /\ Phase(s.xfer[t], t) /\ s.xfer[t].state # "NONE"
        <5>1. CASE s \in SetupPassiveAccept(told, t)
          <6>1. /\ Handles(told, s, cleared, t) /\ Phase(s.xfer[t], t) /\ s.xfer[t].state # "NONE"
                /\ t \notin Incoming => s.xfer[t].verdict = "ACCEPTED"
            BY <1>1, <4>5, <4>6, <5>1, SetupPassiveAcceptKeeps
          <6> QED BY <6>1
        <5>2. CASE s \in SetPrepared(told, t)
          <6>1. /\ Handles(told, s, cleared, t) /\ Alike(told.xfer[t], s.xfer[t])
                /\ s.xfer[t].state \in {"PREPARATION_PENDING", "ABORTED"}
            BY <1>1, <4>5, <4>6, <5>2, SetPreparedKeeps
          <6> QED BY <4>6, <6>1 DEF Phase, Alike
        <5> QED BY <4>4, <5>1, <5>2
      <4>8. Handles(ruled, s, cleared, t)
        BY <1>1, <2>4, <4>3, <4>7, HandlesOnward
      <4>9. Handles(Now, s, cleared, t)
        BY <1>1, <1>3, <2>4, <4>8, HandlesOnward
      <4> QED BY <4>7, <4>9 DEF Settles
    <3> QED BY <3>1, <3>2
  <2>7. Settles(Now, UpdateRow(s, t), cleared, t)
    BY <1>1, <1>3, <2>6, UpdateSettles
  <2>8. Ordered' /\ Proceeds
    BY <1>1, <1>2, <2>1, <2>2, <2>7, SettledIsOrdered DEF Inv
  <2> QED BY <1>2, <2>8, PointersKept DEF Inv, Step
<1>5. CASE xfer[t].state = "ABORTED" /\ Become(UpdateRow(Now, t))
  <2>1. Settles(Now, Now, cleared, t)
    <3>1. Phase(xfer[t], t) /\ Current(Now, t) /\ \A o : Now.xfer[o] = xfer[o]
      BY <1>1, <1>3, InvOfOne DEF Inv
    <3> QED BY <1>3, <1>5, <3>1 DEF Settles, Handles, Spares, May
  <2> DEFINE u == UpdateRow(Now, t)
  <2>2. Settles(Now, u, cleared, t)
    BY <1>1, <1>3, <2>1, UpdateSettles
  <2>3. u.xfer = Now.xfer
    <3>1. Kept(Now, cleared, {})
      BY <1>3 DEF InOrder
    <3>2. /\ InOrder(u, cleared)
          /\ u.ctl = Now.ctl /\ u.xfer = Now.xfer
          /\ Current(u, t)
          /\ \A o \in Transfer \ {t} : Current(Now, o) => Current(u, o)
      BY <1>1, <3>1, UpdateKeeps
    <3> QED BY <3>2
  <2>4. Become(u)
    BY <1>5
  <2> HIDE DEF u
  <2>5. Ordered' /\ Proceeds
    BY <1>1, <1>2, <1>3, <2>2, <2>3, <2>4, SettledIsOrdered DEF Inv
  <2> QED BY <1>2, <2>5, PointersKept DEF Inv, Step
<1> QED BY <1>4, <1>5 DEF ReceiveVerdict

LEMMA DisconnectKeeps ==
    ASSUME Inv, Disconnect
    PROVE  Step
<1>1. Become(CtlConClose(Now)) /\ cleared' = cleared /\ UNCHANGED windows
  BY DEF Disconnect, windows
<1>2. Spares(Now, CtlConClose(Now), cleared, Transfer)
  BY CloseKeeps DEF Inv, Ordered
<1>3. Ordered' /\ Proceeds
  BY <1>1, <1>2, SparedIsOrdered DEF Inv
<1> QED BY <1>1, <1>3, PointersKept DEF Inv, Step

-----------------------------------------------------------------------------
(* The tick.                                                               *)

\* The transfer of a source or an entry that is resolved is accepted and
\* prepared, though either send may abort it.
LEMMA AcceptedIsPrepared ==
    ASSUME Inv, NEW t \in Transfer, xfer[t].verdict = "PENDING", xfer[t].state # "NONE",
           Fresh(xfer[t]), NEW s \in SendVerdict(Now, t, "ACCEPTED"), NEW u \in SetPrepared(s, t)
    PROVE  Settles(Now, u, cleared, t)
<1>1. InOrder(Now, cleared) /\ Now.xfer = xfer
  BY InvOfOne DEF Inv
<1>2. PICK v \in {"ACCEPTED", "DECLINED"} : v = "ACCEPTED"
  OBVIOUS
<1>3. /\ Handles(Now, s, cleared, t)
      /\ s.xfer[t].verdict = v /\ s.xfer[t].entry = Now.xfer[t].entry
      /\ Fresh(s.xfer[t])
      /\ s.xfer[t].state \in {Now.xfer[t].state} \cup Ended
      /\ v = "DECLINED" => s.xfer[t].state \in Ended
  <2>1. /\ Now.xfer[t].state # "NONE" /\ Fresh(Now.xfer[t])
        /\ Now.xfer[t].verdict = "PENDING" /\ s \in SendVerdict(Now, t, v)
    BY <1>1, <1>2
  <2> QED BY <1>1, <2>1, SendVerdictKeeps
<1>4. InOrder(s, cleared) /\ s.xfer[t].state # "NONE" /\ Spares(Now, s, cleared, Transfer \ {t})
  BY <1>1, <1>3 DEF Handles, Spares, Ended
<1>5. /\ Handles(s, u, cleared, t) /\ Alike(s.xfer[t], u.xfer[t])
      /\ u.xfer[t].state \in {"PREPARATION_PENDING", "ABORTED"}
  BY <1>3, <1>4, SetPreparedKeeps
<1>6. Handles(Now, u, cleared, t)
  BY <1>1, <1>4, <1>5, HandlesOnward
<1> QED BY <1>2, <1>3, <1>5, <1>6 DEF Settles, Phase, Alike

LEMMA SourceResolvedKeeps ==
    ASSUME Inv, NEW t \in Transfer, SourceResolved(t)
    PROVE  Step
<1>1. xfer[t].state = "ACTIVE_RESOLVE_SRC_IP" /\ cleared' = cleared /\ UNCHANGED windows
  BY DEF SourceResolved, windows
<1>2. xfer[t].verdict = "PENDING" /\ ~xfer[t].entry /\ Fresh(xfer[t])
  BY <1>1, SetupIsPending
<1>3. InOrder(Now, cleared) /\ Now.xfer = xfer
  BY InvOfOne DEF Inv
<1>4. CASE \E w \in Then(SendVerdict(Now, t, "ACCEPTED"), LAMBDA v : SetPrepared(v, t)) : Become(w)
  <2>1. PICK s \in SendVerdict(Now, t, "ACCEPTED") : \E w \in SetPrepared(s, t) : Become(w)
    BY <1>4 DEF Then
  <2>2. PICK u \in SetPrepared(s, t) : Become(u)
    BY <2>1
  <2>3. Settles(Now, u, cleared, t)
    BY <1>1, <1>2, AcceptedIsPrepared
  <2>4. Ordered' /\ Proceeds
    BY <1>1, <1>2, <2>2, <2>3, SettledIsOrdered DEF Inv
  <2> QED BY <1>1, <2>4, PointersKept DEF Inv, Step
<1>5. CASE \E w \in SendSuggest(SetState(Now, t, "VERDICT_PENDING"), t) : Become(w)
  <2>1. PICK k : k = "VERDICT_PENDING"
    OBVIOUS
  <2> DEFINE s == SetState(Now, t, k)
  <2>2. PICK u \in SendSuggest(s, t) : Become(u)
    BY <1>5, <2>1
  <2>3. MaySettle(Now.xfer[t], k)
    BY <1>1, <1>2, <1>3, <2>1 DEF MaySettle, MayEnter, State
  <2>4. MayEnter(Now.xfer[t], k)
    BY <2>3 DEF MaySettle
  <2>5. Entered(Now, s, cleared, t, k)
    BY <1>3, <2>4, SetStateKeeps
  <2> HIDE DEF s
  <2>6. InOrder(s, cleared) /\ s.xfer[t].state # "NONE" /\ Fresh(s.xfer[t])
        /\ s.xfer[t].verdict = "PENDING" /\ ~s.xfer[t].entry
    BY <1>2, <1>3, <2>1, <2>5 DEF Entered, Spares, Alike
  <2>7. /\ Handles(s, u, cleared, t) /\ Alike(s.xfer[t], u.xfer[t])
        /\ u.xfer[t].state = "VERDICT_PENDING"
    BY <2>2, <2>6, SendSuggestKeeps
  <2>8. Handles(Now, u, cleared, t)
    BY <1>3, <2>5, <2>7, HandlesOnward DEF Entered
  <2>9. Settles(Now, u, cleared, t)
    BY <2>6, <2>7, <2>8 DEF Settles, Phase, Alike
  <2>10. Ordered' /\ Proceeds
    BY <1>1, <1>2, <2>2, <2>9, SettledIsOrdered DEF Inv
  <2> QED BY <1>1, <2>10, PointersKept DEF Inv, Step
<1>6. CASE Become(Abort(Now, t))
  BY <1>1, <1>6, AbortedIsStep, PointersKept DEF Inv, Step
<1> QED BY <1>4, <1>5, <1>6 DEF SourceResolved

LEMMA EntryResolvedKeeps ==
    ASSUME Inv, NEW t \in Transfer, EntryResolved(t)
    PROVE  Step
<1>1. xfer[t].state = "PASSIVE_RESOLVE_ACCEPT_IP" /\ cleared' = cleared /\ UNCHANGED windows
  BY DEF EntryResolved, windows
<1>2. /\ InOrder(Now, cleared) /\ Now.xfer = xfer
      /\ xfer[t] \in Fields /\ Counts(xfer[t]) /\ Phase(xfer[t], t) /\ Current(Now, t)
      /\ Fresh(xfer[t])
  BY <1>1, InvOfOne DEF Inv, Early, State
<1>3. xfer[t].verdict = IF t \in Incoming THEN "PENDING" ELSE "ACCEPTED"
  BY <1>1, <1>2 DEF Phase
<1>4. CASE t \in Incoming
           /\ \E w \in Then(SendVerdict(Now, t, "ACCEPTED"), LAMBDA v : SetPrepared(v, t)) : Become(w)
  <2>1. PICK s \in SendVerdict(Now, t, "ACCEPTED") : \E w \in SetPrepared(s, t) : Become(w)
    BY <1>4 DEF Then
  <2>2. PICK u \in SetPrepared(s, t) : Become(u)
    BY <2>1
  <2>3. Settles(Now, u, cleared, t)
    BY <1>1, <1>2, <1>3, <1>4, AcceptedIsPrepared
  <2>4. Ordered' /\ Proceeds
    BY <1>1, <1>3, <1>4, <2>2, <2>3, SettledIsOrdered DEF Inv
  <2> QED BY <1>1, <2>4, PointersKept DEF Inv, Step
<1>5. CASE t \in Outgoing /\ \E w \in SetPrepared(Now, t) : Become(w)
  <2>1. PICK u \in SetPrepared(Now, t) : Become(u)
    BY <1>5
  <2>2. t \notin Incoming
    BY <1>5, ViewsAssumption
  <2>3. /\ Handles(Now, u, cleared, t) /\ Alike(Now.xfer[t], u.xfer[t])
        /\ u.xfer[t].state \in {"PREPARATION_PENDING", "ABORTED"}
    <3>1. Now.xfer[t].state # "NONE" /\ Fresh(Now.xfer[t])
      BY <1>1, <1>2
    <3> QED BY <1>2, <2>1, <3>1, SetPreparedKeeps
  <2>4. Settles(Now, u, cleared, t) /\ u.xfer[t].verdict = xfer[t].verdict
    BY <1>2, <1>3, <2>2, <2>3 DEF Settles, Phase, Alike
  <2>5. Ordered' /\ Proceeds
    BY <1>1, <2>1, <2>4, SettledIsOrdered DEF Inv
  <2> QED BY <1>1, <2>5, PointersKept DEF Inv, Step
<1>6. CASE Become(Abort([Now EXCEPT !.xfer[t].entry = FALSE], t))
  <2> DEFINE y == [xfer[t] EXCEPT !.entry = FALSE]
             s == Changed(Now, t, y)
             u == Abort(s, t)
  <2>1. Become(u)
    BY <1>2, <1>6 DEF Changed
  <2>2. Unshown(Now.xfer[t], y)
    BY <1>2 DEF Unshown, Fields, Counts, Fresh, Fits, Follows, Tells
  <2>3. y.state = xfer[t].state /\ y.verdict = xfer[t].verdict /\ ~y.entry
    BY <1>2 DEF Fields
  <2> HIDE DEF y
  <2>4. /\ Spares(Now, s, cleared, Transfer \ {t})
        /\ Current(Now, t) => Current(s, t)
        /\ s.xfer[t] = y
        /\ s.ctl = Now.ctl
    BY <1>2, <2>2, UnshownKeeps
  <2> HIDE DEF s
  <2>5. InOrder(s, cleared)
    BY <2>4 DEF Spares
  <2>6. /\ Spares(s, u, cleared, Transfer)
        /\ s.xfer[t].state \notin Ended \cup {"NONE"} => Current(u, t)
        /\ s.xfer[t].state # "NONE" => u.xfer[t].state \in Ended
        /\ u.ctl = s.ctl
    BY <2>5, AbortKeeps
  <2> HIDE DEF u
  <2>7. s.xfer[t] \in Fields /\ May(s.xfer[t], u.xfer[t]) /\ Spares(s, u, cleared, Transfer \ {t})
    BY <2>5, <2>6 DEF Spares, InOrder, Kept, Typed
  <2>8. /\ Current(u, t) /\ u.xfer[t].state \in Ended
        /\ u.xfer[t].verdict = xfer[t].verdict /\ ~u.xfer[t].entry
    BY <1>1, <2>3, <2>4, <2>6, <2>7, MayIsAlike DEF Ended, Alike
  <2>9. Handles(Now, u, cleared, t)
    BY <1>2, <2>4, <2>7, <2>8, HandlesOnward DEF Handles
  <2>10. Settles(Now, u, cleared, t)
    BY <2>8, <2>9 DEF Settles, Phase, Ended
  <2>11. Ordered' /\ Proceeds
    BY <1>1, <2>1, <2>8, <2>10, SettledIsOrdered DEF Inv
  <2> QED BY <1>1, <2>11, PointersKept DEF Inv, Step
<1> QED BY <1>4, <1>5, <1>6 DEF EntryResolved

LEMMA StartTransferKeeps ==
    ASSUME Inv, NEW t \in Transfer, StartTransfer(t)
    PROVE  Step
<1>1. /\ xfer[t].state = "PREPARATION_PENDING" /\ cleared' = cleared /\ UNCHANGED windows
      /\ Become(SetState(Now, t, "TRANSFERING"))
  BY DEF StartTransfer, windows
<1>2. Phase(xfer[t], t) /\ Fresh(xfer[t])
  BY <1>1, InvOfOne DEF Inv, Early, State
<1>3. MaySettle(xfer[t], "TRANSFERING")
  BY <1>1, <1>2 DEF MaySettle, MayEnter, Phase, State
<1>4. Ordered' /\ Proceeds
  BY <1>1, <1>3, EnteredIsStep
<1> QED BY <1>1, <1>4, PointersKept DEF Inv, Step

\* Connecting, admitting and the handshake change nothing that is shown.
LEMMA UnshownIsStep ==
    ASSUME Inv, NEW t \in Transfer, NEW y, Unshown(xfer[t], y), Phase(y, t),
           xfer[t].state # "NONE", xfer' = [xfer EXCEPT ![t] = y],
           UNCHANGED <<ctl, row, windows>>
    PROVE  Step
<1>1. InOrder(Now, cleared) /\ Now.xfer = xfer /\ Current(Now, t) /\ xfer \in [Transfer -> Fields]
  <2>1. InOrder(Now, cleared) /\ Now.xfer = xfer /\ Current(Now, t)
    BY InvOfOne DEF Inv
  <2> QED BY <2>1 DEF InOrder, Kept, Typed
<1> DEFINE u == Changed(Now, t, y)
<1>2. u = [ctl |-> ctl, xfer |-> [xfer EXCEPT ![t] = y], row |-> row]
  BY DEF Changed, Now
<1>3. Become(u) /\ cleared' = cleared
  BY <1>2 DEF Become, windows
<1>4. /\ Spares(Now, u, cleared, Transfer \ {t})
      /\ Current(Now, t) => Current(u, t)
      /\ u.xfer[t] = y
      /\ u.ctl = Now.ctl
  BY <1>1, UnshownKeeps
<1> HIDE DEF u
<1>5. Settles(Now, u, cleared, t) /\ y.verdict = xfer[t].verdict
  BY <1>1, <1>4 DEF Settles, Handles, Unshown
<1>6. Ordered' /\ Proceeds
  BY <1>3, <1>4, <1>5, SettledIsOrdered DEF Inv
<1> QED BY <1>6, PointersKept DEF Inv, Step

LEMMA ConnectsKeep ==
    ASSUME Inv, NEW t \in Transfer, Connect(t) \/ Admit(t) \/ Verify(t)
    PROVE  Step
<1> DEFINE x == xfer[t]
<1>1. /\ x \in Fields /\ Counts(x) /\ Phase(x, t) /\ xfer \in [Transfer -> Fields]
  <2>1. InOrder(Now, cleared) /\ Now.xfer = xfer /\ x \in Fields /\ Counts(x) /\ Phase(x, t)
    BY InvOfOne DEF Inv
  <2> QED BY <2>1 DEF InOrder, Kept, Typed
<1>2. ASSUME NEW c \in {"NONE", "SSL_VERIFY", "ESTABLISHED"}
      PROVE  Unshown(x, [x EXCEPT !.con = c]) /\ (x.state # "NONE" => Phase([x EXCEPT !.con = c], t))
  <2> DEFINE y == [x EXCEPT !.con = c]
  <2>1. /\ y \in Fields /\ y.state = x.state /\ y.verdict = x.verdict /\ y.entry = x.entry
        /\ y.meth = x.meth /\ y.paused = x.paused /\ y.ssl = x.ssl
        /\ y.address = x.address /\ y.directory = x.directory /\ y.applied = x.applied
        /\ y.current = x.current /\ y.last = x.last /\ y.from = x.from /\ y.zero = x.zero
    BY <1>1 DEF Fields
  <2> HIDE DEF y
  <2>2. Unshown(x, y)
    BY <1>1, <2>1 DEF Unshown, Counts, Fresh, Fits, Follows, Tells
  <2>3. x.state # "NONE" => Phase(y, t)
    BY <1>1, <2>1 DEF Phase
  <2> QED BY <2>2, <2>3 DEF y
<1>3. CASE Connect(t) \/ Verify(t)
  <2>1. /\ x.state = "NONE" => x.con # "NONE"
        /\ xfer' = [xfer EXCEPT ![t] = [x EXCEPT !.con = "ESTABLISHED"]]
        /\ UNCHANGED <<ctl, row, windows>>
    BY <1>3 DEF Connect, Verify
  <2>2. PICK y : y = [x EXCEPT !.con = "ESTABLISHED"]
    OBVIOUS
  <2>3. x.state # "NONE"
    BY <1>1, <2>1 DEF Phase
  <2>4. Unshown(x, y) /\ Phase(y, t)
    BY <1>2, <2>2, <2>3
  <2> QED BY <2>1, <2>2, <2>3, <2>4, UnshownIsStep
<1>4. CASE Admit(t)
  <2> DEFINE c == IF x.state \in Ended THEN "NONE"
                  ELSE IF ServerSSL THEN "SSL_VERIFY" ELSE "ESTABLISHED"
             y == [x EXCEPT !.entry = FALSE, !.ssl = ServerSSL, !.con = c]
  <2>1. /\ x.entry /\ x.state # "PASSIVE_RESOLVE_ACCEPT_IP"
        /\ xfer' = [xfer EXCEPT ![t] = y]
        /\ UNCHANGED <<ctl, row, windows>>
    BY <1>4 DEF Admit
  <2>2. c \in {"NONE", "SSL_VERIFY", "ESTABLISHED"} /\ ServerSSL \in BOOLEAN
    BY ViewsAssumption
  <2> HIDE DEF c
  <2>3. /\ y \in Fields /\ y.state = x.state /\ y.verdict = x.verdict /\ ~y.entry
        /\ y.meth = x.meth /\ y.paused = x.paused
        /\ y.address = x.address /\ y.directory = x.directory /\ y.applied = x.applied
        /\ y.current = x.current /\ y.last = x.last /\ y.from = x.from /\ y.zero = x.zero
    BY <1>1, <2>2 DEF Fields
  <2> HIDE DEF y
  <2>4. x.state = "ABORTED" \/ x.verdict = "ACCEPTED"
    BY <1>1, <2>1 DEF Phase
  <2>5. Unshown(x, y)
    BY <1>1, <2>3, <2>4 DEF Unshown, Counts, Fresh, Fits, Follows, Tells
  <2>6. Phase(y, t) /\ x.state # "NONE"
    BY <1>1, <2>1, <2>3 DEF Phase
  <2> QED BY <2>1, <2>5, <2>6, UnshownIsStep
<1> QED BY <1>3, <1>4

\* The progress of t is written; between two writings the counts are compared.
Tracked(w, u, c, t) ==
    /\ InOrder(u, c)
    /\ u.ctl = w.ctl /\ u.xfer = w.xfer
    /\ \A o \in Transfer : Current(w, o) => Current(u, o)
    /\ w.xfer[t].current # w.xfer[t].last =>
          \A r \in ToSet(u.row["APPROVED"]) : r.of = t => r.progress = w.xfer[t].current

LEMMA ProgressKeeps ==
    ASSUME NEW w, NEW c, NEW t \in Transfer, InOrder(w, c)
    PROVE  Tracked(w, UpdateProgress(w, t), c, t)
<1> DEFINE x == w.xfer[t]
           k == "APPROVED"
           i == Find(w.row[k], t)
           u == UpdateProgress(w, t)
<1>1. /\ Kept(w, c, {}) /\ Typed(w) /\ x \in Fields
      /\ \A o \in Transfer : Counts(w.xfer[o]) /\ Progressed(w, o, TRUE)
  BY DEF InOrder, Kept, Typed
<1>2. k \in Window /\ Columns(k) = ApprovedColumns /\ \A l \in Window : l = k \/ l = "UNAPPROVED"
  BY DEF Window, Columns
<1>3. Tidy(w.row[k], Columns(k))
  BY <1>1, <1>2 DEF Typed
<1>4. CASE i = 0
  <2>1. u = w
    BY <1>4 DEF UpdateProgress
  <2>2. \A r \in ToSet(w.row[k]) : r.of # t
    BY <1>3, <1>4, FindFinds
  <2> QED BY <2>1, <2>2 DEF Tracked
<1>5. CASE i # 0
  <2> DEFINE old == w.row[k][i]
             p == Progress(x, old.progress)
             r == [old EXCEPT !.progress = p]
  <2>1. old \in ToSet(w.row[k]) /\ old.of = t /\ \A q \in ToSet(w.row[k]) : q.of = t => q = old
    BY <1>3, <1>5, FindFinds
  <2>2. old \in ApprovedColumns
    BY <1>1, <2>1, RowTypes
  <2>3. old.progress \in 0 .. Size /\ Follows(old.progress, x)
    BY <1>1, <2>1, <2>2 DEF Progressed, Fits, ApprovedColumns
  <2>4. p \in 0 .. Size /\ Fits(p, x) /\ (x.current # x.last => p = x.current)
    BY <1>1, <2>3, ProgressFits
  <2>5. u = Written(w, k, t, r) /\ Find(w.row[k], t) # 0
    BY <1>5 DEF UpdateProgress, Written
  <2> HIDE DEF old, p, i, u
  <2>6. /\ r \in Columns(k) /\ r.of = t /\ r.progress = p
        /\ r.state = old.state /\ r.meth = old.meth /\ r.paused = old.paused
        /\ r.directory = old.directory
    BY <1>2, <2>1, <2>2, <2>4 DEF ApprovedColumns
  <2> HIDE DEF r, k
  <2>7. /\ Typed(u) /\ u.ctl = w.ctl /\ u.xfer = w.xfer
        /\ \A o \in Transfer : Listed(u, c, o) /\ WasThere(u, c, o)
        /\ \A l \in Window \ {k} : u.row[l] = w.row[l]
        /\ \A q \in ToSet(u.row[k]) : q = r \/ (q \in ToSet(w.row[k]) /\ q.of # t)
        /\ r \in ToSet(u.row[k])
    BY <1>1, <1>2, <2>5, <2>6, RowWritten
  <2>8. u.row["UNAPPROVED"] = w.row["UNAPPROVED"]
    BY <2>7 DEF Window, k
  <2>9. \A o \in Transfer : Progressed(u, o, TRUE)
    BY <1>1, <2>4, <2>6, <2>7 DEF Progressed, k
  <2>10. \A o \in Transfer : Current(w, o) => Current(u, o)
    BY <2>1, <2>6, <2>7, <2>8 DEF Current, DirectoryShown, k
  <2>11. Kept(u, c, {})
    BY <1>1, <2>7, <2>9 DEF Kept
  <2>12. x.current # x.last => \A q \in ToSet(u.row["APPROVED"]) : q.of = t => q.progress = x.current
    BY <2>4, <2>6, <2>7 DEF k
  <2> QED BY <2>7, <2>10, <2>11, <2>12 DEF u, InOrder, Tracked
<1> QED BY <1>4, <1>5

\* data_transfer_set_io.
LEMMA SetIOKeeps ==
    ASSUME NEW w, NEW c, NEW t \in Transfer, NEW elapsed, InOrder(w, c), Current(w, t),
           w.xfer[t].state = "TRANSFERING"
    PROVE  LET u == SetIO(w, t, elapsed)
           IN  /\ Handles(w, u, c, t)
               /\ u.xfer[t].state = "TRANSFERING" /\ u.xfer[t].current = w.xfer[t].current
               /\ u.xfer[t].verdict = w.xfer[t].verdict /\ u.xfer[t].entry = w.xfer[t].entry
<1>1. CASE ~elapsed
  BY <1>1 DEF SetIO, Handles, Spares, May
<1>2. CASE elapsed
  <2> DEFINE x == w.xfer[t]
             v == UpdateProgress(w, t)
             y == [x EXCEPT !.zero = (x.current = x.last), !.last = x.current]
             u == Changed(v, t, y)
  <2>1. Tracked(w, v, c, t)
    BY ProgressKeeps
  <2>2. x \in Fields /\ Counts(x)
    BY DEF InOrder, Kept, Typed
  <2>3. SetIO(w, t, elapsed) = u
    <3>1. v.xfer[t] = x
      BY <2>1 DEF Tracked
    <3> HIDE DEF v
    <3>2. [v EXCEPT !.xfer[t].zero = (x.current = x.last), !.xfer[t].last = x.current]
            = [v EXCEPT !.xfer = [v.xfer EXCEPT ![t] = y]]
      <4>1. v = [ctl |-> v.ctl, xfer |-> v.xfer, row |-> v.row] /\ v.xfer \in [Transfer -> Fields]
        BY <2>1 DEF Tracked, InOrder, Kept, Typed
      <4> QED BY <2>2, <3>1, <4>1 DEF Fields
    <3> QED BY <1>2, <3>2 DEF SetIO, Changed, v
  <2> HIDE DEF v
  <2>4. /\ y \in Fields /\ y.state = x.state /\ y.verdict = x.verdict /\ y.entry = x.entry
        /\ y.meth = x.meth /\ y.paused = x.paused /\ y.ssl = x.ssl
        /\ y.address = x.address /\ y.directory = x.directory /\ y.applied = x.applied
        /\ y.current = x.current /\ y.last = x.current /\ y.from = x.from
        /\ y.zero <=> x.current = x.last
    BY <2>2 DEF Fields
  <2> HIDE DEF y
  <2>5. v.xfer[t] = x /\ InOrder(v, c) /\ v.ctl = w.ctl /\ v.xfer = w.xfer
    BY <2>1 DEF Tracked
  <2>6. Counts(y)
    <3>1. y.state = "TRANSFERING" /\ y.current \in 0 .. Size
      BY <2>2, <2>4 DEF Fields
    <3> QED BY <2>4, <3>1 DEF Counts, Early
  <2>7. \A r \in ToSet(v.row["APPROVED"]) :
           r.of = t /\ r.progress \in 0 .. Size /\ Fits(r.progress, v.xfer[t]) => Fits(r.progress, y)
    BY <2>1, <2>4, <2>5 DEF Tracked, Fits, Follows, Tells
  <2>8. MayChange(v, t, y, {})
    BY <2>4, <2>5, <2>6, <2>7 DEF MayChange
  <2>9. /\ Kept(u, c, {})
        /\ u.ctl = v.ctl /\ u.row = v.row /\ u.xfer = [v.xfer EXCEPT ![t] = y]
        /\ \A o \in Transfer \ {t} : Current(v, o) => Current(u, o)
    BY <2>5, <2>8, ChangeKeeps
  <2> HIDE DEF u
  <2>10. u.xfer[t] = y /\ \A o \in Transfer \ {t} : u.xfer[o] = w.xfer[o]
    BY <2>5, <2>9 DEF InOrder, Kept, Typed
  <2>11. Current(v, t)
    BY <2>1 DEF Tracked
  <2>12. Current(u, t)
    BY <2>4, <2>5, <2>9, <2>10, <2>11 DEF Current, DirectoryShown
  <2>13. Handles(w, u, c, t)
    BY <2>1, <2>9, <2>10, <2>12 DEF Handles, Spares, May, InOrder, Tracked
  <2> QED BY <2>3, <2>4, <2>10, <2>13
<1> QED BY <1>1, <1>2

\* Between two handlers of a transfer that is running.
LEMMA RunsOnward ==
    ASSUME Inv, NEW t \in Transfer, Running(t), NEW u, Handles(Now, u, cleared, t),
           u.xfer[t].state = "TRANSFERING",
           u.xfer[t].verdict = xfer[t].verdict, u.xfer[t].entry = xfer[t].entry,
           NEW v, v = u \/ (u.xfer[t].current = Size /\ v = SetState(u, t, "COMPLETED"))
    PROVE  Settles(Now, v, cleared, t) /\ v.xfer[t].verdict = xfer[t].verdict
<1>1. /\ InOrder(Now, cleared) /\ Phase(xfer[t], t) /\ xfer[t].state = "TRANSFERING"
  BY InvOfOne DEF Inv, Running
<1>2. InOrder(u, cleared) /\ Spares(Now, u, cleared, Transfer \ {t})
  BY DEF Handles, Spares
<1>3. ~xfer[t].entry \/ xfer[t].verdict = "ACCEPTED"
  BY <1>1 DEF Phase
<1>4. CASE v = u
  BY <1>3, <1>4 DEF Settles, Phase
<1>5. CASE u.xfer[t].current = Size /\ v = SetState(u, t, "COMPLETED")
  <2>1. MaySettle(u.xfer[t], "COMPLETED")
    BY <1>3, <1>5 DEF MaySettle, MayEnter, State, Early
  <2>2. Settles(u, v, cleared, t) /\ v.xfer[t].verdict = u.xfer[t].verdict
    BY <1>2, <1>5, <2>1, EntersKeeps
  <2>3. Handles(Now, v, cleared, t)
    BY <1>1, <1>2, <2>2, HandlesOnward DEF Settles
  <2> QED BY <2>2, <2>3 DEF Settles
<1> QED BY <1>4, <1>5

LEMMA RunsKeep ==
    ASSUME Inv, NEW t \in Transfer, NEW elapsed \in BOOLEAN,
           Move(t, elapsed) \/ Wait(t, elapsed) \/ Complete(t)
    PROVE  Step
<1> DEFINE x == xfer[t]
<1>1. /\ InOrder(Now, cleared) /\ Now.xfer = xfer
      /\ x \in Fields /\ Counts(x) /\ Current(Now, t)
  BY InvOfOne DEF Inv
<1>2. Running(t) /\ x.state = "TRANSFERING" /\ cleared' = cleared /\ UNCHANGED windows
  BY DEF Move, Wait, Complete, Running, windows
<1>3. Handles(Now, Now, cleared, t)
  BY <1>1 DEF Handles, Spares, May
<1>4. PICK v : Become(v) /\ Settles(Now, v, cleared, t) /\ v.xfer[t].verdict = x.verdict
  <2>1. CASE Move(t, elapsed)
    <3> DEFINE y == [x EXCEPT !.current = @ + 1]
               w == Changed(Now, t, y)
               u == SetIO(w, t, elapsed)
    <3>1. x.current < Size
      BY <2>1 DEF Move
    <3>2. PICK v : /\ Become(v)
                   /\ v = u \/ (u.xfer[t].current = Size /\ v = SetState(u, t, "COMPLETED"))
      <4>1. [Now EXCEPT !.xfer[t].current = @ + 1] = w
        BY <1>1 DEF Changed
      <4> QED BY <2>1, <4>1 DEF Move
    <3>3. /\ y \in Fields /\ y.state = x.state /\ y.verdict = x.verdict /\ y.entry = x.entry
          /\ y.meth = x.meth /\ y.paused = x.paused /\ y.ssl = x.ssl
          /\ y.address = x.address /\ y.directory = x.directory /\ y.applied = x.applied
          /\ y.current = x.current + 1 /\ y.last = x.last /\ y.from = x.from /\ y.zero = x.zero
      <4>1. x.current + 1 \in 0 .. Size
        BY <1>1, <3>1, ViewsAssumption DEF Fields
      <4> QED BY <1>1, <4>1 DEF Fields
    <3> HIDE DEF y
    <3>4. /\ x.current \in Nat /\ x.last \in Nat /\ x.last <= x.current
      BY <1>1, ViewsAssumption DEF Fields, Counts
    <3>5. Unshown(Now.xfer[t], y)
      <4>1. Counts(y)
        BY <1>2, <3>3, <3>4 DEF Counts, Early
      <4>2. \A p \in 0 .. Size : Fits(p, y)
        BY <1>2, <3>3, <3>4 DEF Fits, Follows
      <4> QED BY <1>1, <3>3, <4>1, <4>2 DEF Unshown
    <3>6. /\ Spares(Now, w, cleared, Transfer \ {t})
          /\ Current(Now, t) => Current(w, t)
          /\ w.xfer[t] = y
          /\ w.ctl = Now.ctl
      BY <1>1, <3>5, UnshownKeeps
    <3> HIDE DEF w
    <3>7. InOrder(w, cleared) /\ Current(w, t) /\ w.xfer[t].state = "TRANSFERING"
      BY <1>1, <1>2, <3>3, <3>6 DEF Spares
    <3>8. /\ Handles(w, u, cleared, t)
          /\ u.xfer[t].state = "TRANSFERING" /\ u.xfer[t].current = w.xfer[t].current
          /\ u.xfer[t].verdict = w.xfer[t].verdict /\ u.xfer[t].entry = w.xfer[t].entry
      BY <3>7, SetIOKeeps
    <3> HIDE DEF u
    <3>9. Handles(Now, u, cleared, t)
      BY <1>1, <3>6, <3>8, HandlesOnward
    <3>10. u.xfer[t].verdict = xfer[t].verdict /\ u.xfer[t].entry = xfer[t].entry
      BY <3>3, <3>6, <3>8
    <3>11. Settles(Now, v, cleared, t) /\ v.xfer[t].verdict = xfer[t].verdict
      BY <1>2, <3>2, <3>8, <3>9, <3>10, RunsOnward
    <3> QED BY <3>2, <3>11
  <2>2. CASE Wait(t, elapsed)
    <3> DEFINE u == SetIO(Now, t, elapsed)
    <3>1. Become(u)
      BY <2>2 DEF Wait
    <3>2. /\ Handles(Now, u, cleared, t)
          /\ u.xfer[t].state = "TRANSFERING" /\ u.xfer[t].current = Now.xfer[t].current
          /\ u.xfer[t].verdict = Now.xfer[t].verdict /\ u.xfer[t].entry = Now.xfer[t].entry
      BY <1>1, <1>2, SetIOKeeps
    <3> HIDE DEF u
    <3>3. Settles(Now, u, cleared, t) /\ u.xfer[t].verdict = xfer[t].verdict
      BY <1>1, <1>2, <3>2, RunsOnward
    <3> QED BY <3>1, <3>3
  <2>3. CASE Complete(t)
    <3> DEFINE v == SetState(Now, t, "COMPLETED")
    <3>1. Become(v) /\ x.current = Size
      BY <2>3 DEF Complete
    <3>2. Settles(Now, v, cleared, t) /\ v.xfer[t].verdict = xfer[t].verdict
      BY <1>1, <1>2, <1>3, <3>1, RunsOnward
    <3> QED BY <3>1, <3>2
  <2> QED BY <2>1, <2>2, <2>3
<1>5. Ordered' /\ Proceeds
  BY <1>2, <1>4, SettledIsOrdered DEF Inv
<1> QED BY <1>2, <1>5, PointersKept DEF Inv, Step

LEMMA FailKeeps ==
    ASSUME Inv, NEW t \in Transfer, Fail(t)
    PROVE  Step
<1>1. Become(Abort(Now, t)) /\ cleared' = cleared /\ UNCHANGED windows
  BY DEF Fail, windows
<1> QED BY <1>1, AbortedIsStep, PointersKept DEF Inv, Step

-----------------------------------------------------------------------------
(* The invariant holds.                                                    *)

LEMMA InitHolds ==
    ASSUME Init
    PROVE  Inv
<1>1. NoTransfer \in Fields
  <2>1. 0 \in 0 .. Size /\ Output \in Directory
    BY ViewsAssumption
  <2> QED BY <2>1 DEF NoTransfer, Fields, State, Verdict, Method
<1>2. Counts(NoTransfer) /\ NoTransfer.state = "NONE"
  BY DEF NoTransfer, Counts, Fresh
<1>3. NoTransfer.verdict = "PENDING" /\ ~NoTransfer.entry /\ NoTransfer.con = "NONE"
  BY DEF NoTransfer
<1>4. /\ Now.ctl = "ESTABLISHED" /\ Now.xfer = [t \in Transfer |-> NoTransfer]
      /\ Now.row = [w \in Window |-> <<>>]
      /\ Now = [ctl |-> Now.ctl, xfer |-> Now.xfer, row |-> Now.row]
  BY DEF Init, Now
<1>5. \A S : Tidy(<<>>, S)
  BY DEF Tidy
<1>6. Typed(Now)
  BY <1>1, <1>4, <1>5 DEF Typed
<1>7. \A k \in Window : ToSet(Now.row[k]) = {}
  BY <1>4 DEF ToSet
<1>8. Now.row["UNAPPROVED"] = <<>> /\ Now.row["APPROVED"] = <<>> /\ ToSet(<<>>) = {}
  BY <1>4 DEF Window, ToSet
<1>9. ASSUME NEW t \in Transfer
      PROVE  /\ Now.xfer[t] = NoTransfer /\ xfer[t] = NoTransfer
             /\ Listed(Now, cleared, t) /\ WasThere(Now, cleared, t)
             /\ Progressed(Now, t, TRUE) /\ Current(Now, t)
  <2>1. Now.xfer[t] = NoTransfer /\ xfer[t] = NoTransfer
    BY <1>4 DEF Init
  <2>2. Listed(Now, cleared, t) /\ WasThere(Now, cleared, t)
    BY <1>2, <1>7, <2>1 DEF Init, Listed, HasRow, WasThere
  <2>3. Progressed(Now, t, TRUE) /\ Current(Now, t)
    BY <1>8 DEF Progressed, Current
  <2> QED BY <2>1, <2>2, <2>3
<1>10. InOrder(Now, cleared)
  BY <1>2, <1>6, <1>9 DEF InOrder, Kept
<1>11. \A t \in Transfer : Phase(xfer[t], t)
  BY <1>2, <1>3, <1>9 DEF Phase
<1>12. Ordered
  BY <1>9, <1>10, <1>11 DEF Ordered
<1>13. Pointed
  <2>1. Nobody \notin Transfer /\ 0 \in 0 .. MaxEdits
    BY ViewsAssumption DEF Transfer
  <2> QED BY <2>1 DEF Init, Pointed
<1> QED BY <1>12, <1>13 DEF Inv

LEMMA UserKeeps ==
    ASSUME Inv, User
    PROVE  Step
<1>1. CASE \E files \in SetToAllKPermutations(Outgoing) \ {<<>>}, m \in Method, local, ssl \in BOOLEAN :
              UISuggest(files, m, local, ssl)
  BY <1>1, UISuggestKeeps
<1>2. CASE \E t \in Transfer : Click(t)
  BY <1>2, ClickKeeps
<1>3. CASE \E t \in Transfer, paused \in BOOLEAN :
              SetTransferState(t, paused) \/ AbortApproved(t) \/ ClearApproved(t)
  BY <1>3, OnApprovedKeeps
<1>4. CASE MenuNone \/ MenuEditSettings
  BY <1>4, ChoosesKeep
<1>5. CASE MenuAccept \/ MenuDecline \/ MenuAbort \/ MenuClear
  BY <1>5, MenuAcceptKeeps, MenuDeclineKeeps, MenuAbortKeeps, MenuClearKeeps
<1>6. CASE \E local, ssl \in BOOLEAN, directory \in Directory, position \in Position :
              Apply(local, ssl, directory, position)
  BY <1>6, ApplyKeeps
<1>7. CASE Cancel
  BY <1>7, CancelKeeps
<1> QED BY <1>1, <1>2, <1>3, <1>4, <1>5, <1>6, <1>7 DEF User

LEMMA PeerKeeps ==
    ASSUME Inv, Peer
    PROVE  Step
BY ReceiveSuggestKeeps, ReceiveVerdictKeeps, DisconnectKeeps DEF Peer

LEMMA TickKeeps ==
    ASSUME Inv, NEW t \in Transfer, Tick(t)
    PROVE  Step
<1>1. CASE SourceResolved(t) \/ EntryResolved(t) \/ StartTransfer(t)
  BY <1>1, SourceResolvedKeeps, EntryResolvedKeeps, StartTransferKeeps
<1>2. CASE Connect(t) \/ Admit(t) \/ Verify(t)
  BY <1>2, ConnectsKeep
<1>3. CASE \E elapsed \in BOOLEAN : Move(t, elapsed) \/ Wait(t, elapsed) \/ Complete(t)
  BY <1>3, RunsKeep
<1>4. CASE Fail(t)
  BY <1>4, FailKeeps
<1> QED BY <1>1, <1>2, <1>3, <1>4 DEF Tick

LEMMA NextKeeps ==
    ASSUME Inv, [Next]_vars
    PROVE  Step
<1>1. CASE Next
  BY <1>1, UserKeeps, PeerKeeps, TickKeeps DEF Next
<1>2. CASE UNCHANGED vars
  <2>1. Now' = Now /\ xfer' = xfer /\ cleared' = cleared
    BY <1>2 DEF vars, Now
  <2>2. Ordered' /\ Proceeds
    BY <2>1 DEF Inv, Ordered, Proceeds
  <2>3. Pointed'
    BY <1>2 DEF vars, Inv, Pointed
  <2> QED BY <2>2, <2>3 DEF Step, Inv
<1> QED BY <1>1, <1>2

\* The rows of both windows are in order between two handlers.
THEOREM InvHolds == Spec => []Inv
<1>1. Init => Inv
  BY InitHolds
<1>2. Inv /\ [Next]_vars => Inv'
  BY NextKeeps DEF Step
<1> QED BY <1>1, <1>2, PTL DEF Spec

\* The variables hold what they are declared to hold, for any number of
\* transfers of each peer and any size of file.
THEOREM TypeCorrect == Spec => []TypeOK
<1>1. Inv => TypeOK
  <2> SUFFICES ASSUME Inv PROVE TypeOK
    OBVIOUS
  <2>1. Typed(Now) /\ Now.ctl = ctl /\ Now.xfer = xfer /\ Now.row = row
    BY DEF Inv, Ordered, InOrder, Kept, Now
  <2>2. ctl \in {"ESTABLISHED", "CLOSED"} /\ xfer \in [Transfer -> Fields]
    BY <2>1 DEF Typed
  <2>3. row["UNAPPROVED"] \in Seq(UnapprovedColumns) /\ row["APPROVED"] \in Seq(ApprovedColumns)
    BY <2>1, RowTypes DEF Tidy
  <2> QED BY <2>2, <2>3 DEF Inv, Pointed, TypeOK, Fields
<1> QED BY <1>1, InvHolds, PTL

\* Whatever fails while a verdict is sent, and however often a change is
\* announced, a transfer that exists has one row, in the window of its verdict,
\* unless the user cleared it from there.
THEOREM OneRowHolds == Spec => []OneRow
<1>1. Inv => OneRow
  <2> SUFFICES ASSUME Inv, NEW t \in Transfer, NEW w \in Window
               PROVE  Cardinality(Rows(w, t)) =
                         IF xfer[t].state # "NONE" /\ w = WindowOf(xfer[t]) /\ <<t, w>> \notin cleared
                         THEN 1 ELSE 0
    BY DEF OneRow
  <2>1. Typed(Now) /\ Now.xfer = xfer /\ Now.row = row /\ Listed(Now, cleared, t)
    BY DEF Inv, Ordered, InOrder, Kept, Now
  <2>2. Tidy(row[w], Columns(w))
    BY <2>1 DEF Typed
  <2>3. /\ DOMAIN row[w] = 1 .. Len(row[w])
        /\ \A i, j \in 1 .. Len(row[w]) : row[w][i].of = row[w][j].of => i = j
    BY <2>2, LenProperties DEF Tidy
  <2>4. HasRow(Now, w, t) <=> Rows(w, t) # {}
    BY <2>1, <2>3 DEF HasRow, Rows, ToSet
  <2>5. \A i, j \in Rows(w, t) : i = j
    BY <2>3 DEF Rows
  <2>6. CASE Rows(w, t) = {}
    BY <2>1, <2>4, <2>6, FS_EmptySet DEF Listed
  <2>7. CASE Rows(w, t) # {}
    <3>1. PICK i : Rows(w, t) = {i}
      BY <2>5, <2>7
    <3>2. Cardinality(Rows(w, t)) = 1
      BY <3>1, FS_Singleton
    <3> QED BY <2>1, <2>4, <2>7, <3>2 DEF Listed
  <2> QED BY <2>6, <2>7
<1> QED BY <1>1, InvHolds, PTL

\* Every handler announces the last change it makes, to whichever window the
\* transfer is in by then, and so does every abort of a closing connection.  The
\* exceptions are the property's own: the SSL setting of an aborted transfer, and
\* a directory that was changed in the state the transfer is still in.
THEOREM ShownIsCurrentHolds == Spec => []ShownIsCurrent
<1>1. Inv => ShownIsCurrent
  <2> SUFFICES ASSUME Inv PROVE ShownIsCurrent
    OBVIOUS
  <2>1. /\ Typed(Now) /\ Now.xfer = xfer /\ Now.row = row
        /\ \A t \in Transfer : Current(Now, t)
    BY DEF Inv, Ordered, InOrder, Kept, Now
  <2>2. /\ \A r \in ToSet(row["UNAPPROVED"]) : r.of \in Transfer
        /\ \A r \in ToSet(row["APPROVED"]) : r.of \in Transfer
    BY <2>1, RowTypes DEF UnapprovedColumns, ApprovedColumns
  <2>3. \A w \in Window : \A i \in DOMAIN row[w] : row[w][i] \in ToSet(row[w])
    BY DEF ToSet
  <2>4. "UNAPPROVED" \in Window /\ "APPROVED" \in Window
    BY DEF Window
  <2> QED BY <2>1, <2>2, <2>3, <2>4 DEF ShownIsCurrent, Current
<1> QED BY <1>1, InvHolds, PTL

\* The count that is compared at each interval, and the flag that remembers
\* that nothing moved, never leave a final progress unwritten.
THEOREM FinalProgressHolds == Spec => []FinalProgress
<1>1. Inv => FinalProgress
  <2> SUFFICES ASSUME Inv, NEW i \in DOMAIN row["APPROVED"]
               PROVE  LET r == row["APPROVED"][i]
                          x == xfer[r.of]
                      IN  /\ x.state = "COMPLETED" => r.progress = Size
                          /\ x.state = "ABORTED" =>
                                r.progress = x.current \/ (r.progress = 0 /\ x.current = x.from)
    BY DEF FinalProgress
  <2>1. /\ Typed(Now) /\ Now.xfer = xfer /\ Now.row = row
        /\ \A t \in Transfer : Progressed(Now, t, TRUE)
    BY DEF Inv, Ordered, InOrder, Kept, Now
  <2> DEFINE r == row["APPROVED"][i]
  <2>2. r \in ToSet(row["APPROVED"])
    BY DEF ToSet
  <2>3. r.of \in Transfer
    BY <2>1, <2>2, RowTypes DEF ApprovedColumns
  <2> HIDE DEF r
  <2>4. Fits(r.progress, xfer[r.of])
    BY <2>1, <2>2, <2>3 DEF Progressed
  <2> QED BY <2>4 DEF r, Fits, Tells
<1> QED BY <1>1, InvHolds, PTL

\* Neither the user, whose menu may have been opened before the transfer moved
\* on, nor the peer, nor the tick gives a transfer a second verdict.
THEOREM VerdictOnceHolds == Spec => VerdictOnce
<1>1. Inv /\ [Next]_vars =>
         [\A t \in Transfer :
             xfer[t].verdict # "PENDING" => xfer'[t].verdict = xfer[t].verdict]_vars
  BY NextKeeps DEF Step, Proceeds
<1> QED BY <1>1, InvHolds, PTL DEF Spec, VerdictOnce
==============================================================================
