---------------------------- MODULE Editing_proofs ----------------------------
(* A version names one content, a save goes to the right customer, and a save    *)
(* whose parts come from one read overwrites nothing unseen: for every number   *)
(* of customers, names, forms and events.                                    *)
EXTENDS Editing, TLAPS

-----------------------------------------------------------------------------
(* The inductive invariant.                                                 *)

PutType ==
    [stage : Stages, tenant : 0 .. MaxTenants, name : 0 .. MaxNames, tries : 0 .. 1,
     env : RowType, shown : ReadType, rest : ReadType, lock : ReadType]

LeftType ==
    [saves : Nat, updates : Nat, applies : Nat, deletes : Nat, creates : Nat, switches : Nat,
     others : Nat]

Typed ==
    /\ TypeOK
    /\ put \in PutType
    /\ dialog \in [open : BOOLEAN, state : ReadType, draft : ReadType]

(* A stored document has an id that was drawn before, and a version. *)
Stored(row) == row \in RowType /\ row.id \in 1 .. (clock - 1) /\ row.version > 0

IsRead(r) ==
    \/ r = Nothing
    \/ r.tenant \in Tenants /\ r.name \in Names /\ Stored(r.row)

AllReal ==
    /\ \A r \in Reads : IsRead(r)
    /\ \A x \in Tenants, n \in Names : rows[x][n] = NoRow \/ Stored(rows[x][n])

(* A read of a row that is still there is not newer than the row, and equal to  *)
(* it if it is not older.                                                    *)
NotAhead(r) ==
    LET row == rows[r.tenant][r.name] IN
    row.id = r.row.id /\ r.row.id \notin recounted =>
        /\ r.row.version <= row.version
        /\ r.row.version = row.version => r.row = row

NoneAhead == \A r \in Reads : r # Nothing => NotAhead(r)

ReadsAgree == \A r, s \in Reads : SameVersionOf(r, s) => r.row = s.row

(* Between look and write: the id of a new document is nobody else's, and a      *)
(* changed one moves on from the version that was read.                      *)
Looked ==
    put.stage = "write" =>
        /\ put.env.id \in 1 .. (clock - 1)
        /\ Creates => /\ \A r \in Reads : r.row.id # put.env.id
                      /\ \A x \in Tenants, n \in Names : rows[x][n].id # put.env.id
        /\ ~Creates /\ form.by = "name" => put.env.version = put.lock.row.version + 1

(* What an unguarded write has read is not the new document of the save. *)
Pending ==
    apply # Nothing =>
        /\ apply.tenant \in Tenants /\ apply.name \in Names
        /\ apply.row = NoRow \/ Stored(apply.row)
        /\ put.stage = "write" /\ Creates => apply.row.id # put.env.id

(* As long as no other tab switches, everything on the page is the customer's. *)
Belongs(r) == r # Nothing => r.tenant = tenant

PageBelongs ==
    ~otherTab =>
        /\ \A n \in Names : Belongs(cache[n])
        /\ Belongs(dialog.state) /\ Belongs(dialog.draft)
        /\ \A c \in clicks : c.tenant = tenant

GetsAgain == put.stage = "get" => form.lock = "save" \/ put.tries = 1

EditInv ==
    /\ Typed /\ AllReal /\ NoneAhead /\ ReadsAgree /\ Looked /\ Pending
    /\ PageBelongs /\ GetsAgain /\ RightCustomer

-----------------------------------------------------------------------------
LEMMA Domains ==
    /\ Tenants \subseteq 0 .. MaxTenants /\ Names \subseteq 0 .. MaxNames
    /\ 0 \notin Tenants /\ 1 \in Tenants
    /\ MaxTenants \in Nat \ {0} /\ MaxNames \in Nat \ {0}
BY EditingAssumption DEF EditingAssumption, Tenants, Names

LEMMA Nulls ==
    /\ NoRow \in RowType /\ NoRow.id = 0 /\ NoRow.version = 0
    /\ Nothing \in ReadType /\ Nothing.tenant = 0 /\ Nothing.row = NoRow
BY Domains DEF NoRow, Nothing, RowType, ReadType

LEMMA ReadTyped ==
    ASSUME Typed, NEW x \in Tenants, NEW n \in Names
    PROVE  /\ Read(x, n) \in ReadType /\ rows[x][n] \in RowType
           /\ Read(x, n).tenant = x /\ Read(x, n).name = n /\ Read(x, n).row = rows[x][n]
           /\ Read(x, n) # Nothing
<1>1. rows[x][n] \in RowType
  BY DEF Typed, TypeOK, LeftType
<1>2. Read(x, n).tenant # Nothing.tenant
  BY Nulls, Domains DEF Read
<1> QED
  BY <1>1, <1>2, Domains DEF Read, ReadType

LEMMA InReads ==
    /\ \A n \in Names : cache[n] \in Reads
    /\ dialog.state \in Reads /\ dialog.draft \in Reads
    /\ put.shown \in Reads /\ put.rest \in Reads /\ put.lock \in Reads
BY DEF Reads

(* The tab reads, the rows stay. *)
LEMMA ReadsStep ==
    ASSUME EditInv, rows' = rows, recounted' = recounted,
           clock' \in Nat, clock <= clock',
           \A r \in Reads' : \/ r \in Reads
                             \/ r = Nothing
                             \/ \E x \in Tenants, n \in Names : rows[x][n] # NoRow /\ r = Read(x, n)
    PROVE  AllReal' /\ NoneAhead' /\ ReadsAgree'
<1> USE DEF EditInv
<1>1. clock \in Nat
  BY DEF Typed, TypeOK, LeftType
<1>2. ASSUME NEW row, Stored(row) PROVE row \in RowType /\ row.id \in 1 .. (clock' - 1) /\ row.version > 0
  BY <1>1, <1>2 DEF Stored
<1>3. \A x \in Tenants, n \in Names : (rows[x][n] = NoRow \/ Stored(rows[x][n]))'
  BY <1>2 DEF AllReal, Stored
<1>4. \A r \in Reads' : IsRead(r) /\ (r # Nothing => NotAhead(r))
  <2> TAKE r \in Reads'
  <2>1. CASE r \in Reads
    BY <2>1 DEF AllReal, NoneAhead
  <2>2. CASE r = Nothing
    BY <2>2 DEF IsRead
  <2>3. ASSUME NEW x \in Tenants, NEW n \in Names, rows[x][n] # NoRow, r = Read(x, n)
        PROVE  IsRead(r) /\ NotAhead(r)
    <3>1. Stored(rows[x][n])
      BY <2>3 DEF AllReal
    <3>2. r.tenant = x /\ r.name = n /\ r.row = rows[x][n] /\ r.row.version \in Nat
      BY <2>3, ReadTyped DEF RowType
    <3> QED
      BY <3>1, <3>2 DEF IsRead, NotAhead
  <2> QED
    BY <2>1, <2>2, <2>3
<1>5. AllReal'
  <2>1. ASSUME NEW r \in Reads' PROVE IsRead(r)'
    BY <1>2, <1>4 DEF IsRead, Stored
  <2> QED
    BY <1>3, <2>1 DEF AllReal
<1>6. NoneAhead'
  BY <1>4 DEF NoneAhead, NotAhead
<1>7. ASSUME NEW r \in Reads', NEW s \in Reads', SameVersionOf(r, s) PROVE r.row = s.row
  <2>1. r = Nothing <=> s = Nothing
    BY <1>4, <1>7, Domains, Nulls DEF SameVersionOf, IsRead
  <2>2. CASE r = Nothing
    BY <2>1, <2>2
  <2>3. ASSUME NEW x \in Tenants, NEW n \in Names, r = Read(x, n), s # Nothing PROVE r.row = s.row
    BY <1>4, <1>7, <2>3, ReadTyped DEF SameVersionOf, NotAhead
  <2>4. ASSUME NEW x \in Tenants, NEW n \in Names, s = Read(x, n), r # Nothing PROVE r.row = s.row
    BY <1>4, <1>7, <2>4, ReadTyped DEF SameVersionOf, NotAhead
  <2>5. CASE r \in Reads /\ s \in Reads
    BY <1>7, <2>5 DEF ReadsAgree
  <2> QED
    BY <2>1, <2>2, <2>3, <2>4, <2>5
<1>8. ReadsAgree'
  BY <1>7 DEF ReadsAgree, SameVersionOf
<1> QED
  BY <1>5, <1>6, <1>8

(* One row is written or deleted: what is known of it stays behind it, be it     *)
(* because the id is new, the version is, or the id was brought back.          *)
LEMMA RowStep ==
    ASSUME EditInv, NEW x \in Tenants, NEW n \in Names, NEW row,
           rows' = [rows EXCEPT ![x][n] = row], recounted \subseteq recounted',
           clock' \in Nat, clock <= clock',
           \A r \in Reads' : r \in Reads \/ r = Nothing,
           \/ row = NoRow
           \/ /\ row \in RowType /\ row.id \in 1 .. (clock' - 1) /\ row.version > 0
              /\ \/ row.id \in recounted'
                 \/ \A r \in Reads : r.row.id # row.id
                 \/ row.id = rows[x][n].id /\ row.version = rows[x][n].version + 1
    PROVE  AllReal' /\ NoneAhead' /\ ReadsAgree'
<1> USE DEF EditInv
<1>1. clock \in Nat /\ rows \in [Tenants -> [Names -> RowType]]
  BY DEF Typed, TypeOK, LeftType
<1>2. ASSUME NEW a, Stored(a) PROVE a \in RowType /\ a.id \in 1 .. (clock' - 1) /\ a.version > 0
  BY <1>1, <1>2 DEF Stored
<1>3. /\ rows'[x][n] = row
      /\ \A y \in Tenants, m \in Names : <<y, m>> # <<x, n>> => rows'[y][m] = rows[y][m]
  BY <1>1
<1>4. AllReal'
  <2>1. ASSUME NEW r \in Reads' PROVE IsRead(r)'
    BY <1>2 DEF AllReal, IsRead, Stored
  <2>2. ASSUME NEW y \in Tenants, NEW m \in Names
        PROVE  (rows[y][m] = NoRow \/ Stored(rows[y][m]))'
    BY <1>2, <1>3 DEF AllReal, Stored
  <2> QED
    BY <2>1, <2>2 DEF AllReal
<1>5. NoneAhead'
  <2> SUFFICES ASSUME NEW r \in Reads', r # Nothing,
                      rows'[r.tenant][r.name].id = r.row.id, r.row.id \notin recounted'
               PROVE  /\ r.row.version <= rows'[r.tenant][r.name].version
                      /\ r.row.version = rows'[r.tenant][r.name].version
                           => r.row = rows'[r.tenant][r.name]
    BY DEF NoneAhead, NotAhead
  <2>1. r \in Reads /\ IsRead(r) /\ NotAhead(r)
    BY DEF AllReal, NoneAhead
  <2>2. r.tenant \in Tenants /\ r.name \in Names /\ Stored(r.row) /\ r.row.version \in Nat
    BY <2>1 DEF IsRead, Stored, RowType
  <2>3. CASE <<r.tenant, r.name>> # <<x, n>>
    BY <1>3, <2>1, <2>2, <2>3 DEF NotAhead
  <2>4. CASE r.tenant = x /\ r.name = n
    <3>1. row # NoRow
      BY <1>3, <2>2, <2>4, Nulls DEF Stored
    <3>2. row.id = rows[x][n].id /\ row.version = rows[x][n].version + 1
      BY <1>3, <2>1, <2>4, <3>1
    <3>3. r.row.version <= rows[x][n].version /\ rows[x][n].version \in Nat
      BY <1>1, <1>3, <2>1, <2>4, <3>2 DEF NotAhead, RowType
    <3> QED
      BY <1>3, <2>2, <2>4, <3>2, <3>3
  <2> QED
    BY <2>3, <2>4
<1>6. ASSUME NEW r \in Reads', NEW s \in Reads', SameVersionOf(r, s)' PROVE r.row = s.row
  <2>1. r = Nothing <=> s = Nothing
    BY <1>6, Domains, Nulls DEF AllReal, SameVersionOf, IsRead
  <2>2. CASE r # Nothing
    BY <1>6, <2>1, <2>2 DEF ReadsAgree, SameVersionOf
  <2> QED
    BY <2>1, <2>2
<1>7. ReadsAgree'
  BY <1>6 DEF ReadsAgree
<1> QED
  BY <1>4, <1>5, <1>7

(* What the tab reads and others write meanwhile does not touch a save that has  *)
(* been looked at.                                                            *)
LEMMA LookedKept ==
    ASSUME EditInv, UNCHANGED <<put, form>>, clock' \in Nat, clock <= clock',
           \A r \in Reads' : \/ r \in Reads
                             \/ r = Nothing
                             \/ \E x \in Tenants, n \in Names : r = Read(x, n),
           \A x \in Tenants, n \in Names :
              \/ rows'[x][n].id \in {rows[x][n].id, 0, clock, apply.row.id}
              \/ \E r \in Reads : rows'[x][n].id = r.row.id
    PROVE  Looked'
<1> SUFFICES ASSUME put.stage = "write"
             PROVE  /\ put.env.id \in 1 .. (clock' - 1)
                    /\ Creates => /\ \A r \in Reads' : r.row.id # put.env.id
                                  /\ \A x \in Tenants, n \in Names : rows'[x][n].id # put.env.id
                    /\ ~Creates /\ form.by = "name" => put.env.version = put.lock.row.version + 1
  BY DEF Looked, Creates
<1>1. clock \in Nat /\ put.env.id \in 1 .. (clock - 1)
  BY DEF EditInv, Typed, TypeOK, LeftType, Looked
<1>2. ASSUME Creates, NEW r \in Reads' PROVE r.row.id # put.env.id
  <2>1. CASE r = Nothing
    BY <1>1, <2>1, Nulls
  <2>2. ASSUME NEW x \in Tenants, NEW n \in Names, r = Read(x, n) PROVE r.row.id # put.env.id
    BY <1>2, <2>2 DEF EditInv, Looked, Read
  <2> QED
    BY <1>2, <2>1, <2>2 DEF EditInv, Looked
<1>3. ASSUME Creates, NEW x \in Tenants, NEW n \in Names PROVE rows'[x][n].id # put.env.id
  <2>1. apply.row.id # put.env.id
    BY <1>1, <1>3, Nulls DEF EditInv, Pending
  <2> QED
    BY <1>1, <1>3, <2>1 DEF EditInv, Looked
<1> QED
  BY <1>1, <1>2, <1>3 DEF EditInv, Looked

LEMMA PendingKept ==
    ASSUME EditInv, apply' \in {apply, Nothing}, clock' \in Nat, clock <= clock',
           put'.stage = "write" /\ Creates' =>
              put'.env.id = clock \/ (put.stage = "write" /\ Creates /\ put'.env = put.env)
    PROVE  Pending'
<1> SUFFICES ASSUME apply # Nothing, apply' = apply
             PROVE  /\ apply.row = NoRow \/ Stored(apply.row)'
                    /\ put'.stage = "write" /\ Creates' => apply.row.id # put'.env.id
  BY DEF Pending, EditInv
<1>1. clock \in Nat \ {0}
  BY DEF EditInv, Typed, TypeOK
<1>2. apply.row = NoRow \/ Stored(apply.row)
  BY DEF EditInv, Pending
<1>3. apply.row = NoRow \/ Stored(apply.row)'
  BY <1>1, <1>2 DEF Stored
<1>4. apply.row.id # clock
  BY <1>1, <1>2, Nulls DEF Stored
<1> QED
  BY <1>3, <1>4 DEF EditInv, Pending

-----------------------------------------------------------------------------
(* The steps of the tab that leave the save and the rows alone. *)

LEMMA TabStep ==
    ASSUME EditInv, Typed', UNCHANGED <<form, rows, clock, put, recounted, apply>>,
           \A r \in Reads' : \/ r \in Reads
                             \/ r = Nothing
                             \/ \E x \in Tenants, n \in Names : rows[x][n] # NoRow /\ r = Read(x, n),
           PageBelongs', otherTab => otherTab'
    PROVE  EditInv'
<1>1. clock \in Nat
  BY DEF EditInv, Typed, TypeOK, LeftType
<1>2. AllReal' /\ NoneAhead' /\ ReadsAgree'
  BY <1>1, ReadsStep
<1>3. Looked' /\ Pending'
  BY <1>1, LookedKept, PendingKept DEF Creates
<1>4. GetsAgain' /\ RightCustomer'
  BY DEF EditInv, GetsAgain, RightCustomer
<1> QED
  BY <1>2, <1>3, <1>4 DEF EditInv

(* What the cache, the dialog and a save hold after a step, one by one. *)
LEMMA ReadsAre ==
    ASSUME NEW S,
           \A n \in Names : cache'[n] \in S,
           dialog'.state \in S, dialog'.draft \in S,
           put'.shown \in S, put'.rest \in S, put'.lock \in S
    PROVE  \A r \in Reads' : r \in S
BY DEF Reads

LEMMA ClickStep ==
    ASSUME EditInv, NEW n \in Names, Click(n)
    PROVE  EditInv'
<1>1. Typed'
  BY DEF EditInv, Typed, TypeOK, LeftType, Click, PutType
<1>2. PageBelongs'
  BY DEF EditInv, PageBelongs, Belongs, Click
<1>3. Reads' = Reads
  BY DEF Click, Reads
<1> QED
  BY <1>1, <1>2, <1>3, TabStep DEF Click

LEMMA ArriveStep ==
    ASSUME EditInv, NEW c \in clicks, Arrive(c)
    PROVE  EditInv'
<1>1. c.tenant \in Tenants /\ c.name \in Names
  BY DEF EditInv, Typed, TypeOK, LeftType
<1>2. CASE rows[c.tenant][c.name] = NoRow
  <2>1. Typed' /\ PageBelongs' /\ Reads' = Reads
    BY <1>2 DEF EditInv, Typed, TypeOK, LeftType, Arrive, PutType, PageBelongs, Belongs, Reads
  <2> QED
    BY <2>1, TabStep DEF Arrive
<1>3. CASE rows[c.tenant][c.name] # NoRow
  <2> DEFINE read == Read(c.tenant, c.name)
  <2>1. read \in ReadType /\ read.tenant = c.tenant
    BY <1>1, ReadTyped DEF EditInv
  <2>2. dialog' = [open |-> TRUE, state |-> read,
                   draft |-> IF dialog.open THEN dialog.draft ELSE read]
    BY <1>3 DEF Arrive
  <2>3. \E x \in Tenants, n \in Names : rows[x][n] # NoRow /\ read = Read(x, n)
    BY <1>1, <1>3
  <2> HIDE DEF read
  <2>4. dialog' \in [open : BOOLEAN, state : ReadType, draft : ReadType]
    BY <2>1, <2>2 DEF EditInv, Typed
  <2>5. Typed'
    BY <2>4 DEF EditInv, Typed, TypeOK, LeftType, Arrive, PutType
  <2>6. PageBelongs'
    BY <2>1, <2>2 DEF EditInv, PageBelongs, Belongs, Arrive
  <2>7. \A r \in Reads' : r \in Reads \cup {read}
    <3>1. /\ dialog'.state \in Reads \cup {read} /\ dialog'.draft \in Reads \cup {read}
          /\ UNCHANGED <<cache, put>>
      BY <2>2, InReads DEF Arrive
    <3> QED
      BY <3>1, ReadsAre, InReads
  <2> QED
    BY <2>3, <2>5, <2>6, <2>7, TabStep DEF Arrive
<1> QED
  BY <1>2, <1>3

LEMMA FetchStep ==
    ASSUME EditInv, NEW n \in Names, Fetch(n)
    PROVE  EditInv'
<1> DEFINE read == Read(tenant, n)
<1>1. tenant \in Tenants /\ cache' = [cache EXCEPT ![n] = read] /\ cache \in [Names -> ReadType]
  BY DEF EditInv, Typed, TypeOK, LeftType, Fetch
<1>2. read \in ReadType /\ read.tenant = tenant
  BY <1>1, ReadTyped DEF EditInv
<1>3. rows[tenant][n] # NoRow
  BY DEF Fetch
<1>4. \E x \in Tenants, m \in Names : rows[x][m] # NoRow /\ read = Read(x, m)
  BY <1>1, <1>3
<1> HIDE DEF read
<1>5. Typed'
  BY <1>1, <1>2 DEF EditInv, Typed, TypeOK, LeftType, Fetch, PutType
<1>6. PageBelongs'
  BY <1>1, <1>2 DEF EditInv, PageBelongs, Belongs, Fetch
<1>7. \A r \in Reads' : r \in Reads \cup {read}
  BY <1>1, ReadsAre, InReads DEF Fetch
<1> QED
  BY <1>4, <1>5, <1>6, <1>7, TabStep DEF Fetch

LEMMA DialogStep ==
    ASSUME EditInv, New \/ Cancel \/ \E n \in Names : Open(n)
    PROVE  EditInv'
<1>1. /\ UNCHANGED <<form, rows, clock, tenant, cache, clicks, put, recounted, apply, otherTab, left>>
      /\ dialog' \in [open : BOOLEAN, state : ReadType, draft : ReadType]
      /\ dialog'.state = Nothing
      /\ dialog'.draft = Nothing \/ \E n \in Names : dialog'.draft = cache[n]
  <2>1. CASE New
    BY <2>1, Nulls DEF New, Closed
  <2>2. CASE Cancel
    BY <2>2, Nulls DEF Cancel, Closed
  <2>3. ASSUME NEW n \in Names, Open(n)
        PROVE  /\ UNCHANGED <<form, rows, clock, tenant, cache, clicks, put, recounted, apply, otherTab, left>>
               /\ dialog' = [open |-> TRUE, state |-> Nothing, draft |-> cache[n]]
               /\ cache[n] \in ReadType
    BY <2>3 DEF Open, EditInv, Typed, TypeOK, LeftType
  <2>4. CASE \E n \in Names : Open(n)
    <3>1. PICK n \in Names : Open(n)
      BY <2>4
    <3>2. dialog' = [open |-> TRUE, state |-> Nothing, draft |-> cache[n]] /\ cache[n] \in ReadType
      BY <2>3, <3>1
    <3>3. UNCHANGED <<form, rows, clock, tenant, cache, clicks, put, recounted, apply, otherTab, left>>
      BY <2>3, <3>1
    <3> QED
      BY <3>2, <3>3, Nulls
  <2> QED
    BY <2>1, <2>2, <2>4
<1>2. Typed'
  BY <1>1 DEF EditInv, Typed, TypeOK, LeftType, PutType
<1>3. PageBelongs'
  BY <1>1 DEF EditInv, PageBelongs, Belongs
<1>4. \A r \in Reads' : r \in Reads \cup {Nothing}
  BY <1>1, ReadsAre, InReads
<1> QED
  BY <1>1, <1>2, <1>3, <1>4, TabStep

LEMMA SwitchStep ==
    ASSUME EditInv, NEW x \in Tenants, Switch(x) \/ SwitchElsewhere(x)
    PROVE  EditInv'
<1>1. CASE Switch(x)
  <2>1. /\ tenant' = x /\ cache' = [n \in Names |-> Nothing] /\ dialog' = Closed /\ clicks' = {}
        /\ UNCHANGED <<form, rows, clock, put, recounted, apply, otherTab>>
        /\ left' = [left EXCEPT !.switches = @ - 1] /\ left.switches > 0
    BY <1>1 DEF Switch, FreshCache
  <2>2. Typed'
    BY <2>1, Nulls DEF EditInv, Typed, TypeOK, LeftType, Closed, PutType
  <2>3. PageBelongs'
    BY <2>1 DEF PageBelongs, Belongs, Closed
  <2>4. \A r \in Reads' : r \in Reads \cup {Nothing}
    BY <2>1, ReadsAre, InReads DEF Closed
  <2> QED
    BY <2>1, <2>2, <2>3, <2>4, TabStep
<1>2. CASE SwitchElsewhere(x)
  <2>1. Typed'
    BY <1>2 DEF SwitchElsewhere, EditInv, Typed, TypeOK, LeftType, PutType
  <2>2. PageBelongs' /\ Reads' = Reads
    BY <1>2 DEF SwitchElsewhere, PageBelongs, Reads
  <2> QED
    BY <1>2, <2>1, <2>2, TabStep DEF SwitchElsewhere
<1> QED
  BY <1>1, <1>2

-----------------------------------------------------------------------------
(* The steps of a save.                                                    *)

(* A save moves on without a write. *)
LEMMA PutMoves ==
    ASSUME EditInv, put' \in PutType, put'.stage # "idle" => put'.tenant \in Tenants /\ put'.name \in Names,
           UNCHANGED <<form, rows, tenant, cache, clicks, recounted, apply, otherTab>>,
           dialog' \in {dialog, Closed},
           clock' \in Nat, clock <= clock', left' \in
             LeftType,
           \A r \in {put'.shown, put'.rest, put'.lock} :
              \/ r \in Reads
              \/ r = Nothing
              \/ \E x \in Tenants, n \in Names : rows[x][n] # NoRow /\ r = Read(x, n)
    PROVE  Typed' /\ AllReal' /\ NoneAhead' /\ ReadsAgree' /\ PageBelongs'
<1>1. Closed \in [open : BOOLEAN, state : ReadType, draft : ReadType]
      /\ Closed.state = Nothing /\ Closed.draft = Nothing
  BY Nulls DEF Closed
<1>2. Typed'
  <2>1. clock' \in Nat \ {0}
    BY DEF EditInv, Typed, TypeOK, LeftType
  <2>2. dialog' \in [open : BOOLEAN, state : ReadType, draft : ReadType]
    BY <1>1 DEF EditInv, Typed
  <2> QED
    BY <2>1, <2>2 DEF EditInv, Typed, TypeOK, LeftType, PutType
<1>3. PageBelongs'
  BY <1>1 DEF EditInv, PageBelongs, Belongs
<1>4. ASSUME NEW r \in Reads'
      PROVE  \/ r \in Reads
             \/ r = Nothing
             \/ \E x \in Tenants, n \in Names : rows[x][n] # NoRow /\ r = Read(x, n)
  <2>1. CASE \E n \in Names : r = cache[n]
    BY <2>1, InReads
  <2>2. CASE r \in {dialog'.state, dialog'.draft}
    BY <1>1, <2>2, InReads
  <2>3. CASE r \in {put'.shown, put'.rest, put'.lock}
    BY <2>3
  <2> QED
    BY <2>1, <2>2, <2>3 DEF Reads
<1>5. AllReal' /\ NoneAhead' /\ ReadsAgree'
  BY <1>4, ReadsStep
<1> QED
  BY <1>2, <1>3, <1>5

(* Where the parts of a save come from: something the tab holds, and as long as   *)
(* nobody else switches the customer, something of this one.                  *)
LEMMA FromReads ==
    ASSUME EditInv, NEW where
    PROVE  /\ From(where) \in Reads \cup {Nothing} /\ From(where) \in ReadType
           /\ ~otherTab => Belongs(From(where))
<1>1. CASE where = "draft" \/ where = "prop"
  BY <1>1, InReads DEF From, EditInv, Typed, PageBelongs
<1>2. CASE where = "query" /\ dialog.draft # Nothing
  <2>1. dialog.draft.name \in Names
    BY <1>2, InReads DEF EditInv, AllReal, IsRead
  <2>2. From(where) = cache[dialog.draft.name]
    BY <1>2 DEF From
  <2> QED
    BY <2>1, <2>2, InReads DEF EditInv, Typed, TypeOK, LeftType, PageBelongs
<1>3. CASE ~(where = "draft" \/ where = "prop") /\ ~(where = "query" /\ dialog.draft # Nothing)
  <2>1. From(where) = Nothing
    BY <1>3 DEF From
  <2> QED
    BY <2>1, Nulls DEF Belongs
<1> QED
  BY <1>1, <1>2, <1>3

LEMMA SaveStep ==
    ASSUME EditInv, NEW n \in Names, Save(n)
    PROVE  EditInv'
<1> DEFINE stage == IF form.lock = "save" /\ dialog.draft # Nothing THEN "get" ELSE "sent"
<1>1. put' = [stage |-> stage, tenant |-> tenant, name |-> n, tries |-> 0, env |-> NoRow,
              shown |-> dialog.draft, rest |-> From(form.rest), lock |-> From(form.lock)]
  BY DEF Save, Idle
<1>2. tenant \in Tenants /\ stage \in {"get", "sent"} /\ dialog.draft \in ReadType
  BY DEF EditInv, Typed, TypeOK, LeftType
<1>3. stage = "get" => form.lock = "save"
  OBVIOUS
<1> HIDE DEF stage
<1>4. /\ put' \in PutType /\ put'.tenant \in Tenants /\ put'.name \in Names
      /\ \A r \in {put'.shown, put'.rest, put'.lock} : r \in Reads \/ r = Nothing
      /\ put'.stage # "write" /\ (put'.stage = "get" => form.lock = "save")
      /\ put'.tenant = tenant /\ put'.shown = dialog.draft /\ put'.lock = From(form.lock)
  BY <1>1, <1>2, <1>3, FromReads, InReads, Nulls, Domains DEF PutType, Stages
<1>5. clock \in Nat /\ left' \in
        LeftType
  BY DEF EditInv, Typed, TypeOK, LeftType, Save
<1>6. UNCHANGED <<form, rows, clock, tenant, cache, clicks, dialog, recounted, apply, otherTab>>
  BY DEF Save
<1>7. Typed' /\ AllReal' /\ NoneAhead' /\ ReadsAgree' /\ PageBelongs'
  BY <1>4, <1>5, <1>6, PutMoves
<1>8. Looked' /\ GetsAgain' /\ Pending'
  BY <1>4, <1>5, <1>6, PendingKept DEF Looked, GetsAgain
<1>9. RightCustomer'
  BY <1>4, <1>6, FromReads DEF RightCustomer, Belongs, EditInv, PageBelongs
<1> QED
  BY <1>7, <1>8, <1>9 DEF EditInv

LEMMA FreshenStep ==
    ASSUME EditInv, Freshen
    PROVE  EditInv'
<1> DEFINE read == Read(put.tenant, put.name)
<1>1. /\ put \in PutType /\ put.stage = "get" /\ tenant \in Tenants
      /\ put.tenant \in Tenants /\ put.name \in Names
      /\ UNCHANGED <<form, rows, clock, tenant, cache, clicks, dialog, recounted, apply, otherTab, left>>
  BY DEF EditInv, Typed, TypeOK, LeftType, Freshen
<1>2. read \in ReadType /\ (rows[put.tenant][put.name] # NoRow =>
         \E x \in Tenants, n \in Names : rows[x][n] # NoRow /\ read = Read(x, n))
  BY <1>1, ReadTyped DEF EditInv
<1>3. \/ put' = [put EXCEPT !.stage = "refused"]
      \/ /\ rows[put.tenant][put.name] # NoRow
         /\ put' = [put EXCEPT !.stage = "sent", !.tenant = tenant, !.rest = read, !.lock = read]
  BY DEF Freshen
<1> HIDE DEF read
<1>4. /\ put' \in PutType /\ put'.tenant \in Tenants /\ put'.name \in Names
      /\ put'.stage \notin {"write", "get", "idle"} /\ put'.tries = put.tries
  BY <1>1, <1>2, <1>3, Domains DEF PutType, Stages
<1>5. \A r \in {put'.shown, put'.rest, put'.lock} :
         \/ r \in Reads
         \/ \E x \in Tenants, n \in Names : rows[x][n] # NoRow /\ r = Read(x, n)
  BY <1>1, <1>2, <1>3, InReads DEF PutType
<1>6. clock \in Nat /\ left' \in
        LeftType
  BY <1>1 DEF EditInv, Typed, TypeOK, LeftType
<1>7. Typed' /\ AllReal' /\ NoneAhead' /\ ReadsAgree' /\ PageBelongs'
  BY <1>1, <1>4, <1>5, <1>6, PutMoves
<1>8. Looked' /\ GetsAgain' /\ RightCustomer'
  BY <1>1, <1>4 DEF Looked, GetsAgain, RightCustomer, EditInv
<1>9. Pending'
  BY <1>1, <1>4, <1>6, PendingKept
<1> QED
  BY <1>7, <1>8, <1>9 DEF EditInv

LEMMA AnswerStep ==
    ASSUME EditInv, ReadAnswer
    PROVE  EditInv'
<1>1. /\ put \in PutType /\ tenant \in Tenants /\ clock \in Nat
      /\ put.stage # "idle" => put.tenant \in Tenants /\ put.name \in Names
      /\ UNCHANGED <<form, rows, clock, tenant, cache, clicks, recounted, apply, otherTab, left>>
      /\ left' \in
          LeftType
  BY DEF EditInv, Typed, TypeOK, LeftType, ReadAnswer
<1>2. \/ dialog' \in {dialog, Closed} /\ put' = Idle
      \/ /\ dialog' = dialog /\ put.stage = "conflict"
         /\ put' = [put EXCEPT !.stage = "get", !.tenant = tenant, !.tries = 1]
  BY DEF ReadAnswer, Answer
<1>3. /\ put' \in PutType /\ (put'.stage # "idle" => put'.tenant \in Tenants /\ put'.name \in Names)
      /\ put'.stage # "write" /\ (put'.stage = "get" => put'.tries = 1)
      /\ put'.stage \in {"idle", "get"} /\ dialog' \in {dialog, Closed}
  <2>1. CASE put' = Idle
    <3>1. Idle \in PutType /\ Idle.stage = "idle"
      BY Nulls, Domains DEF PutType, Stages, Idle
    <3> QED
      BY <1>2, <2>1, <3>1
  <2>2. CASE put' = [put EXCEPT !.stage = "get", !.tenant = tenant, !.tries = 1] /\ put.stage = "conflict"
    <3>1. put' \in PutType
      <4>1. "get" \in Stages /\ 1 \in 0 .. 1 /\ tenant \in 0 .. MaxTenants
        BY <1>1, Domains DEF Stages
      <4> QED
        BY <1>1, <2>2, <4>1 DEF PutType
    <3>2. put'.stage = "get" /\ put'.tries = 1 /\ put'.tenant = tenant /\ put'.name = put.name
      BY <1>1, <2>2 DEF PutType
    <3>3. put.name \in Names
      BY <1>1, <2>2
    <3> QED
      BY <1>1, <1>2, <3>1, <3>2, <3>3
  <2> QED
    BY <1>2, <2>1, <2>2
<1>4. \A r \in {put'.shown, put'.rest, put'.lock} : r \in Reads \/ r = Nothing
  <2>1. Idle.shown = Nothing /\ Idle.rest = Nothing /\ Idle.lock = Nothing
    BY DEF Idle
  <2>2. CASE put' = [put EXCEPT !.stage = "get", !.tenant = tenant, !.tries = 1]
    BY <1>1, <2>2, InReads DEF PutType
  <2> QED
    BY <1>2, <2>1, <2>2
<1>5. Typed' /\ AllReal' /\ NoneAhead' /\ ReadsAgree' /\ PageBelongs'
  BY <1>1, <1>3, <1>4, PutMoves
<1>6. Looked' /\ GetsAgain' /\ RightCustomer'
  BY <1>3 DEF Looked, GetsAgain, RightCustomer
<1>7. Pending'
  BY <1>1, <1>3, PendingKept
<1> QED
  BY <1>5, <1>6, <1>7 DEF EditInv

(* The look of the server. *)
LEMMA LookStep ==
    ASSUME EditInv, Check \/ LookAtObject
    PROVE  EditInv'
<1>1. /\ put \in PutType /\ tenant \in Tenants /\ clock \in Nat \ {0} /\ put.stage = "sent"
      /\ put.tenant \in Tenants /\ put.name \in Names /\ Target \in RowType
      /\ clock' = clock + 1
      /\ UNCHANGED <<form, rows, tenant, cache, clicks, dialog, recounted, apply, otherTab, left>>
      /\ left' \in
          LeftType
  BY DEF EditInv, Typed, TypeOK, LeftType, Check, LookAtObject, Target
<1>2. Target = NoRow \/ Stored(Target)
  BY <1>1 DEF EditInv, AllReal, Target
<1>3. /\ NewRow(0) \in RowType /\ NewRow(0).id = clock
      /\ [Target EXCEPT !.version = NextVersion(@)] \in RowType
      /\ [Target EXCEPT !.version = NextVersion(@)].id = Target.id
      /\ [Target EXCEPT !.version = NextVersion(@)].version = Target.version + 1
  BY <1>1 DEF NewRow, RowType, FirstVersion, NextVersion
<1>4. PICK stage \in {"write", "refused", "conflict"}, env \in RowType :
        /\ put' = [put EXCEPT !.stage = stage, !.env = env]
        /\ \/ env.id = clock /\ (~Creates => form.by = "id")
           \/ ~Creates /\ form.by = "name" /\ env.id = Target.id
        /\ stage = "write" /\ ~Creates /\ form.by = "name" =>
              Target # NoRow /\ env.version = put.lock.row.version + 1
  <2>1. CASE LookAtObject
    BY <1>3, <2>1 DEF LookAtObject
  <2>2. CASE Check /\ Creates
    BY <1>3, <2>2 DEF Check
  <2>3. CASE Check /\ ~Creates
    BY <1>3, <2>3 DEF Check
  <2> QED
    BY <2>1, <2>2, <2>3
<1>5. /\ put' \in PutType /\ put'.tenant \in Tenants /\ put'.name \in Names
      /\ put'.stage = stage /\ put'.env = env /\ put'.lock = put.lock /\ put'.tries = put.tries
      /\ put'.shown = put.shown /\ put'.rest = put.rest /\ put'.tenant = put.tenant
  BY <1>1, <1>4 DEF PutType, Stages
<1>6. Typed' /\ AllReal' /\ NoneAhead' /\ ReadsAgree' /\ PageBelongs'
  <2>1. \A r \in {put'.shown, put'.rest, put'.lock} : r \in Reads
    BY <1>5, InReads
  <2>2. clock' \in Nat /\ clock <= clock'
    BY <1>1
  <2> QED
    BY <1>1, <1>5, <2>1, <2>2, PutMoves
<1>7. Looked'
  <2> SUFFICES ASSUME stage = "write"
               PROVE  /\ env.id \in 1 .. clock
                      /\ Creates => /\ \A r \in Reads : r.row.id # env.id
                                    /\ \A x \in Tenants, n \in Names : rows[x][n].id # env.id
                      /\ ~Creates /\ form.by = "name" => env.version = put.lock.row.version + 1
    BY <1>1, <1>5 DEF Looked, Creates, Reads
  <2>1. \A r \in Reads : r.row.id # clock
    BY <1>1, Nulls DEF EditInv, AllReal, IsRead, Stored
  <2>2. \A x \in Tenants, n \in Names : rows[x][n].id # clock
    BY <1>1, Nulls DEF EditInv, AllReal, Stored
  <2>3. env.id \in 1 .. clock
    <3>1. CASE env.id = clock
      BY <1>1, <3>1
    <3>2. CASE env.id # clock
      <4>1. Target # NoRow /\ env.id = Target.id
        BY <1>4, <3>2
      <4> QED
        BY <1>1, <1>2, <4>1 DEF Stored
    <3> QED
      BY <3>1, <3>2
  <2> QED
    BY <1>4, <2>1, <2>2, <2>3
<1>8. GetsAgain' /\ RightCustomer'
  BY <1>1, <1>5 DEF GetsAgain, RightCustomer, EditInv
<1>9. Pending'
  <2>1. Creates' = Creates /\ (Creates => put'.env.id = clock)
    BY <1>4, <1>5 DEF Creates
  <2> QED
    BY <1>1, <2>1, PendingKept
<1> QED
  BY <1>6, <1>7, <1>8, <1>9 DEF EditInv

-----------------------------------------------------------------------------
(* The steps that write a row. *)

LEMMA RowTyped ==
    ASSUME EditInv, NEW x \in Tenants, NEW n \in Names, NEW row \in RowType,
           row = NoRow \/ (row.version > 0 /\ row.id > 0),
           rows' = [rows EXCEPT ![x][n] = row]
    PROVE  /\ rows' \in [Tenants -> [Names -> RowType]]
           /\ \A y \in Tenants, m \in Names : IsRow(rows'[y][m])
BY DEF EditInv, Typed, TypeOK, LeftType, IsRow

LEMMA Rewritten ==
    ASSUME NEW a \in RowType, NEW s \in Nat, NEW h \in Nat
    PROVE  /\ Changed(a, s, h) \in RowType
           /\ Changed(a, s, h).id = a.id
           /\ Changed(a, s, h).version = a.version + 1
<1>1. a.version + 1 \in Nat
  BY DEF RowType
<1> QED
  BY <1>1 DEF RowType, NextVersion, Changed

(* What somebody else, or the Delete button, writes leaves the save as it is. *)
LEMMA OthersStep ==
    ASSUME EditInv, NEW x \in Tenants, NEW n \in Names, NEW row \in RowType,
           rows' = [rows EXCEPT ![x][n] = row],
           \/ row = NoRow
           \/ row.version > 0 /\ row.id = clock /\ clock' = clock + 1
           \/ /\ row.version > 0 /\ row.id = rows[x][n].id /\ rows[x][n] # NoRow
              /\ row.version = rows[x][n].version + 1 \/ row.id \in recounted'
           \/ /\ row.version > 0 /\ row.id > 0 /\ row.id \in recounted'
              /\ row.id = apply.row.id \/ \E r \in Reads : row.id = r.row.id,
           recounted \subseteq recounted', recounted' \subseteq Nat, apply' \in {apply, Nothing},
           clock' \in {clock, clock + 1}, dialog' \in {dialog, Closed},
           UNCHANGED <<form, tenant, cache, clicks, put, otherTab>>,
           left' \in LeftType
    PROVE  EditInv'
<1>1. clock \in Nat \ {0} /\ clock' \in Nat \ {0} /\ clock <= clock'
      /\ rows \in [Tenants -> [Names -> RowType]]
  BY DEF EditInv, Typed, TypeOK, LeftType
<1>2. row = NoRow \/ (row.version > 0 /\ row.id \in 1 .. (clock' - 1))
  <2>1. rows[x][n] # NoRow => rows[x][n].id \in 1 .. (clock - 1)
    BY DEF EditInv, AllReal, Stored
  <2>2. \A r \in Reads : r.row.id = 0 \/ r.row.id \in 1 .. (clock - 1)
    BY Nulls DEF EditInv, AllReal, IsRead, Stored
  <2>3. apply.row.id = 0 \/ apply.row.id \in 1 .. (clock - 1)
    BY Nulls DEF EditInv, Pending, Stored
  <2> QED
    BY <1>1, <2>1, <2>2, <2>3
<1>3. Closed \in [open : BOOLEAN, state : ReadType, draft : ReadType]
      /\ Closed.state = Nothing /\ Closed.draft = Nothing
  BY Nulls DEF Closed
<1>4. Typed'
  <2>1. /\ rows' \in [Tenants -> [Names -> RowType]]
        /\ \A y \in Tenants, m \in Names : IsRow(rows'[y][m])
    <3>1. row = NoRow \/ (row.version > 0 /\ row.id > 0)
      BY <1>1, <1>2
    <3> QED
      BY <3>1, RowTyped
  <2>2. dialog' \in [open : BOOLEAN, state : ReadType, draft : ReadType]
    BY <1>3 DEF EditInv, Typed
  <2> QED
    BY <1>1, <2>1, <2>2, Nulls DEF EditInv, Typed, TypeOK, LeftType, PutType, IsRow
<1>5. \A r \in Reads' : r \in Reads \/ r = Nothing
  <2>1. dialog'.state \in Reads \cup {Nothing} /\ dialog'.draft \in Reads \cup {Nothing}
    BY <1>3, InReads
  <2>2. cache' = cache /\ put' = put
    OBVIOUS
  <2>3. \A r \in Reads' : r \in Reads \cup {Nothing}
    BY <2>1, <2>2, ReadsAre, InReads
  <2> QED
    BY <2>3
<1>6. row = NoRow \/ row.id \in recounted' \/ (\A r \in Reads : r.row.id # row.id)
        \/ (row.id = rows[x][n].id /\ row.version = rows[x][n].version + 1)
  <2>1. \A r \in Reads : r.row.id # clock
    BY <1>1, Nulls DEF EditInv, AllReal, IsRead, Stored
  <2> QED
    BY <2>1
<1>7. AllReal' /\ NoneAhead' /\ ReadsAgree'
  BY <1>1, <1>2, <1>5, <1>6, RowStep
<1>8. Looked'
  <2>1. \A y \in Tenants, m \in Names :
           \/ rows'[y][m].id \in {rows[y][m].id, 0, clock, apply.row.id}
           \/ \E r \in Reads : rows'[y][m].id = r.row.id
    BY <1>1, Nulls
  <2> QED
    BY <1>1, <1>5, <2>1, LookedKept
<1>9. PageBelongs' /\ GetsAgain' /\ RightCustomer'
  BY <1>3 DEF EditInv, PageBelongs, Belongs, GetsAgain, RightCustomer
<1>10. Pending'
  BY <1>1, PendingKept DEF Creates
<1> QED
  BY <1>4, <1>7, <1>8, <1>9, <1>10 DEF EditInv

LEMMA RemoveStep ==
    ASSUME EditInv, Remove
    PROVE  EditInv'
<1>1. dialog.state.name \in Names
  BY InReads DEF Remove, EditInv, AllReal, IsRead
<1>2. tenant \in Tenants /\ left' \in LeftType /\ recounted \subseteq Nat
  BY DEF Remove, EditInv, Typed, TypeOK, LeftType
<1> QED
  BY <1>1, <1>2, OthersStep, Nulls DEF Remove

LEMMA ElsewhereStep ==
    ASSUME EditInv, NEW x \in Tenants, NEW n \in Names, Elsewhere(x, n)
    PROVE  EditInv'
<1>1. /\ rows[x][n] \in RowType /\ clock \in Nat /\ left \in LeftType /\ recounted \subseteq Nat
  BY DEF EditInv, Typed, TypeOK, LeftType
<1>2. CASE UpdateElsewhere(x, n)
  <2>1. PICK s \in {clock, rows[x][n].shown}, h \in {clock, rows[x][n].hidden} :
          rows' = [rows EXCEPT ![x][n] = Changed(rows[x][n], s, h)]
    BY <1>2 DEF UpdateElsewhere
  <2> DEFINE row == Changed(rows[x][n], s, h)
  <2>2. rows' = [rows EXCEPT ![x][n] = row]
    BY <2>1
  <2>3. row \in RowType /\ row.id = rows[x][n].id /\ row.version = rows[x][n].version + 1
        /\ row.version > 0
    <3>1. s \in Nat /\ h \in Nat /\ rows[x][n].version \in Nat
      BY <1>1, <2>1 DEF RowType
    <3>2. row \in RowType /\ row.id = rows[x][n].id /\ row.version = rows[x][n].version + 1
      BY <1>1, <3>1, Rewritten
    <3> QED
      BY <3>1, <3>2
  <2> HIDE DEF row
  <2>4. left' \in LeftType
    BY <1>1, <1>2 DEF UpdateElsewhere, LeftType
  <2> QED
    BY <1>1, <1>2, <2>2, <2>3, <2>4, OthersStep DEF UpdateElsewhere
<1>3. CASE DeleteElsewhere(x, n)
  <2>1. left' \in LeftType
    BY <1>1, <1>3 DEF DeleteElsewhere, LeftType
  <2> QED
    BY <1>1, <1>3, <2>1, OthersStep, Nulls DEF DeleteElsewhere
<1>4. CASE CreateElsewhere(x, n)
  <2>1. left' \in LeftType
    BY <1>1, <1>4 DEF CreateElsewhere, LeftType
  <2>2. NewRow(clock) \in RowType /\ NewRow(clock).id = clock /\ NewRow(clock).version > 0
    BY <1>1 DEF NewRow, RowType, FirstVersion
  <2>3. recounted \subseteq Nat /\ clock' = clock + 1 /\ UNCHANGED <<form, tenant, cache, clicks, dialog,
          put, apply, otherTab>>
    BY <1>4 DEF CreateElsewhere, EditInv, Typed, TypeOK
  <2>4. CASE rows' = [rows EXCEPT ![x][n] = NewRow(clock)] /\ recounted' = recounted
    BY <2>1, <2>2, <2>3, <2>4, OthersStep
  <2>5. ASSUME NEW r \in Reads \ {Nothing},
               rows' = [rows EXCEPT ![x][n] = [NewRow(clock) EXCEPT !.id = r.row.id]],
               recounted' = recounted \cup {r.row.id}
        PROVE  EditInv'
    <3> DEFINE row == [NewRow(clock) EXCEPT !.id = r.row.id]
    <3>1. r.row.id \in Nat /\ r.row.id > 0
      BY <1>1, <2>5 DEF EditInv, AllReal, IsRead, Stored
    <3>2. row \in RowType /\ row.id = r.row.id /\ row.version > 0
      BY <2>2, <3>1 DEF RowType
    <3>3. rows' = [rows EXCEPT ![x][n] = row]
      BY <2>5
    <3> HIDE DEF row
    <3>4. recounted \subseteq recounted' /\ recounted' \subseteq Nat /\ row.id \in recounted'
          /\ row.id > 0 /\ \E q \in Reads : row.id = q.row.id
      BY <2>3, <2>5, <3>1, <3>2
    <3> QED
      BY <2>1, <2>3, <3>2, <3>3, <3>4, OthersStep
  <2> QED
    BY <1>4, <2>4, <2>5 DEF CreateElsewhere
<1>5. CASE ReadElsewhere(x, n)
  <2>1. apply' = Read(x, n) /\ UNCHANGED <<form, rows, clock, tenant, cache, clicks, dialog, put,
          recounted, otherTab>> /\ left' \in LeftType
    BY <1>1, <1>5 DEF ReadElsewhere, LeftType
  <2>2. Read(x, n) \in ReadType /\ Read(x, n).tenant = x /\ Read(x, n).name = n
        /\ Read(x, n).row = rows[x][n]
    BY ReadTyped DEF EditInv
  <2>3. Typed' /\ Reads' = Reads
    BY <2>1, <2>2 DEF EditInv, Typed, TypeOK, LeftType, PutType, IsRow, Reads
  <2>4. AllReal' /\ NoneAhead' /\ ReadsAgree'
    BY <1>1, <2>1, <2>3, ReadsStep
  <2>5. Looked' /\ PageBelongs' /\ GetsAgain' /\ RightCustomer'
    BY <2>1, <2>3 DEF EditInv, Looked, Creates, PageBelongs, Belongs, GetsAgain, RightCustomer
  <2>6. Pending'
    BY <2>1, <2>2 DEF EditInv, Pending, AllReal, Stored, Looked, Creates
  <2> QED
    BY <2>3, <2>4, <2>5, <2>6 DEF EditInv
<1> QED
  BY <1>2, <1>3, <1>4, <1>5 DEF Elsewhere

LEMMA LateStep ==
    ASSUME EditInv, WriteElsewhere
    PROVE  EditInv'
<1> DEFINE x == apply.tenant
           n == apply.name
           old == rows[x][n]
<1>1. /\ x \in Tenants /\ n \in Names /\ (apply.row = NoRow \/ Stored(apply.row))
      /\ apply.row \in RowType
  BY Nulls DEF EditInv, Pending, WriteElsewhere, Stored
<1>2. /\ clock \in Nat \ {0} /\ clock' = clock + 1 /\ apply' = Nothing /\ left' \in LeftType
      /\ rows \in [Tenants -> [Names -> RowType]] /\ recounted \subseteq Nat
      /\ UNCHANGED <<form, tenant, cache, clicks, dialog, put, otherTab>>
  BY DEF EditInv, Typed, TypeOK, LeftType, WriteElsewhere
<1>3. old \in RowType /\ (old = NoRow \/ Stored(old))
  BY <1>1, <1>2 DEF EditInv, AllReal
<1>4. CASE UNCHANGED <<rows, recounted>>
  <2>1. Typed' /\ Reads' = Reads
    BY <1>2, <1>4, Nulls DEF EditInv, Typed, TypeOK, LeftType, PutType, IsRow, Reads
  <2>2. AllReal' /\ NoneAhead' /\ ReadsAgree'
    BY <1>2, <1>4, <2>1, ReadsStep
  <2>3. Looked'
    BY <1>2, <1>4, <2>1, LookedKept
  <2>4. PageBelongs' /\ GetsAgain' /\ RightCustomer' /\ Pending'
    BY <1>2, <1>4 DEF EditInv, PageBelongs, Belongs, GetsAgain, RightCustomer, Pending
  <2> QED
    BY <2>1, <2>2, <2>3, <2>4 DEF EditInv
<1>5. ASSUME NEW row \in Upserted(old), rows' = [rows EXCEPT ![x][n] = row],
             recounted' = IF \/ old = NoRow /\ apply.row = NoRow
                             \/ old # NoRow /\ row.version = old.version + 1
                          THEN recounted ELSE recounted \cup {row.id}
      PROVE  EditInv'
  <2>1. PICK h \in {clock, apply.row.hidden} :
          row = [id |-> IF old # NoRow THEN old.id ELSE IF apply.row # NoRow THEN apply.row.id ELSE clock,
                 version |-> apply.row.version + 1, shown |-> clock, hidden |-> h]
    BY <1>5 DEF Upserted, NextVersion
  <2>2. /\ row \in RowType /\ row.version > 0
        /\ old # NoRow => row.id = old.id
        /\ old = NoRow /\ apply.row # NoRow => row.id = apply.row.id
        /\ old = NoRow /\ apply.row = NoRow => row.id = clock
    BY <1>1, <1>2, <1>3, <2>1 DEF RowType
  <2>3. recounted \subseteq recounted' /\ recounted' \subseteq Nat
    BY <1>2, <1>5, <2>2 DEF RowType
  <2>4. apply.row # NoRow => apply.row.id > 0
    BY <1>1, <1>2 DEF Stored
  <2> HIDE DEF old, x, n
  <2>5. CASE old # NoRow
    <3>1. row.id = old.id /\ (row.version = old.version + 1 \/ row.id \in recounted')
      BY <1>5, <2>2, <2>5
    <3> QED
      BY <1>1, <1>2, <1>5, <2>2, <2>3, <2>5, <3>1, OthersStep DEF old
  <2>6. CASE old = NoRow /\ apply.row # NoRow
    <3>1. row.id = apply.row.id /\ row.id \in recounted' /\ row.id > 0
      BY <1>5, <2>2, <2>4, <2>6
    <3> QED
      BY <1>1, <1>2, <1>5, <2>2, <2>3, <3>1, OthersStep
  <2>7. CASE old = NoRow /\ apply.row = NoRow
    BY <1>1, <1>2, <1>5, <2>2, <2>3, <2>7, OthersStep
  <2> QED
    BY <2>5, <2>6, <2>7
<1> QED
  BY <1>4, <1>5 DEF WriteElsewhere

(* The write of a save: either nothing is written, or the row of its target.    *)
LEMMA WriteStep ==
    ASSUME EditInv, put.stage = "write", NEW row \in RowType,
           clock' = clock + 1, recounted \subseteq recounted', recounted' \subseteq Nat,
           \/ rows' = rows /\ recounted' = recounted
           \/ /\ rows' = [rows EXCEPT ![put.tenant][put.name] = row]
              /\ row.version > 0 /\ row.id \in 1 .. (clock - 1)
              /\ \/ row.id \in recounted'
                 \/ \A r \in Reads : r.row.id # row.id
                 \/ row.id = Target.id /\ row.version = Target.version + 1,
           NEW stage \in {"ok", "refused", "conflict"},
           put' = [put EXCEPT !.stage = stage],
           UNCHANGED <<form, tenant, cache, clicks, dialog, apply, otherTab, left>>
    PROVE  EditInv'
<1>1. /\ put \in PutType /\ put.tenant \in Tenants /\ put.name \in Names /\ clock \in Nat \ {0}
      /\ rows \in [Tenants -> [Names -> RowType]]
  BY DEF EditInv, Typed, TypeOK, LeftType
<1>2. /\ put' \in PutType /\ put'.stage = stage /\ put'.tenant = put.tenant /\ put'.name = put.name
      /\ put'.shown = put.shown /\ put'.rest = put.rest /\ put'.lock = put.lock
      /\ put'.tries = put.tries
  BY <1>1 DEF PutType, Stages
<1>3. Reads' = Reads
  BY <1>2 DEF Reads
<1>4. clock' \in Nat /\ clock <= clock' /\ clock' - 1 = clock
  BY <1>1
<1>5. AllReal' /\ NoneAhead' /\ ReadsAgree'
  <2>1. CASE rows' = rows /\ recounted' = recounted
    BY <1>3, <1>4, <2>1, ReadsStep
  <2>2. CASE ~(rows' = rows /\ recounted' = recounted)
    <3>1. row.id \in 1 .. (clock' - 1)
      BY <1>1, <1>4, <2>2
    <3> QED
      BY <1>1, <1>3, <1>4, <2>2, <3>1, RowStep DEF Target
  <2> QED
    BY <2>1, <2>2
<1>6. Typed'
  <2>1. /\ rows' \in [Tenants -> [Names -> RowType]]
        /\ \A y \in Tenants, m \in Names : IsRow(rows'[y][m])
    <3>1. CASE rows' = rows
      BY <3>1 DEF EditInv, Typed, TypeOK, LeftType
    <3>2. CASE rows' # rows
      <4>1. row.id > 0
        BY <1>1, <3>2
      <4> QED
        BY <1>1, <3>2, <4>1, RowTyped
    <3> QED
      BY <3>1, <3>2
  <2> QED
    BY <1>1, <1>2, <1>4, <2>1 DEF EditInv, Typed, TypeOK, LeftType, IsRow, PutType
<1>7. Looked' /\ GetsAgain' /\ RightCustomer' /\ PageBelongs'
  BY <1>2 DEF EditInv, Looked, GetsAgain, RightCustomer, PageBelongs, Belongs
<1>8. Pending'
  BY <1>2, <1>4, PendingKept
<1> QED
  BY <1>5, <1>6, <1>7, <1>8 DEF EditInv

LEMMA SaveWrites ==
    ASSUME EditInv, WriteNew \/ WriteOld \/ UpdateObject
    PROVE  EditInv'
<1>1. /\ put \in PutType /\ put.tenant \in Tenants /\ put.name \in Names /\ clock \in Nat \ {0}
      /\ Target \in RowType /\ (Target = NoRow \/ Stored(Target))
      /\ put.stage = "write" /\ clock' = clock + 1
      /\ UNCHANGED <<form, tenant, cache, clicks, dialog, apply, otherTab, left>>
      /\ recounted \subseteq Nat
      /\ put.env \in RowType /\ put.rest.row.hidden \in Nat /\ rows \in [Tenants -> [Names -> RowType]]
  <2>1. /\ put \in PutType /\ put.stage = "write" /\ put.tenant \in Tenants /\ put.name \in Names
        /\ clock \in Nat \ {0} /\ rows \in [Tenants -> [Names -> RowType]] /\ recounted \subseteq Nat
    BY DEF EditInv, Typed, TypeOK, LeftType, WriteNew, WriteOld, UpdateObject
  <2>2. Target \in RowType /\ (Target = NoRow \/ Stored(Target))
    BY <2>1 DEF Target, EditInv, AllReal
  <2>3. put.env \in RowType /\ put.rest.row.hidden \in Nat
    BY <2>1 DEF PutType, ReadType, RowType
  <2> QED
    BY <2>1, <2>2, <2>3 DEF WriteNew, WriteOld, UpdateObject
<1>2. put.env.id \in 1 .. (clock - 1)
  BY <1>1 DEF EditInv, Looked
<1>3. ASSUME put' = [put EXCEPT !.stage = "refused"] \/ put' = [put EXCEPT !.stage = "conflict"],
             UNCHANGED <<rows, recounted>>
      PROVE  EditInv'
  BY <1>1, <1>3, WriteStep
<1>4. ASSUME NEW row \in RowType, put' = [put EXCEPT !.stage = "ok"],
             rows' = [rows EXCEPT ![put.tenant][put.name] = row],
             recounted \subseteq recounted', recounted' \subseteq Nat,
             row.version > 0, row.id \in 1 .. (clock - 1),
             \/ row.id \in recounted'
             \/ \A r \in Reads : r.row.id # row.id
             \/ row.id = Target.id /\ row.version = Target.version + 1
      PROVE  EditInv'
  BY <1>1, <1>4, WriteStep
<1>5. CASE WriteNew /\ IsFree(Target)
  <2> DEFINE row == [id |-> put.env.id, version |-> FirstVersion, shown |-> clock,
                     hidden |-> put.rest.row.hidden]
  <2>1. row \in RowType /\ row.version > 0 /\ row.id = put.env.id
    BY <1>1 DEF RowType, FirstVersion
  <2>2. rows' = [rows EXCEPT ![put.tenant][put.name] = row] /\ put' = [put EXCEPT !.stage = "ok"]
        /\ recounted' = recounted
    BY <1>5 DEF WriteNew
  <2>3. \A r \in Reads : r.row.id # row.id
    BY <1>1, <1>5, <2>1 DEF EditInv, Looked, WriteNew
  <2> HIDE DEF row
  <2> QED
    BY <1>1, <1>2, <1>4, <2>1, <2>2, <2>3
<1>6. CASE WriteNew /\ ~IsFree(Target)
  BY <1>3, <1>6 DEF WriteNew
<1>7. CASE WriteOld /\ Target # NoRow /\ StillAt(Target)
  <2> DEFINE row == [id |-> Target.id, version |-> put.env.version, shown |-> clock,
                     hidden |-> put.rest.row.hidden]
  <2>1. put.env.version = Target.version + 1
    BY <1>1, <1>7 DEF EditInv, Looked, WriteOld, StillAt
  <2>2. row \in RowType /\ row.version > 0 /\ row.id = Target.id /\ row.version = Target.version + 1
        /\ row.id \in 1 .. (clock - 1)
    BY <1>1, <1>7, <2>1 DEF RowType, Stored
  <2>3. rows' = [rows EXCEPT ![put.tenant][put.name] = row] /\ put' = [put EXCEPT !.stage = "ok"]
        /\ recounted' = recounted
    BY <1>1, <1>7 DEF WriteOld, Target
  <2> HIDE DEF row
  <2> QED
    BY <1>1, <1>4, <2>2, <2>3
<1>8. CASE WriteOld /\ Target = NoRow /\ ~Taken(put.env.id)
  <2> DEFINE row == [id |-> put.env.id, version |-> put.env.version, shown |-> clock,
                     hidden |-> put.rest.row.hidden]
  <2>1. put.lock.row.version \in Nat
    BY <1>1 DEF PutType, ReadType, RowType
  <2>2. put.env.version > 0
    BY <1>1, <1>8, <2>1 DEF EditInv, Looked, WriteOld
  <2>3. row \in RowType /\ row.version > 0 /\ row.id = put.env.id
    BY <1>1, <2>2 DEF RowType
  <2>4. rows' = [rows EXCEPT ![put.tenant][put.name] = row] /\ put' = [put EXCEPT !.stage = "ok"]
        /\ recounted' = recounted \cup {put.env.id}
    BY <1>8 DEF WriteOld
  <2>5. recounted' \subseteq Nat /\ recounted \subseteq recounted' /\ row.id \in recounted'
    BY <1>1, <2>3, <2>4 DEF RowType
  <2> HIDE DEF row
  <2> QED
    BY <1>2, <1>4, <2>3, <2>4, <2>5
<1>9. CASE WriteOld /\ (IF Target = NoRow THEN Taken(put.env.id) ELSE ~StillAt(Target))
  BY <1>3, <1>9 DEF WriteOld
<1>10. CASE UpdateObject /\ IsThere(Target) /\ StillAt(Target)
  <2> DEFINE row == Changed(Target, clock, put.rest.row.hidden)
  <2>1. row \in RowType /\ row.version > 0 /\ row.id = Target.id /\ row.version = Target.version + 1
    <3>1. Target.version \in Nat /\ clock \in Nat
      BY <1>1 DEF RowType
    <3>2. row \in RowType /\ row.id = Target.id /\ row.version = Target.version + 1
      BY <1>1, <3>1, Rewritten
    <3> QED
      BY <3>1, <3>2
  <2>2. Target.id \in 1 .. (clock - 1)
    BY <1>1, <1>10 DEF Stored, IsThere
  <2>3. rows' = [rows EXCEPT ![put.tenant][put.name] = row] /\ put' = [put EXCEPT !.stage = "ok"]
        /\ recounted' = recounted
    BY <1>10 DEF UpdateObject, Target
  <2> HIDE DEF row
  <2> QED
    BY <1>1, <1>4, <2>1, <2>2, <2>3
<1>11. CASE UpdateObject /\ ~(IsThere(Target) /\ StillAt(Target))
  BY <1>3, <1>11 DEF UpdateObject
<1> QED
  BY <1>5, <1>6, <1>7, <1>8, <1>9, <1>10, <1>11

-----------------------------------------------------------------------------
LEMMA EditInit == Init => EditInv
<1> SUFFICES ASSUME Init PROVE EditInv
  OBVIOUS
<1> DEFINE first(x, n) == MaxNames * (x - 1) + n
<1>1. \A x \in Tenants, n \in Names : first(x, n) \in 1 .. (clock - 1)
  <2> TAKE x \in Tenants, n \in Names
  <2>1. MaxNames \in Nat /\ MaxTenants \in Nat /\ x - 1 \in 0 .. (MaxTenants - 1) /\ n \in 1 .. MaxNames
    BY Domains DEF Tenants, Names
  <2>2. MaxNames * (x - 1) <= MaxNames * (MaxTenants - 1) /\ MaxNames * (x - 1) \in Nat
    BY <2>1
  <2>3. MaxNames * (MaxTenants - 1) = MaxNames * MaxTenants - MaxNames
    BY <2>1
  <2>4. clock = MaxTenants * MaxNames + 1 /\ MaxTenants * MaxNames = MaxNames * MaxTenants
        /\ MaxNames * MaxTenants \in Nat
    BY <2>1 DEF Init
  <2> QED
    BY <2>1, <2>2, <2>3, <2>4
<1>2. clock \in Nat \ {0}
  BY Domains DEF Init
<1>3. \A x \in Tenants, n \in Names : rows[x][n] \in RowType /\ Stored(rows[x][n])
  <2> TAKE x \in Tenants, n \in Names
  <2>1. rows[x][n] = [id |-> first(x, n), version |-> 1, shown |-> first(x, n), hidden |-> first(x, n)]
    BY DEF Init, FirstVersion
  <2>2. first(x, n) \in Nat
    BY <1>1, <1>2
  <2> HIDE DEF first
  <2> QED
    BY <1>1, <2>1, <2>2 DEF RowType, Stored
<1>4. Closed \in [open : BOOLEAN, state : ReadType, draft : ReadType]
      /\ Closed.state = Nothing /\ Closed.draft = Nothing
  BY Nulls DEF Closed
<1>5. /\ Idle \in PutType /\ Idle.stage = "idle"
      /\ Idle.shown = Nothing /\ Idle.rest = Nothing /\ Idle.lock = Nothing
  BY Nulls, Domains DEF Idle, PutType, Stages
<1>6. /\ cache = [n \in Names |-> Nothing] /\ dialog = Closed /\ put = Idle /\ clicks = {}
      /\ recounted = {} /\ apply = Nothing /\ tenant = 1 /\ otherTab = FALSE
  BY DEF Init
<1>7. Typed
  <2>1. rows \in [Tenants -> [Names -> RowType]]
    BY <1>3 DEF Init
  <2>2. \A x \in Tenants, n \in Names : IsRow(rows[x][n])
    BY <1>2, <1>3 DEF IsRow, Stored
  <2>3. form \in FormsUsed /\ left \in
            LeftType
    BY EditingAssumption DEF Init, EditingAssumption, LeftType
  <2> QED
    BY <1>2, <1>4, <1>5, <1>6, <2>1, <2>2, <2>3, Domains, Nulls DEF Typed, TypeOK, LeftType, PutType
<1>8. \A r \in Reads : r = Nothing
  BY <1>4, <1>5, <1>6 DEF Reads
<1>9. AllReal /\ NoneAhead /\ ReadsAgree
  BY <1>3, <1>8 DEF AllReal, IsRead, NoneAhead, ReadsAgree
<1>10. Looked /\ Pending /\ PageBelongs /\ GetsAgain /\ RightCustomer
  BY <1>4, <1>5, <1>6 DEF Looked, Pending, PageBelongs, Belongs, GetsAgain, RightCustomer
<1> QED
  BY <1>7, <1>9, <1>10 DEF EditInv

LEMMA EditStep == EditInv /\ [Next]_vars => EditInv'
<1>1. ASSUME EditInv, UNCHANGED vars PROVE EditInv'
  <2>1. Reads' = Reads
    BY <1>1 DEF vars, Reads
  <2> QED
    BY <1>1, <2>1 DEF vars, EditInv, Typed, TypeOK, LeftType, AllReal, IsRead, Stored, NoneAhead, NotAhead,
       ReadsAgree, SameVersionOf, Looked, Pending, Creates, PageBelongs, Belongs, GetsAgain, RightCustomer
<1>2. ASSUME EditInv, Next PROVE EditInv'
  <2>1. ASSUME NEW n \in Names, Dialog(n) PROVE EditInv'
    BY <1>2, <2>1, ClickStep, FetchStep, DialogStep, SaveStep DEF Dialog
  <2>2. ASSUME NEW x \in Tenants, Switch(x) \/ SwitchElsewhere(x) PROVE EditInv'
    BY <1>2, <2>2, SwitchStep
  <2>3. CASE New \/ Cancel \/ Remove
    BY <1>2, <2>3, DialogStep, RemoveStep
  <2>4. CASE Freshen \/ ReadAnswer \/ Check \/ LookAtObject
    BY <1>2, <2>4, FreshenStep, AnswerStep, LookStep
  <2>5. CASE WriteNew \/ WriteOld \/ UpdateObject \/ WriteElsewhere
    BY <1>2, <2>5, SaveWrites, LateStep
  <2> QED
    BY <1>2, <2>1, <2>2, <2>3, <2>4, <2>5, ArriveStep, ElsewhereStep DEF Next
<1> QED
  BY <1>1, <1>2

(* What the theorem about versions says of rows, and of rows against reads. *)
LEMMA VersionsIdentify == EditInv => EtagIdentifies
<1> SUFFICES ASSUME EditInv, NEW r \in Known, NEW s \in Known, SameVersionOf(r, s)
             PROVE  r.row = s.row
  BY DEF EtagIdentifies
<1>1. \A k \in Known : k \in Reads \/ \E x \in Tenants, n \in Names : k = Read(x, n)
  BY DEF Known, Reads
<1>2. ASSUME NEW a \in Reads, NEW x \in Tenants, NEW n \in Names,
             a.tenant = x, a.name = n, a.row.id = rows[x][n].id, a.row.version = rows[x][n].version,
             a.row.id \notin recounted
      PROVE  a.row = rows[x][n]
  <2>1. a # Nothing
    BY <1>2, Domains, Nulls
  <2> QED
    BY <1>2, <2>1 DEF EditInv, NoneAhead, NotAhead
<1>3. CASE r \in Reads /\ s \in Reads
  BY <1>3 DEF EditInv, ReadsAgree
<1>4. ASSUME NEW x \in Tenants, NEW n \in Names, r = Read(x, n), s \in Reads PROVE r.row = s.row
  BY <1>2, <1>4, ReadTyped DEF EditInv, SameVersionOf
<1>5. ASSUME NEW x \in Tenants, NEW n \in Names, s = Read(x, n), r \in Reads PROVE r.row = s.row
  BY <1>2, <1>5, ReadTyped DEF EditInv, SameVersionOf
<1>6. ASSUME NEW x \in Tenants, NEW n \in Names, r = Read(x, n),
             NEW y \in Tenants, NEW m \in Names, s = Read(y, m)
      PROVE  r.row = s.row
  BY <1>6, ReadTyped DEF EditInv, SameVersionOf
<1> QED
  BY <1>1, <1>3, <1>4, <1>5, <1>6

-----------------------------------------------------------------------------
(* The theorems.                                                            *)

LEMMA EditInvariant == Spec => []EditInv
BY EditInit, EditStep, PTL DEF Spec

(* Types: a row that is there has an id and a version, a save in flight names a   *)
(* customer and a name.                                                       *)
THEOREM TypeCorrect == Spec => []TypeOK
<1>1. EditInv => TypeOK
  BY DEF EditInv, Typed
<1> QED
  BY <1>1, EditInvariant, PTL

(* An ETag stands for one content of one document, through deletions and new     *)
(* documents of the same name and unguarded writers, unless a write brought the *)
(* document back or an unguarded one came late (PutResource, UpdateObject).    *)
THEOREM EtagsIdentify == Spec => []EtagIdentifies
BY VersionsIdentify, EditInvariant, PTL

(* A save goes to the customer it was read from, for every dialog of the UI that  *)
(* does not read while saving, unless another tab switched the customer or the   *)
(* save is tried again (TenantSwitcher, api).                                  *)
THEOREM SavesToRightCustomer == Spec => []RightCustomer
<1>1. EditInv => RightCustomer
  BY DEF EditInv
<1> QED
  BY <1>1, EditInvariant, PTL

(* The part of a document that comes from the read of the If-Match replaces what  *)
(* was read, unless the version of the document was not counted on, and a POST  *)
(* replaces nothing, whatever is between look and write.                      *)
THEOREM OneReadSafe == Spec => OneReadIsSafe
<1>1. EditInv /\ [Next]_vars =>
        [/\ Overwrites /\ IsTheOneRead =>
              /\ put.shown = put.lock => Target.shown = put.shown.row.shown
              /\ put.rest = put.lock => Target.hidden = put.rest.row.hidden
         /\ put.stage = "write" /\ Creates /\ put'.stage = "ok" => Target = NoRow]_vars
  <2> SUFFICES ASSUME EditInv, Next, put.stage = "write", put'.stage = "ok"
               PROVE  /\ ~Creates /\ Target # NoRow /\ IsTheOneRead => put.lock.row = Target
                      /\ Creates => Target = NoRow
    BY DEF Overwrites
  <2>1. put \in PutType /\ put.tenant \in Tenants /\ put.name \in Names
    BY DEF EditInv, Typed, TypeOK, LeftType
  <2>2. WriteNew \/ WriteOld \/ UpdateObject
    BY <2>1 DEF Next, Dialog, Elsewhere, New, Cancel, Remove, Freshen, ReadAnswer, Answer, Check,
       LookAtObject, Click, Fetch, Open, Save, Arrive, Switch, SwitchElsewhere, UpdateElsewhere,
       DeleteElsewhere, CreateElsewhere, ReadElsewhere, WriteElsewhere
  <2>3. ASSUME ~Creates, Target # NoRow PROVE StillAt(Target)
    BY <2>1, <2>2, <2>3 DEF WriteNew, WriteOld, UpdateObject, PutType
  <2>4. ASSUME ~Creates, Target # NoRow, IsTheOneRead PROVE put.lock.row = Target
    BY <2>1, <2>3, <2>4, InReads DEF StillAt, IsTheOneRead, Target, Creates, EditInv, NoneAhead, NotAhead
  <2>5. ASSUME Creates PROVE Target = NoRow
    BY <2>1, <2>2, <2>5 DEF WriteNew, WriteOld, UpdateObject, IsFree, PutType
  <2> QED
    BY <2>4, <2>5
<1> QED
  BY <1>1, EditInvariant, PTL DEF Spec, OneReadIsSafe
=============================================================================
