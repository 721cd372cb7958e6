--------------------------- MODULE ConnectionProofs ---------------------------
(***************************************************************************)
(* For any number of connections, pages and saves: the default connection  *)
(* is the first one of the list, and a secret left blank is kept by a row  *)
(* that was changed at most once.  A page remembers, for a row changed     *)
(* once, the address it was loaded with, and that is what the save finds   *)
(* it again by.                                                            *)
(***************************************************************************)
EXTENDS ConnectionSettings, SequenceTheorems, TLAPS

(* The fields from before there was a list repeat it.                      *)
Mirrored(v) ==
    v.rows # <<>> => /\ v.hosts = [i \in DOMAIN v.rows |-> v.rows[i].host]
                     /\ v.rows[1].secret \in {NoSecret, v.secret}

(* What a page still knows of where a row came from.                       *)
KnowsHome(row, loaded) ==
    /\ row.from = 0 => row.typed # NoSecret
    /\ row.from # 0 =>
        /\ row.from \in DOMAIN loaded
        /\ row.changed = 0 => row.prev = NoHost /\ row.host = loaded[row.from].host
        /\ row.changed = 1 => row.prev = loaded[row.from].host

Sound(p) == \A i \in DOMAIN p.rows : KnowsHome(p.rows[i], p.loaded)

IInv ==
    /\ TypeOK
    /\ \A o \in Pages : Sound(page[o])
    /\ \A o \in Pages :
          put[o].busy => Sound(put[o].page) /\ put[o].sent = Payload(put[o].page.rows)

-----------------------------------------------------------------------------
(* Sequences.                                                              *)
LEMMA SeqShape ==
    ASSUME NEW S, NEW s \in Seq(S)
    PROVE  /\ Len(s) \in Nat /\ DOMAIN s = 1 .. Len(s)
           /\ \A i \in DOMAIN s : s[i] \in S
           /\ s # <<>> => 1 \in DOMAIN s
           /\ s = <<>> => DOMAIN s = {}
  OBVIOUS

LEMMA SeqMade ==
    ASSUME NEW S, NEW T, NEW s \in Seq(T), NEW f, DOMAIN f = DOMAIN s, f = [i \in DOMAIN s |-> f[i]],
           \A i \in DOMAIN s : f[i] \in S
    PROVE  f \in Seq(S) /\ Len(f) = Len(s) /\ (f = <<>> <=> s = <<>>)
  <1>1. DOMAIN s = 1 .. Len(s) /\ Len(s) \in Nat
    BY SeqShape
  <1>2. f \in [1 .. Len(s) -> S]
    BY <1>1
  <1>3. f \in Seq(S)
    BY <1>1, <1>2
  <1>4. DOMAIN f = 1 .. Len(f) /\ Len(f) \in Nat
    BY <1>3, SeqShape
  <1>5. Len(f) = Len(s)
    BY <1>1, <1>4
  <1>6. QED
    BY <1>1, <1>3, <1>5

LEMMA OnlyOne ==
    ASSUME NEW S, NEW list \in Seq(S), NEW h, NEW k \in DOMAIN list,
           {j \in DOMAIN list : list[j].host = h} = {k}
    PROVE  ByHost(list, h) = {list[k]}
  <1>1. DOMAIN list \subseteq Int
    BY SeqShape
  <1>2. ASSUME NEW i \in DOMAIN list
        PROVE  list[i].host = h <=> i = k
    BY <1>2
  <1>3. {i \in DOMAIN list : /\ list[i].host = h
                             /\ \A j \in DOMAIN list : j > i => list[j].host # h} = {k}
    BY <1>1, <1>2
  <1>4. QED
    BY <1>3 DEF ByHost

LEMMA FirstOf ==
    ASSUME NEW S, NEW list \in Seq(S), list # <<>>, NEW h, h = list[1].host
    PROVE  LET I == {i \in 1 .. Len(list) : list[i].host = h} IN I # {} /\ Min(I) = 1
  <1> DEFINE I == {i \in 1 .. Len(list) : list[i].host = h}
  <1>1. Len(list) \in Nat /\ 1 \in DOMAIN list /\ DOMAIN list = 1 .. Len(list)
    BY SeqShape
  <1>2. 1 \in I /\ I \subseteq Nat /\ \A i \in I : 1 <= i
    BY <1>1
  <1>3. Min(I) = 1
    <2> HIDE DEF I
    <2>1. \E x \in I : \A y \in I : x <= y
      BY <1>2
    <2> DEFINE m == Min(I)
    <2>2. m \in I /\ \A y \in I : m <= y
      BY <2>1 DEF Min
    <2> HIDE DEF m
    <2>3. m = 1
      BY <1>2, <2>2
    <2>4. QED
      BY <2>3 DEF m
  <1>4. QED
    BY <1>2, <1>3

-----------------------------------------------------------------------------
(* The operators on settings keep their types.                             *)
LEMMA ListedType ==
    ASSUME NEW v \in Vaults
    PROVE  /\ Listed(v) \in Seq(Connections)
           /\ v.rows # <<>> => /\ DOMAIN Listed(v) = DOMAIN v.rows
                               /\ \A i \in DOMAIN v.rows :
                                    /\ Listed(v)[i].host = v.rows[i].host
                                    /\ Listed(v)[i].secret =
                                         IF v.rows[i].secret = NoSecret THEN v.secret ELSE v.rows[i].secret
           /\ v.rows = <<>> => /\ DOMAIN Listed(v) = DOMAIN v.hosts
                               /\ \A i \in DOMAIN v.hosts :
                                    Listed(v)[i] = [host |-> v.hosts[i], secret |-> v.secret]
  <1>1. /\ v.rows \in Seq(Connections) /\ v.hosts \in Seq(Hosts)
        /\ v.secret \in Secrets \cup {NoSecret}
    BY DEF Vaults
  <1>2. CASE v.rows # <<>>
    <2> DEFINE f == [i \in DOMAIN v.rows |->
                       [v.rows[i] EXCEPT !.secret = IF @ = NoSecret THEN v.secret ELSE @]]
    <2>1. ASSUME NEW i \in DOMAIN v.rows
          PROVE  /\ f[i] \in Connections /\ f[i].host = v.rows[i].host
                 /\ f[i].secret = IF v.rows[i].secret = NoSecret THEN v.secret ELSE v.rows[i].secret
      <3>1. v.rows[i] \in Connections
        BY <1>1, SeqShape
      <3>2. QED
        BY <1>1, <3>1 DEF Connections
    <2>2. f \in Seq(Connections)
      <3>1. DOMAIN f = DOMAIN v.rows /\ f = [i \in DOMAIN v.rows |-> f[i]]
        OBVIOUS
      <3> HIDE DEF f
      <3>2. QED
        BY <1>1, <2>1, <3>1, SeqMade
    <2>3. Listed(v) = f
      BY <1>2 DEF Listed
    <2>4. QED
      BY <1>2, <2>1, <2>2, <2>3
  <1>3. CASE v.rows = <<>>
    <2> DEFINE f == [i \in DOMAIN v.hosts |-> [host |-> v.hosts[i], secret |-> v.secret]]
    <2>1. ASSUME NEW i \in DOMAIN v.hosts
          PROVE  f[i] \in Connections
      BY <1>1, SeqShape DEF Connections
    <2>2. f \in Seq(Connections)
      <3> DEFINE hosts == v.hosts
      <3>1. /\ DOMAIN f = DOMAIN hosts /\ f = [i \in DOMAIN hosts |-> f[i]]
            /\ \A i \in DOMAIN hosts : f[i] \in Connections
        BY <2>1
      <3>2. hosts \in Seq(Hosts)
        BY <1>1
      <3> HIDE DEF f, hosts
      <3>3. QED
        BY <3>1, <3>2, SeqMade
    <2>3. Listed(v) = f
      BY <1>3 DEF Listed
    <2>4. QED
      BY <1>3, <2>2, <2>3
  <1>4. QED
    BY <1>2, <1>3

Sent == [host : Hosts, typed : Secrets \cup {NoSecret}, prev : Hosts]

LEMMA EarlierSecret ==
    ASSUME NEW list \in Seq(Connections), NEW row
    PROVE  Earlier(list, row).secret \in Secrets \cup {NoSecret}
  <1> DEFINE here == ByHost(list, row.host)
             before == ByHost(list, row.prev)
             found == IF here # {} THEN here ELSE IF before # {} THEN before ELSE {NoConnection}
  <1>1. ASSUME NEW h
        PROVE  ByHost(list, h) \subseteq Connections
    BY SeqShape DEF ByHost
  <1>2. found # {} /\ \A c \in found : c.secret \in Secrets \cup {NoSecret}
    <2>1. /\ \A c \in here : c.secret \in Secrets \cup {NoSecret}
          /\ \A c \in before : c.secret \in Secrets \cup {NoSecret}
      BY <1>1 DEF Connections
    <2>2. NoConnection.secret = NoSecret
      BY DEF NoConnection
    <2> HIDE DEF here, before
    <2>3. QED
      BY <2>1, <2>2
  <1>3. Earlier(list, row) = CHOOSE c \in found : TRUE
    BY DEF Earlier
  <1> HIDE DEF found
  <1>4. QED
    BY <1>2, <1>3

LEMMA MergedType ==
    ASSUME NEW read \in Vaults, NEW sent \in Seq(Sent)
    PROVE  /\ Merged(read, sent) \in Seq(Connections)
           /\ DOMAIN Merged(read, sent) = DOMAIN sent
           /\ Merged(read, sent) = <<>> <=> sent = <<>>
           /\ \A i \in DOMAIN sent :
                LET old == Earlier(Listed(read), sent[i]).secret
                IN  /\ Merged(read, sent)[i].host = sent[i].host
                    /\ Merged(read, sent)[i].secret =
                         IF sent[i].typed # NoSecret THEN sent[i].typed
                         ELSE IF old # NoSecret THEN old ELSE read.secret
  <1> DEFINE f == Merged(read, sent)
             old(i) == Earlier(Listed(read), sent[i]).secret
  <1>1. f = [i \in DOMAIN sent |->
                [host |-> sent[i].host,
                 secret |-> IF sent[i].typed # NoSecret THEN sent[i].typed
                            ELSE IF old(i) # NoSecret THEN old(i) ELSE read.secret]]
    BY DEF Merged
  <1>2. ASSUME NEW i \in DOMAIN sent
        PROVE  f[i] \in Connections
    <2>1. old(i) \in Secrets \cup {NoSecret}
      BY ListedType, EarlierSecret
    <2>2. sent[i] \in Sent /\ read.secret \in Secrets \cup {NoSecret}
      BY SeqShape DEF Vaults
    <2> HIDE DEF old
    <2>3. QED
      BY <1>1, <2>1, <2>2 DEF Connections, Sent
  <1>3. DOMAIN f = DOMAIN sent
    BY <1>1
  <1> HIDE DEF f
  <1>4. f = [i \in DOMAIN sent |-> f[i]]
    BY <1>1
  <1>5. f \in Seq(Connections) /\ (f = <<>> <=> sent = <<>>)
    BY <1>2, <1>3, <1>4, SeqMade
  <1>6. ASSUME NEW i \in DOMAIN sent
        PROVE  /\ f[i].host = sent[i].host
               /\ f[i].secret = IF sent[i].typed # NoSecret THEN sent[i].typed
                                ELSE IF old(i) # NoSecret THEN old(i) ELSE read.secret
    BY <1>1
  <1>7. QED
    BY <1>3, <1>5, <1>6 DEF f

(* A save leaves the fields from before the list repeating it.             *)
LEMMA SavedMirrors ==
    ASSUME NEW v \in Vaults, NEW read \in Vaults, NEW sent \in Seq(Sent)
    PROVE  /\ Saved(v, read, sent) \in Vaults
           /\ Saved(v, read, sent).rows = Merged(read, sent)
           /\ Mirrored(Saved(v, read, sent))
  <1> DEFINE rows == Merged(read, sent)
             new == IF rows = <<>> THEN read.secret ELSE rows[1].secret
             hosts == [i \in DOMAIN rows |-> rows[i].host]
             w == [rows |-> rows, hosts |-> hosts, secret |-> IF new = NoSecret THEN v.secret ELSE new]
  <1>1. Saved(v, read, sent) = w
    BY DEF Saved
  <1>2. rows \in Seq(Connections)
    BY MergedType
  <1> HIDE DEF rows
  <1>3. \A i \in DOMAIN rows : rows[i] \in Connections
    BY <1>2, SeqShape
  <1>31. \A i \in DOMAIN rows : hosts[i] \in Hosts
    BY <1>3 DEF Connections
  <1>32. DOMAIN hosts = DOMAIN rows /\ hosts = [i \in DOMAIN rows |-> hosts[i]]
    OBVIOUS
  <1>5. rows # <<>> => 1 \in DOMAIN rows
    BY <1>2, SeqShape
  <1> HIDE DEF hosts
  <1>4. hosts \in Seq(Hosts)
    BY <1>2, <1>31, <1>32, SeqMade
  <1>6. new \in Secrets \cup {NoSecret}
    BY <1>3, <1>5 DEF Connections, Vaults
  <1> HIDE DEF new
  <1>7. w \in Vaults
    BY <1>2, <1>4, <1>6 DEF Vaults
  <1>8. rows # <<>> => rows[1].secret \in {NoSecret, w.secret}
    BY DEF new
  <1>9. Mirrored(w)
    BY <1>8 DEF Mirrored, hosts
  <1>10. QED
    BY <1>1, <1>7, <1>9 DEF rows

LEMMA PayloadType ==
    ASSUME NEW rows \in Seq(Rows)
    PROVE  /\ Payload(rows) \in Seq(Sent)
           /\ DOMAIN Payload(rows) = DOMAIN rows
           /\ \A i \in DOMAIN rows :
                /\ Payload(rows)[i].host = rows[i].host /\ Payload(rows)[i].typed = rows[i].typed
                /\ Payload(rows)[i].prev = IF rows[i].prev = NoHost THEN rows[i].host ELSE rows[i].prev
  <1> DEFINE f == Payload(rows)
  <1>1. f = [i \in DOMAIN rows |->
               [host |-> rows[i].host, typed |-> rows[i].typed,
                prev |-> IF rows[i].prev = NoHost THEN rows[i].host ELSE rows[i].prev]]
    BY DEF Payload
  <1>2. ASSUME NEW i \in DOMAIN rows
        PROVE  f[i] \in Sent
    <2>1. rows[i] \in Rows
      BY SeqShape
    <2>2. QED
      BY <1>1, <2>1 DEF Rows, Sent
  <1>3. f \in Seq(Sent)
    BY <1>1, <1>2, SeqMade
  <1>4. QED
    BY <1>1, <1>3

-----------------------------------------------------------------------------
(* A page just loaded knows where its rows came from.                      *)
LEMMA PageLoaded ==
    ASSUME NEW v \in Vaults
    PROVE  PageOf(v) \in Shown /\ Sound(PageOf(v)) /\ PageOf(v).loaded = Listed(v)
  <1> DEFINE list == Listed(v)
             rows == [i \in DOMAIN list |->
                        [host |-> list[i].host, prev |-> NoHost,
                         configured |-> list[i].secret # NoSecret,
                         typed |-> NoSecret, from |-> i, changed |-> 0]]
  <1>1. PageOf(v) = [loaded |-> list, rows |-> rows]
    BY DEF PageOf
  <1>2. list \in Seq(Connections)
    BY ListedType
  <1> HIDE DEF list
  <1>3. \A i \in DOMAIN list : list[i] \in Connections /\ i \in Nat \ {0}
    BY <1>2, SeqShape
  <1>4. \A i \in DOMAIN list : rows[i] \in Rows
    BY <1>3 DEF Connections, Rows
  <1>5. DOMAIN rows = DOMAIN list /\ rows = [i \in DOMAIN list |-> rows[i]]
    OBVIOUS
  <1>6. \A i \in DOMAIN list : KnowsHome(rows[i], list)
    BY <1>3 DEF KnowsHome
  <1> HIDE DEF rows
  <1>7. rows \in Seq(Rows)
    BY <1>2, <1>4, <1>5, SeqMade
  <1>8. QED
    BY <1>1, <1>2, <1>5, <1>6, <1>7 DEF Shown, Sound, list

(* What one page is, in the invariant.                                     *)
LEMMA PageShape ==
    ASSUME IInv, NEW o \in Pages
    PROVE  /\ page[o] \in Shown /\ page[o].rows \in Seq(Rows) /\ Sound(page[o])
           /\ page = [q \in Pages |-> page[q]] /\ put = [q \in Pages |-> put[q]]
           /\ put[o] \in Puts /\ put[o].busy \in BOOLEAN
           /\ vault \in Vaults
           /\ put[o].busy => /\ put[o].read \in Vaults /\ put[o].page \in Shown
                             /\ put[o].page.rows \in Seq(Rows)
                             /\ put[o].sent \in Seq(Sent)
                             /\ Sound(put[o].page)
                             /\ put[o].sent = Payload(put[o].page.rows)
  <1>1. page \in [Pages -> Shown] /\ put \in [Pages -> Puts] /\ vault \in Vaults
    BY DEF IInv, TypeOK
  <1>2. put[o] \in Puts
    BY <1>1
  <1>3. CASE put[o] = NoPut
    BY <1>1, <1>2, <1>3 DEF IInv, NoPut, Shown
  <1>4. CASE put[o] \in [busy : {TRUE}, read : Vaults, page : Shown, sent : Seq(Sent)]
    BY <1>1, <1>2, <1>4 DEF IInv, Shown
  <1>5. QED
    BY <1>2, <1>3, <1>4 DEF Puts, Sent

(* The page of o is all that changes.                                      *)
LEMMA PageStep ==
    ASSUME IInv, NEW o \in Pages, NEW new \in Shown, Sound(new),
           page' = [page EXCEPT ![o] = new],
           edits' \in 0 .. MaxEdits, UNCHANGED <<vault, put, saves>>
    PROVE  IInv'
  <1>1. page \in [Pages -> Shown] /\ page' \in [Pages -> Shown]
    BY DEF IInv, TypeOK
  <1>2. \A q \in Pages : Sound(page'[q])
    BY <1>1 DEF IInv
  <1>3. \A q \in Pages : \A i \in DOMAIN page'[q].rows :
           page'[q].rows[i].from = 0 => page'[q].rows[i].typed # NoSecret
    BY <1>2 DEF Sound, KnowsHome
  <1>4. TypeOK'
    BY <1>1, <1>3 DEF IInv, TypeOK
  <1>5. QED
    BY <1>2, <1>4 DEF IInv

(* A change on the page of o: every row still knows its home.              *)
LEMMA RowsStep ==
    ASSUME IInv, NEW o \in Pages, NEW rows \in Seq(Rows), Shows(o, rows),
           \A i \in DOMAIN rows : KnowsHome(rows[i], page[o].loaded)
    PROVE  IInv'
  <1> DEFINE new == [page[o] EXCEPT !.rows = rows]
  <1>1. page[o] \in Shown
    BY PageShape
  <1>2. new \in Shown /\ new.rows = rows /\ new.loaded = page[o].loaded
    BY <1>1 DEF Shown
  <1>3. /\ page' = [page EXCEPT ![o] = new]
        /\ edits' \in 0 .. MaxEdits /\ UNCHANGED <<vault, put, saves>>
    BY ConnectionSettingsAssumption DEF Shows, IInv, TypeOK
  <1> HIDE DEF new
  <1>4. Sound(new)
    BY <1>2 DEF Sound
  <1>5. QED
    BY <1>2, <1>3, <1>4, PageStep

LEMMA LoadStep == ASSUME IInv, NEW o \in Pages, Load(o)
                  PROVE  IInv'
  <1>1. vault \in Vaults /\ edits \in 0 .. MaxEdits
    BY DEF IInv, TypeOK
  <1>2. QED
    BY <1>1, PageLoaded, PageStep DEF Load

LEMMA AddStep ==
    ASSUME IInv, NEW o \in Pages, NEW h \in Hosts, NEW s \in Secrets \cup {NoSecret}, Add(o, h, s)
    PROVE  IInv'
  <1> DEFINE row == [host |-> h, prev |-> NoHost, configured |-> FALSE,
                     typed |-> s, from |-> 0, changed |-> 0]
             rows == page[o].rows
  <1>1. rows \in Seq(Rows) /\ \A i \in DOMAIN rows : KnowsHome(rows[i], page[o].loaded)
    BY PageShape DEF Sound
  <1>2. row \in Rows /\ KnowsHome(row, page[o].loaded) /\ Shows(o, Append(rows, row))
    BY DEF Add, Rows, KnowsHome
  <1> HIDE DEF row, rows
  <1>3. /\ Append(rows, row) \in Seq(Rows)
        /\ \A i \in DOMAIN Append(rows, row) :
              Append(rows, row)[i] = row \/ (i \in DOMAIN rows /\ Append(rows, row)[i] = rows[i])
    BY <1>1, <1>2
  <1>4. QED
    BY <1>1, <1>2, <1>3, RowsStep

LEMMA EditStep ==
    ASSUME IInv, NEW o \in Pages, NEW i, NEW h \in Hosts, NEW s \in Secrets \cup {NoSecret},
           Edit(o, i, h, s)
    PROVE  IInv'
  <1> DEFINE rows == page[o].rows
             row == rows[i]
             typed == IF s = NoSecret THEN row.typed ELSE s
             new == [host |-> h, prev |-> row.host, configured |-> row.configured,
                     typed |-> typed, from |-> row.from, changed |-> row.changed + 1]
  <1>1. rows \in Seq(Rows) /\ \A k \in DOMAIN rows : KnowsHome(rows[k], page[o].loaded)
    BY PageShape DEF Sound
  <1>2. i \in DOMAIN rows /\ Shows(o, [rows EXCEPT ![i] = new])
    BY DEF Edit
  <1>3. row \in Rows /\ KnowsHome(row, page[o].loaded)
    BY <1>1, <1>2, SeqShape
  <1>4. /\ new \in Rows /\ new.from = row.from /\ new.prev = row.host /\ new.changed = row.changed + 1
        /\ row.typed # NoSecret => new.typed # NoSecret
    BY <1>3 DEF Rows
  <1>5. row.changed \in Nat
    BY <1>3 DEF Rows
  <1> HIDE DEF new, row
  <1>6. KnowsHome(new, page[o].loaded)
    BY <1>3, <1>4, <1>5 DEF KnowsHome
  <1> HIDE DEF rows
  <1>7. [rows EXCEPT ![i] = new] \in Seq(Rows)
    BY <1>1, <1>2, <1>4
  <1>8. \A k \in DOMAIN [rows EXCEPT ![i] = new] : KnowsHome([rows EXCEPT ![i] = new][k], page[o].loaded)
    BY <1>1, <1>2, <1>6
  <1>9. QED
    BY <1>2, <1>7, <1>8, RowsStep

LEMMA Removed ==
    ASSUME NEW S, NEW s \in Seq(S), NEW i \in DOMAIN s
    PROVE  /\ RemoveAt(s, i) \in Seq(S)
           /\ \A k \in DOMAIN RemoveAt(s, i) : \E j \in DOMAIN s : RemoveAt(s, i)[k] = s[j]
  <1> DEFINE a == SubSeq(s, 1, i - 1)
             b == SubSeq(s, i + 1, Len(s))
  <1>1. Len(s) \in Nat /\ DOMAIN s = 1 .. Len(s) /\ i \in 1 .. Len(s)
    BY SeqShape
  <1>2. /\ a \in Seq(S) /\ Len(a) = i - 1
        /\ \A k \in 1 .. Len(a) : a[k] = s[k]
    <2>1. /\ \A k \in 1 .. i - 1 : s[k] \in S
          /\ 1 \in Int /\ i - 1 \in Int
      BY <1>1
    <2>2. /\ a \in Seq(S)
          /\ Len(a) = IF 1 <= i - 1 THEN (i - 1) - 1 + 1 ELSE 0
          /\ \A k \in 1 .. (i - 1) - 1 + 1 : a[k] = s[1 + k - 1]
      BY <2>1, SubSeqProperties
    <2> HIDE DEF a
    <2>3. QED
      BY <1>1, <2>2
  <1>3. /\ b \in Seq(S) /\ Len(b) = Len(s) - i
        /\ \A k \in 1 .. Len(b) : b[k] = s[i + k]
    <2>1. /\ \A k \in i + 1 .. Len(s) : s[k] \in S
          /\ i + 1 \in Int /\ Len(s) \in Int
      BY <1>1
    <2>2. /\ b \in Seq(S)
          /\ Len(b) = IF i + 1 <= Len(s) THEN Len(s) - (i + 1) + 1 ELSE 0
          /\ \A k \in 1 .. Len(s) - (i + 1) + 1 : b[k] = s[(i + 1) + k - 1]
      BY <2>1, SubSeqProperties
    <2> HIDE DEF b
    <2>3. Len(b) = Len(s) - i
      BY <1>1, <2>2
    <2>4. ASSUME NEW k \in 1 .. Len(b)
          PROVE  b[k] = s[i + k]
      <3>1. k \in 1 .. Len(s) - (i + 1) + 1
        BY <1>1, <2>3
      <3>2. (i + 1) + k - 1 = i + k
        BY <1>1, <3>1
      <3>3. QED
        BY <2>2, <3>1, <3>2
    <2>5. QED
      BY <2>2, <2>3, <2>4
  <1>4. RemoveAt(s, i) = a \o b
    BY DEF RemoveAt
  <1> HIDE DEF a, b
  <1>5. /\ a \o b \in Seq(S) /\ Len(a \o b) = Len(a) + Len(b)
        /\ \A k \in 1 .. Len(a) + Len(b) :
              (a \o b)[k] = IF k <= Len(a) THEN a[k] ELSE b[k - Len(a)]
    BY <1>2, <1>3, ConcatProperties
  <1>6. ASSUME NEW k \in DOMAIN (a \o b)
        PROVE  \E j \in DOMAIN s : (a \o b)[k] = s[j]
    <2>1. k \in 1 .. Len(a) + Len(b)
      BY <1>5, SeqShape
    <2>2. CASE k <= Len(a)
      BY <1>1, <1>2, <1>5, <2>1, <2>2
    <2>3. CASE ~(k <= Len(a))
      <3>1. k - Len(a) \in 1 .. Len(b) /\ i + (k - Len(a)) \in 1 .. Len(s)
        BY <1>1, <1>2, <1>3, <2>1, <2>3
      <3>2. (a \o b)[k] = s[i + (k - Len(a))]
        BY <1>3, <1>5, <2>1, <2>3, <3>1
      <3>3. QED
        BY <1>1, <3>1, <3>2
    <2>4. QED
      BY <2>2, <2>3
  <1>7. QED
    BY <1>4, <1>5, <1>6

LEMMA DropStep == ASSUME IInv, NEW o \in Pages, NEW i, Drop(o, i)
                  PROVE  IInv'
  <1> DEFINE rows == page[o].rows
  <1>1. rows \in Seq(Rows) /\ \A k \in DOMAIN rows : KnowsHome(rows[k], page[o].loaded)
    BY PageShape DEF Sound
  <1>2. i \in DOMAIN rows /\ Shows(o, RemoveAt(rows, i))
    BY DEF Drop
  <1> HIDE DEF rows
  <1>3. QED
    BY <1>1, <1>2, Removed, RowsStep

LEMMA SendStep == ASSUME IInv, NEW o \in Pages, Send(o)
                  PROVE  IInv'
  <1> DEFINE q == [busy |-> TRUE, read |-> vault, page |-> page[o], sent |-> Payload(page[o].rows)]
  <1>1. /\ put' = [put EXCEPT ![o] = q] /\ saves < MaxSaves /\ saves' = saves + 1
        /\ UNCHANGED <<vault, page, edits>>
    BY DEF Send
  <1>2. q \in Puts /\ Sound(q.page) /\ q.sent = Payload(q.page.rows)
    BY PageShape, PayloadType DEF Puts, Sent
  <1> HIDE DEF q
  <1>3. put \in [Pages -> Puts] /\ saves' \in 0 .. MaxSaves
    BY <1>1, ConnectionSettingsAssumption DEF IInv, TypeOK
  <1>4. TypeOK'
    BY <1>1, <1>2, <1>3 DEF IInv, TypeOK
  <1>5. \A p \in Pages : put'[p].busy => Sound(put'[p].page) /\ put'[p].sent = Payload(put'[p].page.rows)
    BY <1>1, <1>2, <1>3 DEF IInv
  <1>6. QED
    BY <1>1, <1>4, <1>5 DEF IInv

LEMMA AnswerStep == ASSUME IInv, NEW o \in Pages, Commit(o) \/ Fail(o)
                    PROVE  IInv'
  <1>1. put' = [put EXCEPT ![o] = NoPut] /\ UNCHANGED <<page, edits, saves>> /\ put[o].busy
    BY DEF Commit, Fail
  <1>2. vault' \in Vaults
    <2>1. CASE Commit(o)
      BY <2>1, PageShape, SavedMirrors DEF Commit
    <2>2. CASE Fail(o)
      BY <2>2 DEF Fail, IInv, TypeOK
    <2>3. QED
      BY <2>1, <2>2
  <1>3. put \in [Pages -> Puts] /\ NoPut \in Puts /\ ~NoPut.busy
    BY DEF IInv, TypeOK, Puts, NoPut
  <1>4. TypeOK'
    BY <1>1, <1>2, <1>3 DEF IInv, TypeOK
  <1>5. \A p \in Pages : put'[p].busy => Sound(put'[p].page) /\ put'[p].sent = Payload(put'[p].page.rows)
    BY <1>1, <1>3 DEF IInv
  <1>6. QED
    BY <1>1, <1>2, <1>4, <1>5 DEF IInv

LEMMA InitHolds == Init => IInv
  <1> SUFFICES ASSUME Init PROVE IInv
    OBVIOUS
  <1>2. vault \in Vaults
    BY ImportedAssumption DEF Init
  <1>3. /\ page = [o \in Pages |-> PageOf(vault)] /\ put = [o \in Pages |-> NoPut]
        /\ edits = 0 /\ saves = 0
    BY DEF Init
  <1>4. PageOf(vault) \in Shown /\ Sound(PageOf(vault))
    BY <1>2, PageLoaded
  <1>5. \A i \in DOMAIN PageOf(vault).rows :
          PageOf(vault).rows[i].from = 0 => PageOf(vault).rows[i].typed # NoSecret
    BY <1>4 DEF Sound, KnowsHome
  <1>6. TypeOK
    BY <1>2, <1>3, <1>4, <1>5, ConnectionSettingsAssumption DEF TypeOK, Puts
  <1>7. QED
    BY <1>3, <1>4, <1>6 DEF IInv, NoPut

LEMMA NextKeeps == IInv /\ [Next]_vars => IInv'
  <1> SUFFICES ASSUME IInv, [Next]_vars PROVE IInv'
    OBVIOUS
  <1>1. CASE UNCHANGED vars
    <2>1. TypeOK'
      BY <1>1 DEF IInv, TypeOK, vars
    <2>2. QED
      BY <1>1, <2>1 DEF IInv, vars
  <1>2. ASSUME NEW o \in Pages,
               \/ Load(o) \/ Send(o) \/ Commit(o) \/ Fail(o)
               \/ \E i \in 1 .. MaxRows : Drop(o, i)
               \/ \E h \in Hosts, s \in Secrets \cup {NoSecret} :
                    Add(o, h, s) \/ \E i \in 1 .. MaxRows : Edit(o, i, h, s)
        PROVE  IInv'
    BY <1>2, LoadStep, SendStep, AnswerStep, DropStep, AddStep, EditStep
  <1>3. QED
    BY <1>1, <1>2 DEF Next

(* The strengthening: what the old fields repeat and what a page knows.    *)
THEOREM ConnectionInvariant == Spec => []IInv
  <1>1. QED
    BY InitHolds, NextKeeps, PTL DEF Spec

(* Types, and a new connection never lacks a secret.                       *)
THEOREM ConnectionTypes == Spec => []TypeOK
  <1>1. IInv => TypeOK
    BY DEF IInv
  <1>2. QED
    BY <1>1, ConnectionInvariant, PTL

(* Settings whose older fields repeat the list.                            *)
LEMMA MirroredIsDefault == ASSUME NEW v \in Vaults, Mirrored(v)
                           PROVE  FirstIsDefault(v)
  <1> DEFINE list == Listed(v)
  <1>1. v \in Vaults /\ list \in Seq(Connections) /\ Mirrored(v)
    BY ListedType
  <1>2. v.hosts \in Seq(Hosts) /\ v.rows \in Seq(Connections)
    BY <1>1 DEF Vaults
  <1>3. v.hosts = [i \in DOMAIN list |-> list[i].host]
    <2>1. CASE v.rows # <<>>
      BY <1>1, <2>1, ListedType DEF Mirrored
    <2>2. CASE v.rows = <<>>
      <3> DEFINE hosts == v.hosts
      <3>1. DOMAIN list = DOMAIN hosts
        BY <1>1, <2>2, ListedType
      <3>2. \A i \in DOMAIN hosts : list[i] = [host |-> hosts[i], secret |-> v.secret]
        BY <1>1, <2>2, ListedType
      <3>3. hosts \in Seq(Hosts) /\ hosts = [i \in DOMAIN hosts |-> hosts[i]]
        BY <1>2
      <3> HIDE DEF list, hosts
      <3>4. hosts = [i \in DOMAIN list |-> list[i].host]
        BY <3>1, <3>2, <3>3
      <3>5. QED
        BY <3>4 DEF hosts
    <2>3. QED
      BY <2>1, <2>2
  <1>4. ASSUME list # <<>>
        PROVE  /\ EndpointFor(v, v.hosts[1]) = list[1]
               /\ UsedAt(v, v.hosts[1]) = v.secret
    <2>1. 1 \in DOMAIN list /\ v.hosts[1] = list[1].host
      BY <1>1, <1>3, <1>4, SeqShape
    <2>2. EndpointFor(v, v.hosts[1]) = list[1]
      <3>1. v.hosts[1] = list[1].host /\ list \in Seq(Connections) /\ list # <<>>
        BY <1>1, <1>4, <2>1
      <3>2. EndpointFor(v, v.hosts[1]) =
              LET i == SelectInSeq(list, LAMBDA c : c.host = v.hosts[1])
              IN  IF i # 0 THEN list[i]
                  ELSE IF Len(list) = 1 /\ v.hosts[1] # NoHost THEN list[1] ELSE NoConnection
        BY DEF EndpointFor
      <3> HIDE DEF list
      <3>3. SelectInSeq(list, LAMBDA c : c.host = v.hosts[1]) = 1
        BY <3>1, FirstOf DEF SelectInSeq
      <3>4. QED
        BY <3>2, <3>3
    <2>4. list[1].secret \in {NoSecret, v.secret}
      <3>1. CASE v.rows # <<>>
        <4>1. /\ 1 \in DOMAIN v.rows
              /\ list[1].secret = IF v.rows[1].secret = NoSecret THEN v.secret
                                  ELSE v.rows[1].secret
          BY <1>1, <1>2, <3>1, ListedType, SeqShape
        <4>2. QED
          BY <1>1, <3>1, <4>1 DEF Mirrored
      <3>2. CASE v.rows = <<>>
        <4>1. 1 \in DOMAIN v.hosts
          BY <1>1, <2>1, <3>2, ListedType
        <4>2. list[1] = [host |-> v.hosts[1], secret |-> v.secret]
          BY <1>1, <3>2, <4>1, ListedType
        <4>3. QED
          BY <4>2
      <3>3. QED
        BY <3>1, <3>2
    <2>5. QED
      BY <2>2, <2>4 DEF UsedAt
  <1>5. QED
    BY <1>3, <1>4 DEF FirstIsDefault

(* After every save of a page the default connection of the provisioners   *)
(* is the first of the list, with its secret.                              *)
THEOREM DefaultConnection == Spec => DefaultIsFirst
  <1> DEFINE Kept == \A o \in Pages : Commit(o) => FirstIsDefault(vault')
  <1>1. ASSUME IInv, NEW o \in Pages, Commit(o)
        PROVE  FirstIsDefault(vault')
    <2>1. vault' \in Vaults /\ Mirrored(vault')
      BY <1>1, PageShape, SavedMirrors DEF Commit
    <2>2. QED
      BY <2>1, MirroredIsDefault
  <1>2. IInv => [Kept]_vars
    BY <1>1
  <1>3. DefaultIsFirst <=> [][Kept]_vars
    BY DEF DefaultIsFirst
  <1> HIDE DEF Kept
  <1>4. QED
    BY <1>2, <1>3, ConnectionInvariant, PTL

(* A row changed at most once is found again, by its own address or by the *)
(* one it was loaded with.                                                 *)
LEMMA FoundAgain ==
    ASSUME NEW list \in Seq(Connections), NEW row \in Rows, KnowsHome(row, list),
           row.from # 0, row.changed \in {0, 1}, NEW sent,
           sent.host = row.host,
           sent.prev = IF row.prev = NoHost THEN row.host ELSE row.prev,
           {k \in DOMAIN list : list[k].host = row.host} \subseteq {row.from},
           {k \in DOMAIN list : list[k].host = list[row.from].host} = {row.from}
    PROVE  Earlier(list, sent) = list[row.from]
  <1>1. row.from \in DOMAIN list /\ list[row.from] \in Connections
    BY SeqShape DEF KnowsHome
  <1>2. list[row.from].host \in Hosts /\ list[row.from].host # NoHost
    BY <1>1, ConnectionSettingsAssumption DEF Connections
  <1>3. row.host = list[row.from].host \/ sent.prev = list[row.from].host
    BY <1>2 DEF KnowsHome
  <1>4. CASE {k \in DOMAIN list : list[k].host = row.host} = {row.from}
    <2>1. ByHost(list, sent.host) = {list[row.from]}
      BY <1>1, <1>4, OnlyOne
    <2>2. QED
      BY <2>1 DEF Earlier
  <1>5. CASE {k \in DOMAIN list : list[k].host = row.host} = {}
    <2>1. ByHost(list, sent.host) = {}
      BY <1>5 DEF ByHost
    <2>2. sent.prev = list[row.from].host
      BY <1>1, <1>3, <1>5
    <2>3. ByHost(list, sent.prev) = {list[row.from]}
      BY <1>1, <2>2, OnlyOne
    <2>4. QED
      BY <2>1, <2>3 DEF Earlier
  <1>6. QED
    BY <1>4, <1>5

LEMMA CommitKeeps ==
    ASSUME IInv, NEW o \in Pages, Commit(o), Current(o), NEW i \in DOMAIN put[o].sent,
           LeftBlank(o, i), Unmistaken(o, i), put[o].page.rows[i].changed <= 1
    PROVE  KeptBy(o, i)
  <1> DEFINE q == put[o]
             rows == q.page.rows
             row == rows[i]
             list == q.page.loaded
  <1>1. /\ q.busy /\ vault' = Saved(vault, q.read, q.sent)
        /\ vault \in Vaults /\ q.read \in Vaults /\ q.sent \in Seq(Sent) /\ q.sent = Payload(rows)
        /\ rows \in Seq(Rows) /\ Sound(q.page)
    BY PageShape DEF Commit
  <1>2. list = Listed(q.read) /\ list \in Seq(Connections)
    BY <1>1, ListedType DEF Current
  <1>3. /\ i \in DOMAIN rows /\ q.sent[i].host = row.host /\ q.sent[i].typed = row.typed
        /\ q.sent[i].prev = IF row.prev = NoHost THEN row.host ELSE row.prev
    BY <1>1, PayloadType
  <1>4. row \in Rows /\ KnowsHome(row, list)
    BY <1>1, <1>3, SeqShape DEF Sound
  <1>5. row.changed \in {0, 1}
    BY <1>4 DEF Rows
  <1>6. row.from # 0 /\ row.typed = NoSecret /\ list[row.from].secret # NoSecret
    BY DEF LeftBlank
  <1>7. /\ {k \in DOMAIN list : list[k].host = row.host} \subseteq {row.from}
        /\ {k \in DOMAIN list : list[k].host = list[row.from].host} = {row.from}
    BY DEF Unmistaken
  <1> DEFINE s == q.sent[i]
             home == list[row.from]
  <1>8. Earlier(list, s) = home
    <2>1. s.host = row.host /\ s.prev = IF row.prev = NoHost THEN row.host ELSE row.prev
      BY <1>3
    <2> HIDE DEF s, row, list
    <2>2. QED
      BY <1>2, <1>4, <1>5, <1>6, <1>7, <2>1, FoundAgain
  <1>9. Merged(q.read, q.sent)[i].secret = home.secret
    <2>1. Earlier(Listed(q.read), q.sent[i]) = home
      BY <1>2, <1>8
    <2>2. q.sent[i].typed = NoSecret /\ home.secret # NoSecret
      BY <1>3, <1>6
    <2>3. QED
      BY <1>1, <2>1, <2>2, MergedType, SMTT(30)
  <1>10. /\ vault' \in Vaults /\ vault'.rows = Merged(q.read, q.sent)
         /\ DOMAIN vault'.rows = DOMAIN q.sent
         /\ vault'.rows # <<>>
    <2>1. vault' \in Vaults /\ vault'.rows = Merged(q.read, q.sent)
      BY <1>1, SavedMirrors
    <2>2. q.sent # <<>>
      BY <1>1, SeqShape
    <2>3. QED
      BY <1>1, <2>1, <2>2, MergedType
  <1>11. Listed(vault')[i].secret = vault'.rows[i].secret
    BY <1>6, <1>9, <1>10, ListedType, SMTT(30)
  <1>12. QED
    BY <1>9, <1>10, <1>11 DEF KeptBy

(* A secret left blank is kept, for any number of connections and pages    *)
(* and however their saves overlap.                                        *)
THEOREM BlankSecretKept == Spec => KeepsSecret
  <1> DEFINE Keeps ==
               \A o \in Pages : Commit(o) /\ Current(o) =>
                 \A i \in DOMAIN put[o].sent :
                    LeftBlank(o, i) /\ Unmistaken(o, i) /\ put[o].page.rows[i].changed <= 1
                        => KeptBy(o, i)
  <1>1. IInv => Keeps
    BY CommitKeeps
  <1>2. IInv => [Keeps]_vars
    BY <1>1
  <1>3. KeepsSecret <=> [][Keeps]_vars
    BY DEF KeepsSecret
  <1> HIDE DEF Keeps
  <1>4. QED
    BY <1>2, <1>3, ConnectionInvariant, PTL
=============================================================================
