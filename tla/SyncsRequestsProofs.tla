------------------------- MODULE SyncsRequestsProofs -------------------------
(***************************************************************************)
(* Proofs about SyncsRequests, for every number of entries, of entries in a *)
(* page, of calls, changes, lost pages and broken connections: types, reads *)
(* and lists of one moment, pages that fit, and no event lost but one.      *)
(***************************************************************************)
EXTENDS SyncsRequests, SequenceTheorems, WellFoundedInduction, TLAPS

-----------------------------------------------------------------------------
(* Induction.  The induction theorems of the library have an operator as     *)
(* parameter; this one has a set.                                            *)

\* A set of natural numbers with 0 and all successors is that of all of them.
LEMMA SetInduction ==
    ASSUME NEW T \in SUBSET Nat, 0 \in T, \A n \in T : n + 1 \in T
    PROVE  T = Nat
<1> SUFFICES ASSUME Nat \ T # {} PROVE FALSE
    OBVIOUS
<1> DEFINE R == OpToRel(<, Nat)
<1>1. IsWellFoundedOn(R, Nat)
    BY NatLessThanWellFounded
<1>2. \A x, y \in Nat : x < y => <<x, y>> \in R
    BY DEF OpToRel
<1> HIDE DEF R
<1>3. PICK x \in Nat \ T : \A y \in Nat \ T : ~(<<y, x>> \in R)
    BY <1>1, WFMin, Zenon
<1>4. x # 0
    BY <1>3
<1>5. x - 1 \in Nat /\ x - 1 < x /\ x = (x - 1) + 1
    BY <1>4
<1>6. x - 1 \in T
    BY <1>2, <1>3, <1>5
<1> QED
    BY <1>3, <1>5, <1>6

-----------------------------------------------------------------------------
(* Sequences.                                                                *)

\* The first element of a queue and the others.
LEMMA HeadAndTail ==
    ASSUME NEW S, NEW s \in Seq(S), s # << >>
    PROVE  /\ Len(s) \in Nat \ {0}
           /\ Head(s) = s[1] /\ Head(s) \in S
           /\ Tail(s) \in Seq(S) /\ Len(Tail(s)) = Len(s) - 1
           /\ \A i \in 1..Len(s) - 1 : Tail(s)[i] = s[i + 1]
    BY HeadTailProperties

\* One sequence after the other.
LEMMA Joined ==
    ASSUME NEW S, NEW s \in Seq(S), NEW t \in Seq(S)
    PROVE  /\ s \o t \in Seq(S)
           /\ Len(s \o t) = Len(s) + Len(t)
           /\ \A i \in 1..Len(s) : (s \o t)[i] = s[i]
           /\ \A j \in 1..Len(t) : (s \o t)[Len(s) + j] = t[j]
<1>1. /\ s \o t \in Seq(S)
      /\ Len(s \o t) = Len(s) + Len(t)
      /\ \A i \in 1..Len(s) + Len(t) :
            (s \o t)[i] = IF i <= Len(s) THEN s[i] ELSE t[i - Len(s)]
    BY ConcatProperties
<1>2. Len(s) \in Nat /\ Len(t) \in Nat
    OBVIOUS
<1>3. ASSUME NEW i \in 1..Len(s)
      PROVE  (s \o t)[i] = s[i]
    <2>1. i \in 1..Len(s) + Len(t) /\ i <= Len(s)
        BY <1>2
    <2> QED
        BY <1>1, <2>1
<1>4. ASSUME NEW j \in 1..Len(t)
      PROVE  (s \o t)[Len(s) + j] = t[j]
    <2>1. /\ Len(s) + j \in 1..Len(s) + Len(t) /\ ~(Len(s) + j <= Len(s))
          /\ (Len(s) + j) - Len(s) = j
        BY <1>2
    <2> QED
        BY <1>1, <2>1
<1> QED
    BY <1>1, <1>3, <1>4

\* A part of a sequence.
LEMMA Part ==
    ASSUME NEW S, NEW s \in Seq(S), NEW i \in 1..Len(s) + 1, NEW j \in i - 1..Len(s)
    PROVE  /\ SubSeq(s, i, j) \in Seq(S)
           /\ Len(SubSeq(s, i, j)) = j - i + 1
           /\ \A k \in 1..j - i + 1 : SubSeq(s, i, j)[k] = s[i + k - 1]
    OBVIOUS

-----------------------------------------------------------------------------
(* The list of a table, and its pages.                                       *)

\* How Listing goes on after the entries before n.
Listed(t, g, n) ==
    IF n = 0 THEN << >>
    ELSE IF t[n] = 0 THEN g[n - 1]
    ELSE Append(g[n - 1], <<n, t[n]>>)

\* The recursion of Listing has a solution.
LEMMA ListingExists ==
    ASSUME NEW t
    PROVE  \A m \in Nat : \E g : g = [n \in 0..m |-> Listed(t, g, n)]
<1> DEFINE T == {m \in Nat : \E g : g = [n \in 0..m |-> Listed(t, g, n)]}
<1>1. 0 \in T
    <2> DEFINE g == [n \in 0..0 |-> << >>]
    <2>1. \A n \in 0..0 : Listed(t, g, n) = << >>
        BY DEF Listed
    <2>2. g = [n \in 0..0 |-> Listed(t, g, n)]
        BY <2>1
    <2> QED
        BY <2>2
<1>2. ASSUME NEW m \in T
      PROVE  m + 1 \in T
    <2>1. PICK g : g = [n \in 0..m |-> Listed(t, g, n)]
        OBVIOUS
    <2>2. m \in Nat
        OBVIOUS
    <2> DEFINE h == [n \in 0..m + 1 |-> IF n = m + 1 THEN Listed(t, g, m + 1) ELSE g[n]]
    <2>3. \A n \in 0..m : h[n] = g[n]
        BY <2>2
    <2>4. ASSUME NEW n \in 0..m + 1
          PROVE  h[n] = Listed(t, h, n)
        <3>1. CASE n = 0
            <4>1. 0 \in 0..m /\ 0 \in 0..m + 1 /\ 0 # m + 1
                BY <2>2
            <4>2. h[0] = g[0]
                BY <4>1
            <4>3. g[0] = Listed(t, g, 0)
                BY <2>1, <4>1
            <4> QED
                BY <3>1, <4>2, <4>3 DEF Listed
        <3>2. CASE n # 0
            <4>1. n - 1 \in 0..m
                BY <2>2, <3>2
            <4>2. h[n - 1] = g[n - 1]
                BY <2>3, <4>1
            <4>3. Listed(t, h, n) = Listed(t, g, n)
                BY <4>2 DEF Listed
            <4>4. h[n] = Listed(t, g, n)
                <5>1. CASE n = m + 1
                    BY <5>1
                <5>2. CASE n # m + 1
                    <6>1. n \in 0..m
                        BY <2>2, <5>2
                    <6> QED
                        BY <2>1, <2>3, <6>1
                <5> QED
                    BY <5>1, <5>2
            <4> QED
                BY <4>3, <4>4
        <3> QED
            BY <3>1, <3>2
    <2>5. h = [n \in 0..m + 1 |-> h[n]]
        OBVIOUS
    <2> HIDE DEF h
    <2>6. h = [n \in 0..m + 1 |-> Listed(t, h, n)]
        BY <2>4, <2>5
    <2>7. m + 1 \in Nat
        BY <2>2
    <2> QED
        BY <2>6, <2>7
<1>3. T \in SUBSET Nat
    OBVIOUS
<1> HIDE DEF T
<1>4. T = Nat
    BY <1>1, <1>2, <1>3, SetInduction
<1> QED
    BY <1>4 DEF T

\* A list has at most one item for each entry.
LEMMA ListingType ==
    ASSUME NEW t \in [Entries -> Values]
    PROVE  Listing(t) \in Seq(Pairs) /\ Len(Listing(t)) \in 0..MaxEntries
<1> DEFINE g == CHOOSE g : g = [n \in 0..MaxEntries |-> Listed(t, g, n)]
<1>1. Listing(t) = g[MaxEntries]
    BY DEF Listing, Listed
<1>2. MaxEntries \in Nat
    BY SizeAssumption
<1>3. g = [n \in 0..MaxEntries |-> Listed(t, g, n)]
    <2>1. \E f : f = [n \in 0..MaxEntries |-> Listed(t, f, n)]
        BY <1>2, ListingExists
    <2> QED
        BY <2>1
<1> HIDE DEF g
<1> DEFINE T == {n \in Nat : n <= MaxEntries => g[n] \in Seq(Pairs) /\ Len(g[n]) <= n}
<1>4. 0 \in T
    <2>1. g[0] = << >>
        BY <1>2, <1>3 DEF Listed
    <2>2. << >> \in Seq(Pairs) /\ Len(<< >>) = 0
        OBVIOUS
    <2>3. g[0] \in Seq(Pairs)
        BY <2>1, <2>2
    <2>4. Len(g[0]) <= 0
        BY <2>1, <2>2
    <2> QED
        BY <2>3, <2>4
<1>5. ASSUME NEW n \in T
      PROVE  n + 1 \in T
    <2>1. SUFFICES ASSUME n + 1 <= MaxEntries
                   PROVE  g[n + 1] \in Seq(Pairs) /\ Len(g[n + 1]) <= n + 1
        OBVIOUS
    <2>2. n \in Nat /\ n <= MaxEntries
        BY <1>2, <2>1
    <2>3. g[n] \in Seq(Pairs) /\ Len(g[n]) <= n /\ Len(g[n]) \in Nat
        BY <2>2
    <2>4. n + 1 \in 0..MaxEntries /\ n + 1 # 0 /\ (n + 1) - 1 = n /\ n + 1 \in Entries
        BY <1>2, <2>1, <2>2 DEF Entries
    <2>5. g[n + 1] = IF t[n + 1] = 0 THEN g[n] ELSE Append(g[n], <<n + 1, t[n + 1]>>)
        BY <1>3, <2>4 DEF Listed
    <2>6. <<n + 1, t[n + 1]>> \in Pairs
        BY <2>4 DEF Pairs
    <2>7. CASE t[n + 1] = 0
        BY <2>2, <2>3, <2>5, <2>7
    <2>8. CASE t[n + 1] # 0
        <3>1. g[n + 1] = Append(g[n], <<n + 1, t[n + 1]>>)
            BY <2>5, <2>8
        <3>2. PICK p : p = <<n + 1, t[n + 1]>>
            OBVIOUS
        <3>3. Append(g[n], p) \in Seq(Pairs) /\ Len(Append(g[n], p)) = Len(g[n]) + 1
            BY <2>3, <2>6, <3>2
        <3> QED
            BY <2>2, <2>3, <3>1, <3>2, <3>3
    <2> QED
        BY <2>7, <2>8
<1>6. T \in SUBSET Nat
    OBVIOUS
<1>7. T = Nat
    <2> HIDE DEF T
    <2> QED
        BY <1>4, <1>5, <1>6, SetInduction
<1>8. g[MaxEntries] \in Seq(Pairs) /\ Len(g[MaxEntries]) <= MaxEntries
    BY <1>2, <1>7
<1> QED
    BY <1>1, <1>2, <1>8

\* Where a page begins, in numbers.
LEMMA PageBegins ==
    ASSUME NEW len \in Nat, NEW q, q = len \div PerPage
    PROVE  /\ q \in Nat /\ q * PerPage \in Nat /\ q * PerPage <= len /\ len < q * PerPage + PerPage
           /\ \A i \in 0..q : i * PerPage \in Nat /\ i * PerPage <= q * PerPage
           /\ \A i \in Nat : (i + 1) * PerPage = i * PerPage + PerPage
<1>1. PerPage \in Nat /\ PerPage > 0
    BY SizeAssumption
<1>2. q \in Nat
    BY <1>1
<1>3. q * PerPage <= len /\ q * PerPage \in Nat /\ len < q * PerPage + PerPage
    BY <1>1, <1>2
<1>4. ASSUME NEW i \in 0..q
      PROVE  i * PerPage \in Nat /\ i * PerPage <= q * PerPage
    BY <1>1, <1>2
<1>5. ASSUME NEW i \in Nat
      PROVE  (i + 1) * PerPage = i * PerPage + PerPage
    BY <1>1
<1> QED
    BY <1>2, <1>3, <1>4, <1>5

\* The pages of a list: page i of n, which begins after i - 1 full ones.
PageOf(all, k, seq, n, i) ==
    [type |-> "LIST", kind |-> k, sequence |-> seq, page |-> i - 1, end |-> i = n,
     items |-> SubSeq(all, (i - 1) * PerPage + 1, IF i = n THEN Len(all) ELSE i * PerPage)]

\* A page is full unless it is the last one, and ends before its list.
PartOfList(all, k, seq, n, i) ==
    LET p == PageOf(all, k, seq, n, i)
        begin == (i - 1) * PerPage
    IN  /\ n \in Nat /\ p \in ListPages
        /\ begin \in Nat
        /\ begin + Len(p.items) <= Len(all)
        /\ i = n => begin + Len(p.items) = Len(all) /\ Len(p.items) < PerPage
        /\ i # n => Len(p.items) = PerPage
        /\ \A j \in 1..Len(p.items) : p.items[j] = all[begin + j]

\* Page i of n is such a part of the list.
LEMMA PageType ==
    ASSUME NEW all \in Seq(Pairs), NEW k \in Kinds, NEW seq \in 0..Modulus - 1,
           NEW n, n = Len(all) \div PerPage + 1, NEW i \in 1..n
    PROVE  PartOfList(all, k, seq, n, i)
<1>1. PICK q : q = Len(all) \div PerPage
    OBVIOUS
<1>2. Len(all) \in Nat /\ PerPage \in Nat
    BY SizeAssumption
<1>3. /\ q \in Nat /\ q * PerPage \in Nat /\ q * PerPage <= Len(all)
      /\ \A j \in 0..q : j * PerPage \in Nat /\ j * PerPage <= q * PerPage
      /\ \A j \in Nat : (j + 1) * PerPage = j * PerPage + PerPage
    BY <1>1, <1>2, PageBegins
<1>4. n = q + 1 /\ n \in Nat
    <2>1. n = q + 1
        BY <1>1, Zenon
    <2>2. q \in Nat
        BY <1>3
    <2> QED
        BY <2>1, <2>2
<1>5. PICK begin : begin = (i - 1) * PerPage
    OBVIOUS
<1>6. PICK last : last = IF i = n THEN Len(all) ELSE i * PerPage
    OBVIOUS
<1>7. /\ begin \in Nat /\ begin <= Len(all)
      /\ last \in Nat /\ last <= Len(all) /\ begin <= last
      /\ i # n => last = begin + PerPage
    <2>1. i - 1 \in 0..q /\ i - 1 \in Nat /\ (i - 1) + 1 = i
        BY <1>3, <1>4
    <2>2. begin \in Nat /\ begin <= q * PerPage
        BY <1>3, <1>5, <2>1
    <2>3. CASE i = n
        BY <1>2, <1>3, <1>6, <2>2, <2>3
    <2>4. CASE i # n
        <3>1. i \in 0..q
            BY <1>3, <1>4, <2>4, SMTT(30)
        <3>2. last \in Nat /\ last <= q * PerPage
            BY <1>3, <1>6, <2>4, <3>1
        <3>3. last = begin + PerPage
            BY <1>3, <1>5, <1>6, <2>1, <2>4
        <3> QED
            BY <1>2, <1>3, <2>2, <3>2, <3>3
    <2> QED
        BY <2>3, <2>4
<1>8. PICK items : items = SubSeq(all, begin + 1, last)
    OBVIOUS
<1>9. /\ items \in Seq(Pairs) /\ Len(items) = last - begin
      /\ \A j \in 1..Len(items) : items[j] = all[begin + j]
    <2>1. /\ begin + 1 \in 1..Len(all) + 1 /\ last \in (begin + 1) - 1..Len(all)
          /\ last - (begin + 1) + 1 = last - begin
        BY <1>2, <1>7
    <2>2. SubSeq(all, begin + 1, last) \in Seq(Pairs) /\ Len(SubSeq(all, begin + 1, last)) = last - (begin + 1) + 1
        BY <2>1, Part
    <2>3. \A j \in 1..last - (begin + 1) + 1 : SubSeq(all, begin + 1, last)[j] = all[(begin + 1) + j - 1]
        BY <2>1, Part
    <2>4. \A j \in 1..last - begin : (begin + 1) + j - 1 = begin + j
        BY <1>7
    <2> QED
        BY <1>8, <2>1, <2>2, <2>3, <2>4
<1>10. PageOf(all, k, seq, n, i) =
          [type |-> "LIST", kind |-> k, sequence |-> seq, page |-> i - 1, end |-> i = n, items |-> items]
    BY <1>5, <1>6, <1>8 DEF PageOf
<1>11. i - 1 \in Nat
    BY <1>4
<1>12. PageOf(all, k, seq, n, i) \in ListPages /\ PageOf(all, k, seq, n, i).items = items
    <2>1. \A page \in Nat, end \in BOOLEAN :
              [type |-> "LIST", kind |-> k, sequence |-> seq, page |-> page, end |-> end, items |-> items]
                  \in ListPages
        BY <1>9 DEF ListPages
    <2>2. (i = n) \in BOOLEAN
        OBVIOUS
    <2>3. PICK page, end : page = i - 1 /\ end = (i = n)
        OBVIOUS
    <2>4. PageOf(all, k, seq, n, i) =
              [type |-> "LIST", kind |-> k, sequence |-> seq, page |-> page, end |-> end, items |-> items]
        BY <1>10, <2>3, Zenon
    <2>5. page \in Nat /\ end \in BOOLEAN
        BY <1>11, <2>2, <2>3, Zenon
    <2> QED
        BY <2>1, <2>4, <2>5
<1>13. /\ begin + Len(items) <= Len(all)
       /\ i = n => begin + Len(items) = Len(all) /\ Len(items) < PerPage
       /\ i # n => Len(items) = PerPage
    <2>1. i = n => begin = q * PerPage
        BY <1>3, <1>4, <1>5
    <2>2. Len(all) < q * PerPage + PerPage
        BY <1>1, <1>2, PageBegins
    <2> QED
        BY <1>2, <1>3, <1>6, <1>7, <1>9, <2>1, <2>2, SMTT(30)
<1> QED
    BY <1>4, <1>5, <1>7, <1>9, <1>12, <1>13 DEF PartOfList

\* What the server sends for a list.
LEMMA PagesType ==
    ASSUME TypeOK, NEW k \in Kinds, NEW seq \in 0..Modulus - 1
    PROVE  LET all == Listing(table[k])
               n == Len(all) \div PerPage + 1
           IN  /\ n \in Nat \ {0}
               /\ Pages(k, seq) \in Seq(ListPages)
               /\ Len(Pages(k, seq)) = n
               /\ \A i \in 1..n : Pages(k, seq)[i] = PageOf(all, k, seq, n, i)
<1>1. PICK all : all = Listing(table[k])
    OBVIOUS
<1>2. PICK n : n = Len(all) \div PerPage + 1
    OBVIOUS
<1>3. all \in Seq(Pairs) /\ Len(all) \in Nat
    <2>1. table[k] \in [Entries -> Values]
        BY DEF TypeOK, Tables
    <2> QED
        BY <1>1, <2>1, ListingType
<1>4. n \in Nat \ {0}
    <2>1. PICK q : q = Len(all) \div PerPage
        OBVIOUS
    <2>2. q \in Nat
        BY <1>3, <2>1, PageBegins
    <2> QED
        BY <1>2, <2>1, <2>2
<1>5. Pages(k, seq) = [i \in 1..n |-> PageOf(all, k, seq, n, i)]
    BY <1>1, <1>2 DEF Pages, PageOf
<1>6. \A i \in 1..n : PageOf(all, k, seq, n, i) \in ListPages
    BY <1>2, <1>3, PageType DEF PartOfList
<1>7. Pages(k, seq) \in Seq(ListPages) /\ Len(Pages(k, seq)) = n
    BY <1>4, <1>5, <1>6
<1> QED
    BY <1>1, <1>2, <1>4, <1>5, <1>7

-----------------------------------------------------------------------------
(* Types.                                                                    *)

\* Where the application can be in a call, and what it then relies on.  A page
\* that was found to fit in the buffer still fits when it is counted.
Control ==
    /\ app.pc \in {"recv", "page"} => app.call = "list"
    /\ app.pc = "ask" => app.call \in {"read", "list"}
    /\ app.pc \in {"take", "reset"} => app.call = "wait" /\ app.of \in Synced
    /\ app.call = "read" => app.of \in Entries
    /\ app.call = "list" => app.kind \in Kinds
    /\ app.call = "list" /\ app.pc # "done" => list[app.kind].info # Null
    /\ At("count") => /\ thread.base + Len(thread.packet.items) <= MaxEntries
                      /\ list[thread.packet.kind].recv + Len(thread.packet.items) <= MaxEntries

Inv == TypeOK /\ Control

\* The packets to the client.
LEMMA AnswerTypes ==
    ASSUME NEW p \in Answers
    PROVE  /\ p.type = "READ" => p \in [type : {"READ"}, id : Entries, value : Values]
           /\ p.type = "EVENT" => p \in [type : {"EVENT"}, id : Synced, value : Values]
           /\ p.type = "LIST" => p \in ListPages
           /\ p.type \in {"READ", "EVENT", "LIST", "TICKET"}
    BY DEF Answers, ListPages

\* A page of a list.
LEMMA PageFields ==
    ASSUME NEW p \in ListPages
    PROVE  /\ p.type = "LIST" /\ p.kind \in Kinds /\ p.sequence \in 0..Modulus - 1
           /\ p.page \in Nat /\ p.end \in BOOLEAN /\ p.items \in Seq(Pairs)
           /\ Len(p.items) \in Nat
    BY DEF ListPages

\* The packets to the server.
LEMMA RequestTypes ==
    ASSUME NEW p \in Packets
    PROVE  /\ p.type = "READ" => p.id \in Entries
           /\ p.type = "LIST" => p.kind \in Kinds /\ p.sequence \in 0..Modulus - 1
    BY DEF Packets

\* The pages that are not lost are sent in their order.
LEMMA PagesSent ==
    ASSUME TypeOK, NEW k \in Kinds, NEW seq \in 0..Modulus - 1,
           NEW lost \in 0..Len(Pages(k, seq)),
           NEW sent \in Selections(Len(Pages(k, seq)) - lost, Len(Pages(k, seq)))
    PROVE  /\ [i \in DOMAIN sent |-> Pages(k, seq)[sent[i]]] \in Seq(ListPages)
           /\ [i \in DOMAIN sent |-> Pages(k, seq)[sent[i]]] \in Seq(Answers)
<1>1. PICK n : n = Len(Pages(k, seq))
    OBVIOUS
<1>2. n \in Nat /\ Pages(k, seq) \in Seq(ListPages)
    BY <1>1, PagesType
<1>3. n - lost \in Nat
    BY <1>1, <1>2
<1>4. sent \in [1..n - lost -> 1..n]
    BY <1>1 DEF Selections
<1>5. \A i \in 1..n - lost : Pages(k, seq)[sent[i]] \in ListPages
    BY <1>1, <1>2, <1>4
<1>6. DOMAIN sent = 1..n - lost
    BY <1>4
<1>7. [i \in DOMAIN sent |-> Pages(k, seq)[sent[i]]] \in Seq(ListPages)
    BY <1>3, <1>5, <1>6
<1>8. \A i \in 1..n - lost : Pages(k, seq)[sent[i]] \in Answers
    BY <1>5 DEF Answers
<1>9. [i \in DOMAIN sent |-> Pages(k, seq)[sent[i]]] \in Seq(Answers)
    BY <1>3, <1>6, <1>8
<1> QED
    BY <1>7, <1>9

\* The server answers a request.
LEMMA ServerReadsInv ==
    ASSUME Inv, ServerReads
    PROVE  Inv'
<1> DEFINE p == Head(toServer)
<1>1. toServer \in Seq(Packets) /\ toServer # << >> /\ toClient \in Seq(Answers) /\ bounds \in Counts
    BY DEF Inv, TypeOK, ServerReads
<1>2. p \in Packets /\ Tail(toServer) \in Seq(Packets)
    BY <1>1, HeadAndTail
<1>3. toServer' = Tail(toServer) /\ UNCHANGED <<table, link, thread, app, read, waits, list, histories>>
    BY DEF ServerReads
<1>4. toClient' \in Seq(Answers) /\ bounds' \in Counts
    <2>1. CASE /\ p.type = "READ"
               /\ toClient' = Append(toClient, ReadReply(p.id))
               /\ UNCHANGED bounds
        <3>1. p.id \in Entries
            BY <1>2, <2>1, RequestTypes
        <3>2. table["event"][p.id] \in Values
            BY <3>1, KindAssumption DEF Inv, TypeOK, Tables
        <3>3. ReadReply(p.id) \in Answers
            BY <3>1, <3>2 DEF Answers, ReadReply
        <3> HIDE DEF p
        <3> QED
            BY <1>1, <2>1, <3>3
    <2>2. ASSUME p.type = "LIST",
                 NEW lost \in 0..Len(Pages(p.kind, p.sequence)),
                 NEW sent \in Selections(Len(Pages(p.kind, p.sequence)) - lost, Len(Pages(p.kind, p.sequence))),
                 bounds.lost + lost <= MaxLost,
                 bounds' = [bounds EXCEPT !.lost = @ + lost],
                 toClient' = toClient \o [i \in DOMAIN sent |-> Pages(p.kind, p.sequence)[sent[i]]]
          PROVE  toClient' \in Seq(Answers) /\ bounds' \in Counts
        <3>1. p.kind \in Kinds /\ p.sequence \in 0..Modulus - 1
            BY <1>2, <2>2, RequestTypes
        <3>2. [i \in DOMAIN sent |-> Pages(p.kind, p.sequence)[sent[i]]] \in Seq(Answers)
            BY <2>2, <3>1, PagesSent DEF Inv
        <3>3. toClient' \in Seq(Answers)
            BY <1>1, <2>2, <3>2, Joined
        <3>4. lost \in Nat
            <4>1. Len(Pages(p.kind, p.sequence)) \in Nat
                BY <3>1, PagesType DEF Inv
            <4> QED
                BY <4>1
        <3>5. bounds.lost + lost \in 0..MaxLost
            <4>1. bounds.lost \in Nat /\ MaxLost \in Nat
                BY <1>1, SizeAssumption DEF Counts
            <4> QED
                BY <2>2, <3>4, <4>1
        <3>6. bounds' \in Counts
            <4>1. \A x \in 0..MaxLost : [bounds EXCEPT !.lost = x] \in Counts
                BY <1>1 DEF Counts
            <4> QED
                BY <2>2, <3>5, <4>1
        <3> QED
            BY <3>3, <3>6
    <2>3. CASE p.type = "TICKET" /\ toClient' = Append(toClient, [type |-> "TICKET"]) /\ UNCHANGED bounds
        <3>1. [type |-> "TICKET"] \in Answers
            BY DEF Answers
        <3> HIDE DEF p
        <3> QED
            BY <1>1, <2>3, <3>1
    <2> QED
        BY <2>1, <2>2, <2>3 DEF ServerReads
<1> QED
    BY <1>2, <1>3, <1>4 DEF Inv, TypeOK, Control, waits, histories, At

\* An entry changes.
LEMMA ChangeInv ==
    ASSUME Inv, NEW k \in Kinds, NEW e \in Entries, NEW v \in Values, Change(k, e, v)
    PROVE  Inv'
<1>1. /\ table \in Tables /\ toClient \in Seq(Answers) /\ bounds \in Counts /\ moments \subseteq Tables
      /\ bounds.changes < MaxChanges
      /\ bounds' = [bounds EXCEPT !.changes = @ + 1]
      /\ table' = [table EXCEPT ![k][e] = v]
      /\ UNCHANGED <<link, toServer, thread, app, read, waits, list, clean, raced, kept>>
    BY DEF Inv, TypeOK, Change
<1>2. table' \in Tables
    BY <1>1 DEF Tables
<1>3. bounds' \in Counts
    <2>1. bounds.changes + 1 \in 0..MaxChanges
        BY <1>1, SizeAssumption DEF Counts
    <2>2. \A x \in 0..MaxChanges : [bounds EXCEPT !.changes = x] \in Counts
        BY <1>1 DEF Counts
    <2> QED
        BY <1>1, <2>1, <2>2
<1>4. toClient' \in Seq(Answers)
    <2>1. CASE toClient' = toClient
        BY <1>1, <2>1
    <2>2. CASE e \in Synced /\ toClient' = Append(toClient, [type |-> "EVENT", id |-> e, value |-> v])
        <3>1. [type |-> "EVENT", id |-> e, value |-> v] \in Answers
            BY <2>2 DEF Answers
        <3> QED
            BY <1>1, <2>2, <3>1
    <2> QED
        BY <2>1, <2>2 DEF Change
<1>5. moments' \subseteq Tables
    BY <1>1, <1>2 DEF Change
<1> QED
    BY <1>1, <1>2, <1>3, <1>4, <1>5 DEF Inv, TypeOK, Control, waits, At

\* The connection breaks.
LEMMA BreakInv ==
    ASSUME Inv, Break
    PROVE  Inv'
<1>1. bounds' \in Counts
    <2>1. bounds \in Counts /\ bounds.breaks < MaxBreaks /\ bounds' = [bounds EXCEPT !.breaks = @ + 1]
        BY DEF Inv, TypeOK, Break
    <2>2. bounds.breaks + 1 \in 0..MaxBreaks
        BY <2>1, SizeAssumption DEF Counts
    <2>3. \A x \in 0..MaxBreaks : [bounds EXCEPT !.breaks = x] \in Counts
        BY <2>1 DEF Counts
    <2> QED
        BY <2>1, <2>2, <2>3
<1>2. << >> \in Seq(Packets) /\ << >> \in Seq(Answers)
    OBVIOUS
<1>3. toServer' \in Seq(Packets) /\ toClient' \in Seq(Answers)
    BY <1>2 DEF Inv, TypeOK, Break
<1>4. link' \in {"up", "broken", "closed"} /\ UNCHANGED <<table, thread, app, read, waits, list, histories>>
    BY DEF Break
<1> QED
    BY <1>1, <1>3, <1>4 DEF Inv, TypeOK, Control, waits, histories, At

\* The connection thread goes to another place, or back to recv().
LEMMA ThreadMoves ==
    ASSUME TypeOK
    PROVE  /\ [pc |-> "recv", packet |-> NoPacket, base |-> 0] \in ThreadStates
           /\ \A pc \in {"recv", "notify", "copy", "count", "advance", "release", "dead"} :
                 /\ [thread EXCEPT !.pc = pc] \in ThreadStates
                 /\ [thread EXCEPT !.pc = pc].pc = pc
                 /\ [thread EXCEPT !.pc = pc].packet = thread.packet
                 /\ [thread EXCEPT !.pc = pc].base = thread.base
<1>1. thread \in ThreadStates /\ MaxEntries \in Nat
    BY SizeAssumption DEF TypeOK
<1> QED
    BY <1>1 DEF ThreadStates

\* A packet is taken from the connection.
LEMMA ReceiveTypes ==
    ASSUME TypeOK, NEW type, Receive(type)
    PROVE  /\ At("recv") /\ toClient # << >>
           /\ Head(toClient) \in Answers /\ Head(toClient).type = type
           /\ toClient' = Tail(toClient) /\ toClient' \in Seq(Answers)
           /\ UNCHANGED <<table, link, toServer, app, bounds>>
    BY HeadAndTail DEF TypeOK, Receive

\* The connection thread ends a connection or opens one.
LEMMA ReconnectInv ==
    ASSUME Inv, Reconnect
    PROVE  Inv'
<1>1. /\ link' \in {"up", "broken", "closed"}
      /\ UNCHANGED <<table, toServer, toClient, thread, app, read, waits, list, bounds, histories>>
    BY DEF Reconnect
<1> QED
    BY <1>1 DEF Inv, TypeOK, Control, waits, histories, At

\* What storing an answer changes.
LEMMA ReadStored ==
    ASSUME read \in ReadStates, NEW p, <<p.id, p.value>> \in ReadData
    PROVE  /\ StoreRead(p) \in ReadStates
           /\ StoreRead(p).wait = FALSE /\ StoreRead(p).id = read.id
           /\ p.value = 0 => StoreRead(p).size = 0
           /\ p.value # 0 => StoreRead(p).size = 1 /\ StoreRead(p).data = <<p.id, p.value>>
<1> DEFINE R(z, x) == [read EXCEPT !.wait = FALSE, !.size = z, !.data = x]
<1>1. PICK d \in ReadData : d = <<p.id, p.value>>
    OBVIOUS
<1>2. \A z \in 0..1, x \in ReadData :
          /\ R(z, x) \in ReadStates
          /\ R(z, x).wait = FALSE /\ R(z, x).id = read.id /\ R(z, x).size = z /\ R(z, x).data = x
    BY DEF ReadStates
<1>3. read.data \in ReadData /\ 0 \in 0..1 /\ 1 \in 0..1
    BY DEF ReadStates
<1>4. p.value = 0 => StoreRead(p) = R(0, read.data)
    BY DEF StoreRead
<1>5. p.value # 0 => StoreRead(p) = R(1, d)
    BY <1>1 DEF StoreRead
<1> HIDE DEF R
<1>6. CASE p.value = 0
    BY <1>2, <1>3, <1>4, <1>6
<1>7. CASE p.value # 0
    BY <1>1, <1>2, <1>3, <1>5, <1>7
<1> QED
    BY <1>6, <1>7

\* What a read copies.
ReadAnswer == IF read.size = 0 THEN << >> ELSE <<read.data>>

\* It is nothing, or one value.
LEMMA ReadAnswerType ==
    ASSUME Inv
    PROVE  ReadAnswer \in Seq(ReadData)
<1>1. read.data \in ReadData
    BY DEF Inv, TypeOK, ReadStates
<1> QED
    BY <1>1 DEF ReadAnswer

\* The answer to a read.
LEMMA ReceiveReadInv ==
    ASSUME Inv, ReceiveRead
    PROVE  Inv'
<1> DEFINE p == Head(toClient)
<1>1. /\ p \in Answers /\ p.type = "READ" /\ toClient' \in Seq(Answers)
      /\ UNCHANGED <<table, link, toServer, app, bounds>>
    BY ReceiveTypes DEF Inv, ReceiveRead
<1>2. /\ UNCHANGED <<thread, waits, list, moments, raced, kept>>
      /\ read' = IF AnswersRead(p) THEN StoreRead(p) ELSE read
      /\ clean' = (clean /\ ~(app.call = "read" /\ app.pc = "ask"))
    BY DEF ReceiveRead
<1>3. p.id \in Entries /\ p.value \in Values
    BY <1>1, AnswerTypes
<1>4. <<p.id, p.value>> \in ReadData
    BY <1>3 DEF ReadData, Pairs
<1>5. read' \in ReadStates
    <2>1. read \in ReadStates
        BY DEF Inv, TypeOK
    <2>2. StoreRead(p) \in ReadStates
        BY <1>4, <2>1, ReadStored
    <2> QED
        BY <1>2, <2>1, <2>2
<1>6. clean' \in BOOLEAN
    BY <1>2
<1> QED
    BY <1>1, <1>2, <1>5, <1>6 DEF Inv, TypeOK, Control, waits, At

\* A ticket is not looked at.
LEMMA ReceiveTicketInv ==
    ASSUME Inv, ReceiveTicket
    PROVE  Inv'
<1>1. /\ toClient' \in Seq(Answers)
      /\ UNCHANGED <<table, link, toServer, app, bounds>>
      /\ UNCHANGED <<thread, read, waits, list, histories>>
    BY ReceiveTypes DEF Inv, ReceiveTicket
<1> QED
    BY <1>1 DEF Inv, TypeOK, Control, waits, histories, At

\* An event is stored.
LEMMA StoreEventInv ==
    ASSUME Inv, StoreEvent
    PROVE  Inv'
<1> DEFINE p == Head(toClient)
<1>1. /\ p \in Answers /\ p.type = "EVENT" /\ toClient' \in Seq(Answers) /\ At("recv")
      /\ UNCHANGED <<table, link, toServer, app, bounds>>
    BY ReceiveTypes DEF Inv, StoreEvent
<1>2. /\ data' = [data EXCEPT ![p.id] = p.value]
      /\ queue' = p.id
      /\ thread' = [thread EXCEPT !.pc = "notify"]
      /\ kept' = [last |-> p.id, taken |-> FALSE, overtaken |-> app.pc = "take" /\ app.of # p.id]
      /\ UNCHANGED <<eventWait, read, list, clean, moments, raced>>
    BY DEF StoreEvent, Queued, Goto
<1>3. p.id \in Synced /\ p.value \in Values
    BY <1>1, AnswerTypes
<1>4. thread' \in ThreadStates /\ thread'.pc = "notify"
    BY <1>2, ThreadMoves DEF Inv
<1>5. data' \in [Synced -> Values] /\ queue' \in Synced \cup {0}
    BY <1>2, <1>3 DEF Inv, TypeOK
<1>6. kept' \in KeptStates
    <2>1. \A e \in Synced, b \in BOOLEAN : [last |-> e, taken |-> FALSE, overtaken |-> b] \in KeptStates
        BY DEF KeptStates
    <2>2. (app.pc = "take" /\ app.of # p.id) \in BOOLEAN
        OBVIOUS
    <2> QED
        BY <1>2, <1>3, <2>1, <2>2, Zenon
<1>7. TypeOK'
    BY <1>1, <1>2, <1>4, <1>5, <1>6 DEF Inv, TypeOK, At
<1>8. Control'
    BY <1>1, <1>2, <1>4 DEF Inv, Control, At
<1> QED
    BY <1>7, <1>8 DEF Inv

\* The application is notified.
LEMMA NotifyInv ==
    ASSUME Inv, Notify
    PROVE  Inv'
<1>1. /\ eventWait' = FALSE /\ thread' = [pc |-> "recv", packet |-> NoPacket, base |-> 0]
      /\ UNCHANGED <<table, network, app, read, queue, data, list, bounds, histories>>
    BY DEF Notify, Back
<1>2. thread' \in ThreadStates /\ thread'.pc = "recv"
    BY <1>1, ThreadMoves DEF Inv
<1> QED
    BY <1>1, <1>2 DEF Inv, TypeOK, Control, network, histories, At

\* A page is taken or dropped.
LEMMA ReceivePageInv ==
    ASSUME Inv, ReceivePage
    PROVE  Inv'
<1> DEFINE p == Head(toClient)
<1>1. /\ p \in Answers /\ p.type = "LIST" /\ toClient' \in Seq(Answers) /\ At("recv")
      /\ UNCHANGED <<table, link, toServer, app, bounds>>
    BY ReceiveTypes DEF Inv, ReceivePage
<1>2. /\ \/ thread' = [thread EXCEPT !.pc = "copy", !.packet = p]
         \/ UNCHANGED thread
      /\ UNCHANGED <<read, waits, list, histories>>
    BY DEF ReceivePage
<1>3. p \in ListPages
    BY <1>1, AnswerTypes
<1>4. CASE thread' = [thread EXCEPT !.pc = "copy", !.packet = p]
    <2>1. thread \in ThreadStates
        BY DEF Inv, TypeOK
    <2>2. thread' \in ThreadStates /\ thread'.packet = p /\ thread'.pc = "copy"
        BY <1>3, <1>4, <2>1 DEF ThreadStates
    <2>3. TypeOK'
        BY <1>1, <1>2, <1>3, <2>2 DEF Inv, TypeOK, At, waits, histories
    <2>4. Control'
        BY <1>1, <1>2, <2>2 DEF Inv, Control, At
    <2> QED
        BY <2>3, <2>4 DEF Inv
<1>5. CASE UNCHANGED thread
    BY <1>1, <1>2, <1>5 DEF Inv, TypeOK, Control, waits, histories, At
<1> QED
    BY <1>2, <1>4, <1>5

\* The packet of a thread that is at a page.
LEMMA PageAt ==
    ASSUME TypeOK, ~At("recv"), ~At("notify")
    PROVE  /\ thread.packet \in ListPages /\ thread.packet.kind \in Kinds
           /\ thread.packet.page \in Nat /\ thread.packet.end \in BOOLEAN
           /\ thread.packet.items \in Seq(Pairs) /\ Len(thread.packet.items) \in Nat
           /\ thread.base \in 0..MaxEntries /\ MaxEntries \in Nat
<1>1. thread.packet \in ListPages /\ thread \in ThreadStates
    BY DEF TypeOK
<1> QED
    BY <1>1, PageFields, SizeAssumption DEF ThreadStates

\* The lists of the client.
LEMMA ListFields ==
    ASSUME TypeOK, NEW k \in Kinds
    PROVE  /\ list[k] \in Lists
           /\ list[k].info \in {Null} \cup [Entries -> Pairs]
           /\ list[k].sequence \in 0..Modulus - 1
           /\ list[k].recv \in 0..MaxEntries /\ list[k].page \in Nat
           /\ list[k].wait \in BOOLEAN
<1>1. list[k] \in Lists
    BY DEF TypeOK
<1> QED
    BY <1>1 DEF Lists

\* The items of a page are copied behind those that are counted.
Copied(l, items) ==
    [i \in Entries |-> IF i \in l.recv + 1..l.recv + Len(items) THEN items[i - l.recv] ELSE l.info[i]]

\* What is copied are entries.
LEMMA CopiedType ==
    ASSUME NEW l \in Lists, l.info # Null, NEW items \in Seq(Pairs)
    PROVE  Copied(l, items) \in [Entries -> Pairs]
<1>1. l.info \in [Entries -> Pairs] /\ l.recv \in Nat /\ Len(items) \in Nat
    BY SizeAssumption DEF Lists
<1>2. ASSUME NEW i \in Entries, i \in l.recv + 1..l.recv + Len(items)
      PROVE  items[i - l.recv] \in Pairs
    <2>1. i - l.recv \in 1..Len(items)
        BY <1>1, <1>2
    <2> QED
        BY <2>1
<1>3. \A i \in Entries : l.info[i] \in Pairs
    BY <1>1
<1> QED
    BY <1>2, <1>3 DEF Copied

\* A page is copied.
LEMMA CopyPageInv ==
    ASSUME Inv, CopyPage
    PROVE  Inv'
<1> DEFINE p == thread.packet
           l == list[p.kind]
<1>1. At("copy") /\ UNCHANGED <<table, network, app, read, waits, bounds, histories>>
    BY DEF CopyPage
<1>2. /\ p \in ListPages /\ p.kind \in Kinds /\ p.items \in Seq(Pairs) /\ Len(p.items) \in Nat
      /\ MaxEntries \in Nat
    BY <1>1, PageAt DEF Inv, At
<1>3. l \in Lists /\ l.recv \in 0..MaxEntries
    BY <1>2, ListFields DEF Inv
<1>4. CASE l.info = Null \/ l.recv + Len(p.items) > MaxEntries
    <2>1. thread' = [thread EXCEPT !.pc = "dead"] /\ UNCHANGED list
        BY <1>4 DEF CopyPage, Goto
    <2>2. thread' \in ThreadStates /\ thread'.pc = "dead" /\ thread'.packet = p
        BY <2>1, ThreadMoves DEF Inv
    <2>3. TypeOK'
        BY <1>1, <1>2, <2>1, <2>2 DEF Inv, TypeOK, network, waits, histories, At
    <2>4. Control'
        BY <1>1, <2>1, <2>2 DEF Inv, Control, At
    <2> QED
        BY <2>3, <2>4 DEF Inv
<1>5. CASE ~(l.info = Null \/ l.recv + Len(p.items) > MaxEntries)
    <2>1. /\ list' = [list EXCEPT ![p.kind].info = Copied(l, p.items)]
          /\ thread' = [thread EXCEPT !.pc = "count", !.base = l.recv]
        BY <1>5 DEF CopyPage, Copied
    <2>2. Copied(l, p.items) \in [Entries -> Pairs]
        BY <1>2, <1>3, <1>5, CopiedType
    <2>3. /\ list' \in [Kinds -> Lists]
          /\ \A k \in Kinds : list'[k].recv = list[k].recv /\ (k # p.kind => list'[k].info = list[k].info)
          /\ list'[p.kind].info = Copied(l, p.items)
        <3>1. list \in [Kinds -> Lists]
            BY DEF Inv, TypeOK
        <3>2. PICK info : info = Copied(l, p.items)
            OBVIOUS
        <3>3. info \in [Entries -> Pairs]
            BY <2>2, <3>2
        <3>4. PICK k : k = p.kind
            OBVIOUS
        <3>5. list' = [list EXCEPT ![k].info = info] /\ k \in Kinds
            BY <1>2, <2>1, <3>2, <3>4
        <3>6. list' \in [Kinds -> Lists]
            BY <3>1, <3>3, <3>5 DEF Lists
        <3>7. /\ \A m \in Kinds : list'[m].recv = list[m].recv /\ (m # k => list'[m].info = list[m].info)
              /\ list'[k].info = info
            BY <3>1, <3>5 DEF Lists
        <3> QED
            BY <3>2, <3>4, <3>6, <3>7
    <2>4. thread' \in ThreadStates /\ thread'.pc = "count" /\ thread'.packet = p /\ thread'.base = l.recv
        <3>1. thread \in ThreadStates
            BY DEF Inv, TypeOK
        <3> QED
            BY <1>3, <2>1, <3>1 DEF ThreadStates
    <2>5. l.recv + Len(p.items) <= MaxEntries
        BY <1>2, <1>3, <1>5
    <2>6. TypeOK'
        BY <1>1, <1>2, <2>3, <2>4 DEF Inv, TypeOK, network, waits, histories, At
    <2>7. app.call = "list" /\ app.pc # "done" => list'[app.kind].info # Null
        <3>1. CASE app.kind = p.kind
            <4>1. Entries # {} => Copied(l, p.items) # Null
                BY <2>2 DEF Null
            <4>2. Entries # {}
                <5>1. 1 \in Entries
                    BY SizeAssumption DEF Entries
                <5> QED
                    BY <5>1
            <4> QED
                BY <2>3, <3>1, <4>1, <4>2
        <3>2. CASE app.kind # p.kind
            BY <2>3, <3>2 DEF Inv, Control
        <3> QED
            BY <3>1, <3>2
    <2>8. Control'
        BY <1>1, <1>2, <2>3, <2>4, <2>5, <2>7 DEF Inv, Control, At
    <2> QED
        BY <2>6, <2>8 DEF Inv
<1> QED
    BY <1>4, <1>5

\* The items are counted.
LEMMA CountPageInv ==
    ASSUME Inv, CountPage
    PROVE  Inv'
<1>1. /\ At("count") /\ thread' = [thread EXCEPT !.pc = "advance"]
      /\ UNCHANGED <<table, network, app, read, waits, bounds, histories>>
    BY DEF CountPage, Goto
<1>2. /\ thread.packet \in ListPages /\ thread.packet.kind \in Kinds /\ Len(thread.packet.items) \in Nat
      /\ thread.base \in 0..MaxEntries /\ MaxEntries \in Nat
    BY <1>1, PageAt DEF Inv, At
<1>3. PICK recv \in {list[thread.packet.kind].recv, thread.base} :
          list' = [list EXCEPT ![thread.packet.kind].recv = recv + Len(thread.packet.items)]
    BY DEF CountPage
<1>4. list[thread.packet.kind].recv \in 0..MaxEntries
    BY <1>2, ListFields DEF Inv
<1>5. recv + Len(thread.packet.items) \in 0..MaxEntries
    BY <1>1, <1>2, <1>3, <1>4, SMTT(30) DEF Inv, Control
<1>6. list' \in [Kinds -> Lists] /\ \A k \in Kinds : list'[k].info = list[k].info
    <2>1. list \in [Kinds -> Lists]
        BY DEF Inv, TypeOK
    <2>2. PICK k, x : k = thread.packet.kind /\ x = recv + Len(thread.packet.items)
        OBVIOUS
    <2>3. k \in Kinds /\ x \in 0..MaxEntries /\ list' = [list EXCEPT ![k].recv = x]
        BY <1>2, <1>3, <1>5, <2>2
    <2> QED
        BY <2>1, <2>3 DEF Lists
<1>7. thread' \in ThreadStates /\ thread'.pc = "advance" /\ thread'.packet = thread.packet
    BY <1>1, ThreadMoves DEF Inv
<1>8. TypeOK'
    BY <1>1, <1>2, <1>6, <1>7 DEF Inv, TypeOK, network, waits, histories, At
<1>9. Control'
    BY <1>1, <1>6, <1>7 DEF Inv, Control, At
<1> QED
    BY <1>8, <1>9 DEF Inv

\* The next page is awaited.
LEMMA AdvancePageInv ==
    ASSUME Inv, AdvancePage
    PROVE  Inv'
<1>1. /\ At("advance")
      /\ \/ thread' = [thread EXCEPT !.pc = "release"]
         \/ thread' = [pc |-> "recv", packet |-> NoPacket, base |-> 0]
      /\ UNCHANGED <<table, network, app, read, waits, bounds, histories>>
    BY DEF AdvancePage, Goto, Back
<1>2. thread.packet \in ListPages /\ thread.packet.kind \in Kinds /\ thread.packet.page \in Nat
    BY <1>1, PageAt DEF Inv, At
<1>3. PICK page \in {list[thread.packet.kind].page, thread.packet.page} :
          list' = [list EXCEPT ![thread.packet.kind].page = page + 1]
    BY DEF AdvancePage
<1>4. page + 1 \in Nat
    <2>1. list[thread.packet.kind].page \in Nat
        BY <1>2, ListFields DEF Inv
    <2> QED
        BY <1>2, <1>3, <2>1
<1>5. list' \in [Kinds -> Lists] /\ \A k \in Kinds : list'[k].info = list[k].info
    <2>1. list \in [Kinds -> Lists]
        BY DEF Inv, TypeOK
    <2>2. PICK k, x : k = thread.packet.kind /\ x = page + 1
        OBVIOUS
    <2>3. k \in Kinds /\ x \in Nat /\ list' = [list EXCEPT ![k].page = x]
        BY <1>2, <1>3, <1>4, <2>2
    <2> QED
        BY <2>1, <2>3 DEF Lists
<1>6. /\ thread' \in ThreadStates
      /\ \/ thread'.pc = "recv"
         \/ thread'.pc = "release" /\ thread'.packet = thread.packet
    <2>1. CASE thread' = [thread EXCEPT !.pc = "release"]
        BY <2>1, ThreadMoves DEF Inv
    <2>2. CASE thread' = [pc |-> "recv", packet |-> NoPacket, base |-> 0]
        BY <2>2, ThreadMoves DEF Inv
    <2> QED
        BY <1>1, <2>1, <2>2
<1>7. TypeOK'
    BY <1>1, <1>2, <1>5, <1>6 DEF Inv, TypeOK, network, waits, histories, At
<1>8. Control'
    BY <1>1, <1>5, <1>6 DEF Inv, Control, At
<1> QED
    BY <1>7, <1>8 DEF Inv

\* The application's wait for the list is over.
LEMMA ReleaseListInv ==
    ASSUME Inv, ReleaseList
    PROVE  Inv'
<1>1. /\ At("release") /\ thread' = [pc |-> "recv", packet |-> NoPacket, base |-> 0]
      /\ list' = [list EXCEPT ![thread.packet.kind].wait = FALSE]
      /\ UNCHANGED <<table, network, app, read, waits, bounds, histories>>
    BY DEF ReleaseList, Back
<1>2. thread.packet.kind \in Kinds
    BY <1>1, PageAt DEF Inv, At
<1>3. list' \in [Kinds -> Lists] /\ \A k \in Kinds : list'[k].info = list[k].info
    <2>1. list \in [Kinds -> Lists]
        BY DEF Inv, TypeOK
    <2> QED
        BY <1>1, <1>2, <2>1 DEF Lists
<1>4. thread' \in ThreadStates /\ thread'.pc = "recv"
    BY <1>1, ThreadMoves DEF Inv
<1>5. TypeOK'
    BY <1>1, <1>3, <1>4 DEF Inv, TypeOK, network, waits, histories, At
<1>6. Control'
    BY <1>1, <1>3, <1>4 DEF Inv, Control, At
<1> QED
    BY <1>5, <1>6 DEF Inv

-----------------------------------------------------------------------------
(* The steps of the application keep the types.                              *)

CallNames == {"none", "read", "wait", "list", "free", "ticket"}
Places == {"done", "ask", "wait", "recv", "page", "take", "reset"}

\* A call begins.
LEMMA BeginTypes ==
    ASSUME Inv, NEW call \in CallNames, NEW of \in Entries \cup {0}, NEW kind \in Kinds \cup {"none"},
           NEW pc \in Places, Begin(call, of, kind, pc)
    PROVE  /\ app.pc = "done" /\ app' \in AppStates /\ bounds' \in Counts
           /\ app'.call = call /\ app'.of = of /\ app'.kind = kind /\ app'.pc = pc
           /\ app'.program = app.program /\ app'.ok = FALSE /\ app'.answer = << >>
           /\ moments' = {table} /\ moments' \subseteq Tables
           /\ UNCHANGED <<table, thread>>
<1>1. app \in AppStates /\ bounds \in Counts /\ table \in Tables
    BY DEF Inv, TypeOK
<1>2. /\ app.pc = "done" /\ bounds.calls < MaxCalls
      /\ bounds' = [bounds EXCEPT !.calls = @ + 1]
      /\ app' = [app EXCEPT !.call = call, !.pc = pc, !.of = of, !.kind = kind,
                            !.ok = FALSE, !.answer = << >>]
      /\ moments' = {table}
      /\ UNCHANGED <<table, thread>>
    BY DEF Begin
<1>3. << >> \in Seq(ReadData)
    OBVIOUS
<1>4. /\ app' \in AppStates
      /\ app'.call = call /\ app'.of = of /\ app'.kind = kind /\ app'.pc = pc
      /\ app'.program = app.program /\ app'.ok = FALSE /\ app'.answer = << >>
    BY <1>1, <1>2, <1>3 DEF AppStates, CallNames, Places
<1>5. bounds' \in Counts
    <2>1. bounds.calls + 1 \in 0..MaxCalls
        BY <1>1, <1>2, SizeAssumption DEF Counts
    <2>2. \A x \in 0..MaxCalls : [bounds EXCEPT !.calls = x] \in Counts
        BY <1>1 DEF Counts
    <2> QED
        BY <1>2, <2>1, <2>2
<1> QED
    BY <1>1, <1>2, <1>4, <1>5

\* The application goes to another place of its call.
LEMMA AppMoves ==
    ASSUME Inv
    PROVE  /\ \A pc \in Places :
                 LET a == [app EXCEPT !.pc = pc]
                 IN  /\ a \in AppStates /\ a.pc = pc
                     /\ a.call = app.call /\ a.of = app.of /\ a.kind = app.kind
                     /\ a.program = app.program /\ a.ok = app.ok /\ a.answer = app.answer
           /\ \A answer \in Seq(ReadData) :
                 LET a == [app EXCEPT !.pc = "done", !.ok = TRUE, !.answer = answer]
                 IN  /\ a \in AppStates /\ a.pc = "done"
                     /\ a.call = app.call /\ a.of = app.of /\ a.kind = app.kind
                     /\ a.program = app.program /\ a.ok = TRUE /\ a.answer = answer
<1>1. app \in AppStates
    BY DEF Inv, TypeOK
<1> QED
    BY <1>1 DEF AppStates, Places

\* The fields of the application.
LEMMA AppFields ==
    ASSUME Inv
    PROVE  /\ app.call \in CallNames /\ app.pc \in Places /\ app.of \in Entries \cup {0}
           /\ app.kind \in Kinds \cup {"none"} /\ app.ok \in BOOLEAN /\ app.answer \in Seq(ReadData)
<1>1. app \in AppStates
    BY DEF Inv, TypeOK
<1> QED
    BY <1>1 DEF AppStates, CallNames, Places

\* A request is sent, or lost with the connection.
LEMMA SendTypes ==
    ASSUME Inv, NEW p \in Packets, Send(p)
    PROVE  toServer' \in Seq(Packets) /\ UNCHANGED <<link, toClient>>
<1>1. toServer \in Seq(Packets)
    BY DEF Inv, TypeOK
<1> QED
    BY <1>1 DEF Send

\* A call times out.
LEMMA TimeOutInv ==
    ASSUME Inv, TimeOut
    PROVE  Inv'
<1>1. /\ app' = [app EXCEPT !.pc = "done"]
      /\ UNCHANGED <<table, network, thread, read, waits, list, bounds, histories>>
    BY DEF TimeOut, Fail
<1>2. /\ app' \in AppStates /\ app'.pc = "done"
      /\ app'.call = app.call /\ app'.of = app.of /\ app'.kind = app.kind
    BY <1>1, AppMoves DEF Places
<1>3. TypeOK'
    BY <1>1, <1>2 DEF Inv, TypeOK, network, waits, histories, At
<1>4. Control'
    BY <1>1, <1>2 DEF Inv, Control, At
<1> QED
    BY <1>3, <1>4 DEF Inv

\* A read begins.
LEMMA ReadInv ==
    ASSUME Inv, NEW e \in Entries, Read(e)
    PROVE  Inv'
<1>1. /\ Begin("read", e, "none", IF link = "closed" THEN "done" ELSE "ask")
      /\ read' = IF link = "closed" THEN read ELSE [read EXCEPT !.wait = TRUE]
      /\ clean' = (\A p \in Outstanding : p.type = "READ" => p.id # e)
      /\ UNCHANGED <<network, waits, list, raced, kept>>
    BY DEF Read
<1>2. PICK pc : pc = IF link = "closed" THEN "done" ELSE "ask"
    OBVIOUS
<1>3. pc \in Places /\ pc \in {"done", "ask"}
    BY <1>2 DEF Places
<1>4. /\ app' \in AppStates /\ bounds' \in Counts /\ moments' \subseteq Tables
      /\ app'.call = "read" /\ app'.of = e /\ app'.pc = pc
      /\ UNCHANGED <<table, thread>>
    BY <1>1, <1>2, <1>3, BeginTypes DEF CallNames
<1>5. read' \in ReadStates
    <2>1. read \in ReadStates
        BY DEF Inv, TypeOK
    <2> QED
        BY <1>1, <2>1 DEF ReadStates
<1>6. clean' \in BOOLEAN
    BY <1>1
<1>7. TypeOK'
    BY <1>1, <1>4, <1>5, <1>6 DEF Inv, TypeOK, network, waits, At
<1>8. Control'
    BY <1>1, <1>3, <1>4 DEF Inv, Control, At
<1> QED
    BY <1>7, <1>8 DEF Inv

\* A read is asked for.
LEMMA ReadAskInv ==
    ASSUME Inv, ReadAsk
    PROVE  Inv'
<1>1. /\ app.call = "read" /\ read' = [read EXCEPT !.id = app.of]
      /\ Send([type |-> "READ", id |-> app.of])
      /\ app' = [app EXCEPT !.pc = "wait"]
      /\ UNCHANGED <<table, thread, waits, list, bounds, histories>>
    BY DEF ReadAsk, Step
<1>2. app.of \in Entries
    BY <1>1 DEF Inv, Control
<1>3. toServer' \in Seq(Packets) /\ UNCHANGED <<link, toClient>>
    <2>1. [type |-> "READ", id |-> app.of] \in Packets
        BY <1>2 DEF Packets
    <2> QED
        BY <1>1, <2>1, SendTypes
<1>4. read' \in ReadStates
    <2>1. read \in ReadStates
        BY DEF Inv, TypeOK
    <2> QED
        BY <1>1, <1>2, <2>1 DEF ReadStates
<1>5. /\ app' \in AppStates /\ app'.pc = "wait"
      /\ app'.call = app.call /\ app'.of = app.of /\ app'.kind = app.kind
    BY <1>1, AppMoves DEF Places
<1>6. TypeOK'
    BY <1>1, <1>3, <1>4, <1>5 DEF Inv, TypeOK, waits, histories, At
<1>7. Control'
    BY <1>1, <1>5 DEF Inv, Control, At
<1> QED
    BY <1>6, <1>7 DEF Inv

\* A read returns.
LEMMA ReadReturnInv ==
    ASSUME Inv, ReadReturn
    PROVE  Inv'
<1>1. /\ app' = [app EXCEPT !.pc = "done", !.ok = TRUE, !.answer = ReadAnswer]
      /\ UNCHANGED <<table, network, thread, read, waits, list, bounds, histories>>
    BY DEF ReadReturn, Return, ReadAnswer
<1>2. ReadAnswer \in Seq(ReadData)
    BY ReadAnswerType
<1>3. /\ app' \in AppStates /\ app'.pc = "done"
      /\ app'.call = app.call /\ app'.of = app.of /\ app'.kind = app.kind
    BY <1>1, <1>2, AppMoves
<1>4. TypeOK'
    BY <1>1, <1>3 DEF Inv, TypeOK, network, waits, histories, At
<1>5. Control'
    BY <1>1, <1>3 DEF Inv, Control, At
<1> QED
    BY <1>4, <1>5 DEF Inv

\* A ticket is asked for.
LEMMA ChannelRequestInv ==
    ASSUME Inv, ChannelRequest
    PROVE  Inv'
<1>1. /\ Begin("ticket", 0, "none", "done")
      /\ UNCHANGED <<read, waits, list, clean, raced, kept>>
    BY DEF ChannelRequest
<1>2. toServer' \in Seq(Packets) /\ UNCHANGED <<link, toClient>>
    <2>1. CASE link = "closed"
        BY <2>1 DEF ChannelRequest, network, Inv, TypeOK
    <2>2. CASE link # "closed"
        <3>1. [type |-> "TICKET"] \in Packets /\ Send([type |-> "TICKET"])
            BY <2>2 DEF Packets, ChannelRequest
        <3> QED
            BY <3>1, SendTypes
    <2> QED
        BY <2>1, <2>2
<1>3. /\ app' \in AppStates /\ bounds' \in Counts /\ moments' \subseteq Tables
      /\ app'.call = "ticket" /\ app'.pc = "done"
      /\ UNCHANGED <<table, thread>>
    BY <1>1, BeginTypes DEF CallNames, Places
<1>4. TypeOK'
    BY <1>1, <1>2, <1>3 DEF Inv, TypeOK, waits, At
<1>5. Control'
    BY <1>1, <1>3 DEF Inv, Control, At
<1> QED
    BY <1>4, <1>5 DEF Inv

\* A wait for an event begins.
LEMMA WaitEventInv ==
    ASSUME Inv, WaitEvent
    PROVE  Inv'
<1>1. /\ Begin("wait", queue, "none", IF queue = 0 THEN "wait" ELSE "take")
      /\ UNCHANGED <<network, read, waits, list, clean, raced, kept>>
    BY DEF WaitEvent
<1>2. PICK pc : pc = IF queue = 0 THEN "wait" ELSE "take"
    OBVIOUS
<1>3. pc \in Places /\ pc \in {"wait", "take"} /\ (pc = "take" => queue # 0)
    BY <1>2 DEF Places
<1>4. queue \in Synced \cup {0} /\ queue \in Entries \cup {0}
    BY CallAssumption DEF Inv, TypeOK
<1>5. /\ app' \in AppStates /\ bounds' \in Counts /\ moments' \subseteq Tables
      /\ app'.call = "wait" /\ app'.pc = pc /\ app'.of = queue
      /\ UNCHANGED <<table, thread>>
    BY <1>1, <1>2, <1>3, <1>4, BeginTypes DEF CallNames
<1>6. TypeOK'
    BY <1>1, <1>5 DEF Inv, TypeOK, network, waits, At
<1>7. Control'
    BY <1>1, <1>3, <1>4, <1>5 DEF Inv, Control, At
<1> QED
    BY <1>6, <1>7 DEF Inv

\* A wait for an event ends.
LEMMA WaitReturnInv ==
    ASSUME Inv, WaitReturn
    PROVE  Inv'
<1>1. /\ app.call = "wait"
      /\ UNCHANGED <<table, network, thread, read, waits, list, bounds, histories>>
      /\ queue \in Synced \cup {0} /\ queue \in Entries \cup {0}
    BY CallAssumption DEF WaitReturn, Inv, TypeOK
<1>2. /\ app' \in AppStates
      /\ app'.call = "wait"
      /\ \/ app'.pc = "done"
         \/ app'.pc = "take" /\ app'.of \in Synced
    <2>1. CASE queue = 0
        <3>1. app' = [app EXCEPT !.pc = "done"] /\ "done" \in Places
            BY <2>1 DEF WaitReturn, Fail, Places
        <3> QED
            BY <1>1, <3>1, AppMoves
    <2>2. CASE queue # 0
        <3>1. app' = [app EXCEPT !.pc = "take", !.of = queue] /\ app \in AppStates
            BY <2>2 DEF WaitReturn, Inv, TypeOK
        <3> QED
            BY <1>1, <2>2, <3>1 DEF AppStates
    <2> QED
        BY <2>1, <2>2
<1>3. TypeOK'
    BY <1>1, <1>2 DEF Inv, TypeOK, network, waits, histories, At
<1>4. Control'
    BY <1>1, <1>2 DEF Inv, Control, At
<1> QED
    BY <1>3, <1>4 DEF Inv

\* An event is taken.
LEMMA TakeEventInv ==
    ASSUME Inv, TakeEvent
    PROVE  Inv'
<1>1. /\ app.call = "wait" /\ app.pc = "take" /\ app.of \in Synced
      /\ app' = [app EXCEPT !.pc = "reset", !.answer = <<<<app.of, data[app.of]>>>>]
      /\ queue' = 0
      /\ kept' = [kept EXCEPT !.taken = @ \/ app.of = kept.last]
      /\ UNCHANGED <<table, network, thread, read, eventWait, data, list, bounds, clean, moments, raced>>
    BY DEF TakeEvent, Inv, Control
<1>2. <<<<app.of, data[app.of]>>>> \in Seq(ReadData)
    <2>1. <<app.of, data[app.of]>> \in ReadData
        BY <1>1, CallAssumption DEF Inv, TypeOK, ReadData, Pairs
    <2> QED
        BY <2>1
<1>3. app' \in AppStates /\ app'.pc = "reset" /\ app'.call = "wait" /\ app'.of = app.of
    <2>1. app \in AppStates
        BY DEF Inv, TypeOK
    <2> QED
        BY <1>1, <1>2, <2>1 DEF AppStates
<1>4. kept' \in KeptStates
    <2>1. kept \in KeptStates
        BY DEF Inv, TypeOK
    <2>2. \A b \in BOOLEAN : [kept EXCEPT !.taken = b] \in KeptStates
        BY <2>1 DEF KeptStates
    <2>3. (kept.taken \/ app.of = kept.last) \in BOOLEAN
        OBVIOUS
    <2> QED
        BY <1>1, <2>2, <2>3, Zenon
<1>5. TypeOK'
    BY <1>1, <1>3, <1>4 DEF Inv, TypeOK, network, At
<1>6. Control'
    BY <1>1, <1>3 DEF Inv, Control, At
<1> QED
    BY <1>5, <1>6 DEF Inv

\* The next wait for an event will wait.
LEMMA ResetWaitInv ==
    ASSUME Inv, ResetWait
    PROVE  Inv'
<1>1. /\ eventWait' = TRUE
      /\ app' = [app EXCEPT !.pc = "done", !.ok = TRUE, !.answer = app.answer]
      /\ UNCHANGED <<table, network, thread, read, queue, data, list, bounds, histories>>
    BY DEF ResetWait, Return
<1>2. /\ app' \in AppStates /\ app'.pc = "done"
      /\ app'.call = app.call /\ app'.of = app.of /\ app'.kind = app.kind
    BY <1>1, AppMoves, AppFields
<1>3. TypeOK'
    BY <1>1, <1>2 DEF Inv, TypeOK, network, histories, At
<1>4. Control'
    BY <1>1, <1>2 DEF Inv, Control, At
<1> QED
    BY <1>3, <1>4 DEF Inv

\* A list is asked for.
LEMMA RequestListInv ==
    ASSUME Inv, NEW k \in Kinds, RequestList(k)
    PROVE  Inv'
<1>1. PICK pc : pc = IF link = "closed" THEN "done" ELSE "recv"
    OBVIOUS
<1>2. PICK info : info = IF list[k].info = Null THEN [i \in Entries |-> <<i, 0>>] ELSE list[k].info
    OBVIOUS
<1>3. PICK sequence : sequence = IF link = "closed" THEN list[k].sequence ELSE NextSequence(k)
    OBVIOUS
<1>4. /\ Begin("list", 0, k, pc)
      /\ list' = [list EXCEPT ![k].info = info, ![k].sequence = sequence]
      /\ UNCHANGED <<network, read, waits, kept>>
    BY <1>1, <1>2, <1>3 DEF RequestList
<1>5. clean' \in BOOLEAN /\ raced' \subseteq Kinds
    BY DEF RequestList, Inv, TypeOK
<1>6. pc \in Places /\ pc \in {"done", "recv"}
    BY <1>1 DEF Places
<1>7. /\ app' \in AppStates /\ bounds' \in Counts /\ moments' \subseteq Tables
      /\ app'.call = "list" /\ app'.pc = pc /\ app'.of = 0 /\ app'.kind = k
      /\ UNCHANGED <<table, thread>>
    BY <1>4, <1>6, BeginTypes DEF CallNames
<1>8. info \in [Entries -> Pairs] /\ info # Null
    <2>1. 1 \in Entries /\ 0 \in Values
        BY SizeAssumption DEF Entries, Values
    <2>2. [i \in Entries |-> <<i, 0>>] \in [Entries -> Pairs]
        BY <2>1 DEF Pairs
    <2>3. list[k].info \in {Null} \cup [Entries -> Pairs]
        BY ListFields DEF Inv
    <2>4. info \in [Entries -> Pairs]
        BY <1>2, <2>2, <2>3
    <2> QED
        BY <2>1, <2>4 DEF Null
<1>9. sequence \in 0..Modulus - 1
    <2>1. list[k].sequence \in 0..Modulus - 1 /\ Modulus \in Nat \ {0}
        BY ListFields, SizeAssumption DEF Inv
    <2>2. (list[k].sequence + 1) % Modulus \in 0..Modulus - 1
        BY <2>1
    <2> QED
        BY <1>3, <2>1, <2>2 DEF NextSequence
<1>10. /\ list' \in [Kinds -> Lists] /\ list'[k].info = info /\ list'[k].sequence = sequence
       /\ \A m \in Kinds : /\ list'[m].recv = list[m].recv /\ list'[m].page = list[m].page
                           /\ list'[m].wait = list[m].wait
                           /\ m # k => list'[m] = list[m]
    <2>1. list \in [Kinds -> Lists]
        BY DEF Inv, TypeOK
    <2> QED
        BY <1>4, <1>8, <1>9, <2>1 DEF Lists
<1>11. TypeOK'
    BY <1>4, <1>5, <1>7, <1>10 DEF Inv, TypeOK, network, waits, At
<1>12. At("count") => thread.packet.kind \in Kinds
    BY PageAt DEF Inv, At
<1>13. Control'
    BY <1>6, <1>7, <1>8, <1>10, <1>12 DEF Inv, Control, At
<1> QED
    BY <1>11, <1>13 DEF Inv

\* A field of a list is set by a call that asks for the list.
LEMMA ListStepInv ==
    ASSUME Inv, app.call = "list", app.pc # "done", NEW pc \in Places, pc \notin {"take", "reset"},
           app' = [app EXCEPT !.pc = pc],
           list' \in [Kinds -> Lists],
           \A m \in Kinds : list'[m].info = list[m].info /\ list'[m].recv \in {0, list[m].recv},
           toServer' \in Seq(Packets),
           UNCHANGED <<table, link, toClient, thread, read, waits, bounds, histories>>
    PROVE  Inv'
<1>1. /\ app' \in AppStates /\ app'.pc = pc
      /\ app'.call = app.call /\ app'.of = app.of /\ app'.kind = app.kind
    BY AppMoves
<1>2. TypeOK'
    BY <1>1 DEF Inv, TypeOK, waits, histories, At
<1>3. app.kind \in Kinds /\ list[app.kind].info # Null
    BY DEF Inv, Control
<1>4. CASE At("count")
    <2>1. thread.packet.kind \in Kinds /\ Len(thread.packet.items) \in Nat /\ thread.base \in 0..MaxEntries
        BY <1>4, PageAt DEF Inv, At
    <2>2. /\ thread.base + Len(thread.packet.items) <= MaxEntries
          /\ list[thread.packet.kind].recv + Len(thread.packet.items) <= MaxEntries
        BY <1>4 DEF Inv, Control
    <2>3. 0 + Len(thread.packet.items) <= MaxEntries
        BY <2>1, <2>2, SizeAssumption
    <2>4. list'[thread.packet.kind].recv + Len(thread.packet.items) <= MaxEntries
        BY <2>1, <2>2, <2>3
    <2> QED
        BY <1>1, <1>2, <1>3, <2>2, <2>4 DEF Inv, Control, At
<1>5. CASE ~At("count")
    BY <1>1, <1>2, <1>3, <1>5 DEF Inv, Control, At
<1> QED
    BY <1>4, <1>5

\* The steps of a call that asks for a list.
LEMMA ResetRecvInv ==
    ASSUME Inv, ResetRecv
    PROVE  Inv'
<1>1. /\ app.call = "list" /\ app.pc = "recv" /\ app' = [app EXCEPT !.pc = "page"]
      /\ list' = [list EXCEPT ![app.kind].recv = 0]
      /\ UNCHANGED <<table, network, thread, read, waits, bounds, histories>>
    BY DEF ResetRecv, Step
<1>2. /\ list' \in [Kinds -> Lists]
      /\ \A m \in Kinds : list'[m].info = list[m].info /\ list'[m].recv \in {0, list[m].recv}
    <2>1. list \in [Kinds -> Lists] /\ app.kind \in Kinds /\ MaxEntries \in Nat
        BY <1>1, SizeAssumption DEF Inv, TypeOK, Control
    <2> QED
        BY <1>1, <2>1 DEF Lists
<1>3. toServer' \in Seq(Packets) /\ UNCHANGED <<table, link, toClient, thread, read, waits, bounds, histories>>
    BY <1>1 DEF network, Inv, TypeOK
<1> QED
    BY <1>1, <1>2, <1>3, ListStepInv DEF Places

\* The number of the next page is 0.
LEMMA ResetPageInv ==
    ASSUME Inv, ResetPage
    PROVE  Inv'
<1>1. /\ app.call = "list" /\ app.pc = "page" /\ app' = [app EXCEPT !.pc = "ask"]
      /\ list' = [list EXCEPT ![app.kind].page = 0]
      /\ UNCHANGED <<table, network, thread, read, waits, bounds, histories>>
    BY DEF ResetPage, Step
<1>2. /\ list' \in [Kinds -> Lists]
      /\ \A m \in Kinds : list'[m].info = list[m].info /\ list'[m].recv \in {0, list[m].recv}
    <2>1. list \in [Kinds -> Lists] /\ app.kind \in Kinds
        BY <1>1 DEF Inv, TypeOK, Control
    <2> QED
        BY <1>1, <2>1 DEF Lists
<1>3. toServer' \in Seq(Packets) /\ UNCHANGED <<table, link, toClient, thread, read, waits, bounds, histories>>
    BY <1>1 DEF network, Inv, TypeOK
<1> QED
    BY <1>1, <1>2, <1>3, ListStepInv DEF Places

\* The request is sent.
LEMMA ListAskInv ==
    ASSUME Inv, ListAsk
    PROVE  Inv'
<1>1. /\ app.call = "list" /\ app.pc = "ask" /\ app' = [app EXCEPT !.pc = "wait"]
      /\ list' = [list EXCEPT ![app.kind].wait = TRUE]
      /\ Send([type |-> "LIST", kind |-> app.kind, sequence |-> list[app.kind].sequence])
      /\ UNCHANGED <<table, thread, read, waits, bounds, histories>>
    BY DEF ListAsk, Step
<1>2. app.kind \in Kinds
    BY <1>1 DEF Inv, Control
<1>3. /\ list' \in [Kinds -> Lists]
      /\ \A m \in Kinds : list'[m].info = list[m].info /\ list'[m].recv \in {0, list[m].recv}
    <2>1. list \in [Kinds -> Lists]
        BY DEF Inv, TypeOK
    <2> QED
        BY <1>1, <1>2, <2>1 DEF Lists
<1>4. toServer' \in Seq(Packets) /\ UNCHANGED <<link, toClient>>
    <2>1. list[app.kind].sequence \in 0..Modulus - 1
        BY <1>2, ListFields DEF Inv
    <2>2. [type |-> "LIST", kind |-> app.kind, sequence |-> list[app.kind].sequence] \in Packets
        BY <1>2, <2>1 DEF Packets
    <2> QED
        BY <1>1, <2>2, SendTypes
<1>5. UNCHANGED <<table, link, toClient, thread, read, waits, bounds, histories>>
    BY <1>1, <1>4
<1> QED
    BY <1>1, <1>3, <1>4, <1>5, ListStepInv DEF Places

\* The list is returned.
LEMMA ListReturnInv ==
    ASSUME Inv, ListReturn
    PROVE  Inv'
<1> DEFINE l == list[app.kind]
<1>1. /\ app.call = "list" /\ app.pc = "wait"
      /\ app' = [app EXCEPT !.pc = "done", !.ok = TRUE, !.answer = SubSeq(l.info, 1, l.recv)]
      /\ UNCHANGED <<table, network, thread, read, waits, list, bounds, histories>>
    BY DEF ListReturn, Return
<1>2. app.kind \in Kinds /\ l.info # Null
    BY <1>1 DEF Inv, Control
<1>3. l.info \in [Entries -> Pairs] /\ l.recv \in 0..MaxEntries
    BY <1>2, ListFields DEF Inv
<1>4. SubSeq(l.info, 1, l.recv) \in Seq(ReadData)
    <2>1. l.info \in Seq(Pairs) /\ Len(l.info) = MaxEntries
        BY <1>3, SizeAssumption DEF Entries
    <2>2. 1 \in 1..Len(l.info) + 1 /\ l.recv \in 1 - 1..Len(l.info)
        BY <1>3, <2>1, SizeAssumption
    <2>3. SubSeq(l.info, 1, l.recv) \in Seq(Pairs)
        BY <2>1, <2>2, Part
    <2> QED
        BY <2>3 DEF ReadData
<1>5. /\ app' \in AppStates /\ app'.pc = "done"
      /\ app'.call = app.call /\ app'.of = app.of /\ app'.kind = app.kind
    BY <1>1, <1>4, AppMoves
<1>6. TypeOK'
    BY <1>1, <1>5 DEF Inv, TypeOK, network, waits, histories, At
<1>7. Control'
    BY <1>1, <1>5 DEF Inv, Control, At
<1> QED
    BY <1>6, <1>7 DEF Inv

\* A list is freed.
LEMMA FreeListInv ==
    ASSUME Inv, NEW k \in Kinds, FreeList(k)
    PROVE  Inv'
<1>1. /\ Begin("free", 0, k, "done")
      /\ list' = [list EXCEPT ![k].info = Null]
      /\ raced' = IF AtPageOf(k) THEN raced \cup {k} ELSE raced
      /\ UNCHANGED <<network, read, waits, clean, kept>>
    BY DEF FreeList
<1>2. /\ app' \in AppStates /\ bounds' \in Counts /\ moments' \subseteq Tables
      /\ app'.call = "free" /\ app'.pc = "done"
      /\ UNCHANGED <<table, thread>>
    BY <1>1, BeginTypes DEF CallNames, Places
<1>3. list' \in [Kinds -> Lists] /\ \A m \in Kinds : list'[m].recv = list[m].recv
    <2>1. list \in [Kinds -> Lists]
        BY DEF Inv, TypeOK
    <2> QED
        BY <1>1, <2>1 DEF Lists
<1>4. raced' \subseteq Kinds
    BY <1>1 DEF Inv, TypeOK
<1>5. TypeOK'
    BY <1>1, <1>2, <1>3, <1>4 DEF Inv, TypeOK, network, waits, At
<1>6. At("count") => thread.packet.kind \in Kinds
    BY PageAt DEF Inv, At
<1>7. Control'
    BY <1>2, <1>3, <1>6 DEF Inv, Control, At
<1> QED
    BY <1>5, <1>7 DEF Inv

-----------------------------------------------------------------------------

\* The initial states.
LEMMA InitInv == Init => Inv
<1> SUFFICES ASSUME Init PROVE Inv
    OBVIOUS
<1>1. /\ << >> \in Seq(Packets) /\ << >> \in Seq(Answers) /\ << >> \in Seq(ReadData)
    OBVIOUS
<1>2. 0 \in Values /\ 0 \in 0..MaxEntries /\ 0 \in 0..Modulus - 1 /\ 0 \in Nat
    BY SizeAssumption DEF Values
<1>3. table \in Tables /\ moments \subseteq Tables
    BY <1>2 DEF Init, Tables
<1>4. thread \in ThreadStates /\ At("recv")
    BY <1>2 DEF Init, ThreadStates, At
<1>5. app \in AppStates /\ app.call = "none" /\ app.pc = "done"
    BY <1>1 DEF Init, AppStates
<1>6. list \in [Kinds -> Lists]
    <2>1. [info |-> Null, sequence |-> 0, recv |-> 0, page |-> 0, wait |-> FALSE] \in Lists
        BY <1>2 DEF Lists
    <2> QED
        BY <2>1 DEF Init
<1>7. read \in ReadStates
    BY DEF Init, ReadStates, ReadData
<1>8. bounds \in Counts
    BY SizeAssumption DEF Init, Counts
<1>9. kept \in KeptStates
    BY DEF Init, KeptStates
<1>10. toServer \in Seq(Packets) /\ toClient \in Seq(Answers)
    BY <1>1 DEF Init
<1>11. TypeOK
    BY <1>2, <1>3, <1>4, <1>5, <1>6, <1>7, <1>8, <1>9, <1>10 DEF Init, TypeOK
<1>12. Control
    BY <1>4, <1>5 DEF Control, At
<1> QED
    BY <1>11, <1>12 DEF Inv

\* Every step keeps the invariant.
LEMMA NextInv == Inv /\ [Next]_vars => Inv'
<1> SUFFICES ASSUME Inv, [Next]_vars PROVE Inv'
    OBVIOUS
<1>1. CASE Thread
    BY <1>1, ReconnectInv, ReceiveReadInv, ReceiveTicketInv, StoreEventInv, NotifyInv, ReceivePageInv,
       CopyPageInv, CountPageInv, AdvancePageInv, ReleaseListInv DEF Thread
<1>2. CASE AppCalls
    BY <1>2, ReadInv, RequestListInv, FreeListInv, ChannelRequestInv, WaitEventInv DEF AppCalls
<1>3. CASE AppSteps
    BY <1>3, ReadAskInv, ReadReturnInv, ResetRecvInv, ResetPageInv, ListAskInv, ListReturnInv,
       WaitReturnInv, TakeEventInv, ResetWaitInv DEF AppSteps
<1>4. CASE TimeOut \/ ServerReads \/ Break
    BY <1>4, TimeOutInv, ServerReadsInv, BreakInv
<1>5. CASE \E k \in Kinds, e \in Entries, v \in Values : Change(k, e, v)
    BY <1>5, ChangeInv
<1>6. CASE UNCHANGED vars
    BY <1>6 DEF vars, Inv, TypeOK, Control, At
<1> QED
    BY <1>1, <1>2, <1>3, <1>4, <1>5, <1>6 DEF Next

(* All places in which an answer is left keep their types: a sequence number  *)
(* fits in its byte, an answer is one for an entry, and the counter of a list *)
(* never exceeds its buffer, whatever pages come and whenever the list is     *)
(* asked for again (client.c:545-593, client.c:913-1001).                     *)
THEOREM RequestsTypeCorrect == Spec => []TypeOK
<1>1. Inv => TypeOK
    BY DEF Inv
<1> QED
    BY InitInv, NextInv, <1>1, PTL DEF Spec

-----------------------------------------------------------------------------
(* Events.                                                                   *)

\* The event stored last is in the queue, unless it was taken or overtaken,
\* and whoever is about to take an event has seen that one.
EventKept == kept.taken \/ kept.overtaken \/ queue = kept.last
TakesLast == app.pc = "take" => kept.taken \/ kept.overtaken \/ app.of = kept.last

EventInv == EventKept /\ TakesLast

\* Steps that neither store nor take an event.
LEMMA OtherStepsEvent ==
    ASSUME EventInv, UNCHANGED <<queue, kept>>, UNCHANGED app \/ app'.pc # "take"
    PROVE  EventInv'
    BY DEF EventInv, EventKept, TakesLast

\* The thread stores an event.
LEMMA StoreEventKept ==
    ASSUME StoreEvent
    PROVE  EventInv'
<1>1. PICK e : e = Head(toClient).id
    OBVIOUS
<1>2. /\ queue' = e
      /\ kept' = [last |-> e, taken |-> FALSE, overtaken |-> app.pc = "take" /\ app.of # e]
      /\ UNCHANGED app
    BY <1>1 DEF StoreEvent, Queued, Receive
<1>3. kept'.last = e
    BY <1>2
<1>4. kept'.overtaken = (app.pc = "take" /\ app.of # e)
    BY <1>2
<1>5. EventKept'
    BY <1>2, <1>3 DEF EventKept
<1>6. TakesLast'
    BY <1>2, <1>3, <1>4 DEF TakesLast
<1> QED
    BY <1>5, <1>6 DEF EventInv

\* The application looks at the queue, and takes what it has seen.
LEMMA WaitEventKept ==
    ASSUME Inv, EventInv, WaitEvent \/ WaitReturn
    PROVE  EventInv'
<1>1. UNCHANGED <<queue, kept>>
    BY DEF WaitEvent, WaitReturn, waits, histories
<1>2. app'.pc = "take" => app'.of = queue
    <2>1. CASE WaitEvent
        <3>1. PICK pc : pc = IF queue = 0 THEN "wait" ELSE "take"
            OBVIOUS
        <3>2. pc \in Places /\ queue \in Entries \cup {0} /\ Begin("wait", queue, "none", pc)
            BY <2>1, <3>1, CallAssumption DEF Places, Inv, TypeOK, WaitEvent
        <3> QED
            BY <3>2, BeginTypes DEF CallNames
    <2>2. CASE WaitReturn
        <3>1. app \in AppStates
            BY DEF Inv, TypeOK
        <3>2. \/ app' = [app EXCEPT !.pc = "done"]
              \/ app' = [app EXCEPT !.pc = "take", !.of = queue]
            BY <2>2 DEF WaitReturn, Fail
        <3> QED
            BY <3>1, <3>2 DEF AppStates
    <2> QED
        BY <2>1, <2>2
<1> QED
    BY <1>1, <1>2 DEF EventInv, EventKept, TakesLast

\* The application takes an event and empties the queue.
LEMMA TakeEventKept ==
    ASSUME Inv, EventInv, TakeEvent
    PROVE  EventInv'
<1>1. /\ app.pc = "take"
      /\ app' = [app EXCEPT !.pc = "reset", !.answer = <<<<app.of, data[app.of]>>>>]
      /\ kept' = [kept EXCEPT !.taken = @ \/ app.of = kept.last]
      /\ app \in AppStates /\ kept \in KeptStates
    BY DEF TakeEvent, Inv, TypeOK
<1>2. app'.pc = "reset"
    BY <1>1 DEF AppStates
<1>3. kept'.taken = (kept.taken \/ app.of = kept.last) /\ kept'.overtaken = kept.overtaken
    BY <1>1 DEF KeptStates
<1>4. kept.taken \/ kept.overtaken \/ app.of = kept.last
    BY <1>1 DEF EventInv, TakesLast
<1> QED
    BY <1>2, <1>3, <1>4 DEF EventInv, EventKept, TakesLast

\* Every step keeps the event.
LEMMA NextEvent == Inv /\ EventInv /\ [Next]_vars => EventInv'
<1> SUFFICES ASSUME Inv, EventInv, [Next]_vars PROVE EventInv'
    OBVIOUS
<1>1. CASE Thread
    <2>1. CASE StoreEvent
        BY <2>1, StoreEventKept
    <2>2. CASE ~StoreEvent
        <3>1. UNCHANGED <<queue, kept, app>>
            BY <1>1, <2>2 DEF Thread, Reconnect, ReceiveRead, ReceiveTicket, Notify, ReceivePage,
               CopyPage, CountPage, AdvancePage, ReleaseList, Receive, waits, histories
        <3> QED
            BY <3>1, OtherStepsEvent
    <2> QED
        BY <2>1, <2>2
<1>2. CASE AppCalls
    <2>1. CASE WaitEvent
        BY <2>1, WaitEventKept
    <2>2. CASE \E e \in Entries : Read(e)
        <3>1. PICK e \in Entries : Read(e)
            BY <2>2
        <3>2. PICK pc : pc = IF link = "closed" THEN "done" ELSE "ask"
            OBVIOUS
        <3>3. pc \in Places /\ pc # "take" /\ Begin("read", e, "none", pc) /\ UNCHANGED <<queue, kept>>
            BY <3>1, <3>2 DEF Places, Read, waits
        <3>4. app'.pc = pc
            BY <3>3, BeginTypes DEF CallNames
        <3> QED
            BY <3>3, <3>4, OtherStepsEvent
    <2>3. CASE \E k \in Kinds : RequestList(k)
        <3>1. PICK k \in Kinds : RequestList(k)
            BY <2>3
        <3>2. PICK pc : pc = IF link = "closed" THEN "done" ELSE "recv"
            OBVIOUS
        <3>3. pc \in Places /\ pc # "take" /\ Begin("list", 0, k, pc) /\ UNCHANGED <<queue, kept>>
            BY <3>1, <3>2 DEF Places, RequestList, waits
        <3>4. app'.pc = pc
            BY <3>3, BeginTypes DEF CallNames
        <3> QED
            BY <3>3, <3>4, OtherStepsEvent
    <2>4. CASE \E k \in Kinds : FreeList(k)
        <3>1. PICK k \in Kinds : FreeList(k)
            BY <2>4
        <3>2. Begin("free", 0, k, "done") /\ UNCHANGED <<queue, kept>>
            BY <3>1 DEF FreeList, waits
        <3>3. app'.pc = "done"
            BY <3>2, BeginTypes DEF CallNames, Places
        <3> QED
            BY <3>2, <3>3, OtherStepsEvent
    <2>5. CASE ChannelRequest
        <3>1. Begin("ticket", 0, "none", "done") /\ UNCHANGED <<queue, kept>>
            BY <2>5 DEF ChannelRequest, waits
        <3>2. app'.pc = "done"
            BY <3>1, BeginTypes DEF CallNames, Places
        <3> QED
            BY <3>1, <3>2, OtherStepsEvent
    <2> QED
        BY <1>2, <2>1, <2>2, <2>3, <2>4, <2>5 DEF AppCalls
<1>3. CASE AppSteps \/ TimeOut
    <2>1. CASE WaitReturn
        BY <2>1, WaitEventKept
    <2>2. CASE TakeEvent
        BY <2>2, TakeEventKept
    <2>3. CASE ~WaitReturn /\ ~TakeEvent
        <3>1. UNCHANGED <<queue, kept>>
            BY <1>3, <2>3 DEF AppSteps, ReadAsk, ReadReturn, ResetRecv, ResetPage, ListAsk, ListReturn,
               ResetWait, TimeOut, waits, histories
        <3>2. app \in AppStates
            BY DEF Inv, TypeOK
        <3>3. \/ \E pc \in {"wait", "page", "ask", "done"} : app' = [app EXCEPT !.pc = pc]
              \/ \E answer : app' = [app EXCEPT !.pc = "done", !.ok = TRUE, !.answer = answer]
            BY <1>3, <2>3 DEF AppSteps, ReadAsk, ReadReturn, ResetRecv, ResetPage, ListAsk, ListReturn,
               ResetWait, TimeOut, Step, Return, Fail
        <3>4. app'.pc # "take"
            BY <3>2, <3>3 DEF AppStates
        <3> QED
            BY <3>1, <3>4, OtherStepsEvent
    <2> QED
        BY <2>1, <2>2, <2>3
<1>4. CASE ServerReads \/ Break
    <2>1. UNCHANGED <<queue, kept, app>>
        BY <1>4 DEF ServerReads, Break, waits, histories
    <2> QED
        BY <2>1, OtherStepsEvent
<1>5. CASE \E k \in Kinds, e \in Entries, v \in Values : Change(k, e, v)
    <2>1. UNCHANGED <<queue, kept, app>>
        BY <1>5 DEF Change, waits
    <2> QED
        BY <2>1, OtherStepsEvent
<1>6. CASE UNCHANGED vars
    <2>1. UNCHANGED <<queue, kept, app>>
        BY <1>6 DEF vars
    <2> QED
        BY <2>1, OtherStepsEvent
<1> QED
    BY <1>1, <1>2, <1>3, <1>4, <1>5, <1>6 DEF Next

(* The event stored last is in the queue or has been returned                 *)
(* (client.c:254-276, client.c:464-471), for every interleaving of the two    *)
(* threads, except one stored between a call's look at the queue, which held  *)
(* another event, and its reset.                                              *)
THEOREM LastEventNotLost == Spec => []LastEventKept
<1>1. Init => Inv /\ EventInv
    <2>1. Init => EventInv
        BY DEF Init, EventInv, EventKept, TakesLast
    <2> QED
        BY <2>1, InitInv
<1>2. (Inv /\ EventInv) /\ [Next]_vars => (Inv /\ EventInv)'
    BY NextInv, NextEvent
<1>3. EventInv => LastEventKept
    BY DEF EventInv, EventKept, LastEventKept
<1> QED
    BY <1>1, <1>2, <1>3, PTL DEF Spec

-----------------------------------------------------------------------------
(* The packets in a queue.                                                   *)

Items(s) == {s[i] : i \in DOMAIN s}

\* What a step of a queue does to its packets.
LEMMA ItemsOfQueue ==
    ASSUME NEW S, NEW s \in Seq(S)
    PROVE  /\ s # << >> => Items(Tail(s)) \subseteq Items(s) /\ Head(s) \in Items(s)
           /\ \A x \in S : Items(Append(s, x)) = Items(s) \cup {x}
           /\ \A t \in Seq(S) : Items(s \o t) = Items(s) \cup Items(t)
           /\ Items(<< >>) = {}
<1>1. DOMAIN s = 1..Len(s) /\ Len(s) \in Nat
    OBVIOUS
<1>2. ASSUME s # << >>
      PROVE  Items(Tail(s)) \subseteq Items(s) /\ Head(s) \in Items(s)
    <2>1. /\ Len(s) \in Nat \ {0} /\ Head(s) = s[1]
          /\ Tail(s) \in Seq(S) /\ Len(Tail(s)) = Len(s) - 1
          /\ \A i \in 1..Len(s) - 1 : Tail(s)[i] = s[i + 1]
        BY <1>2, HeadAndTail
    <2>2. DOMAIN Tail(s) = 1..Len(s) - 1
        BY <2>1
    <2>3. \A i \in 1..Len(s) - 1 : i + 1 \in 1..Len(s)
        BY <1>1
    <2>4. 1 \in DOMAIN s
        BY <1>1, <2>1
    <2> QED
        BY <1>1, <2>1, <2>2, <2>3, <2>4 DEF Items
<1>3. ASSUME NEW x \in S
      PROVE  Items(Append(s, x)) = Items(s) \cup {x}
    <2>1. PICK t : t = Append(s, x)
        OBVIOUS
    <2>2. /\ DOMAIN t = 1..Len(s) + 1 /\ t[Len(s) + 1] = x
          /\ \A i \in 1..Len(s) : t[i] = s[i]
        BY <1>1, <2>1
    <2>3. /\ \A i \in 1..Len(s) + 1 : i \in 1..Len(s) \/ i = Len(s) + 1
          /\ \A i \in 1..Len(s) : i \in 1..Len(s) + 1
          /\ Len(s) + 1 \in 1..Len(s) + 1
        BY <1>1
    <2>4. Items(t) = Items(s) \cup {x}
        BY <1>1, <2>2, <2>3 DEF Items
    <2> QED
        BY <2>1, <2>4
<1>4. ASSUME NEW t \in Seq(S)
      PROVE  Items(s \o t) = Items(s) \cup Items(t)
    <2>1. PICK u : u = s \o t
        OBVIOUS
    <2>2. /\ u \in Seq(S) /\ Len(u) = Len(s) + Len(t)
          /\ \A i \in 1..Len(s) : u[i] = s[i]
          /\ \A j \in 1..Len(t) : u[Len(s) + j] = t[j]
        BY <2>1, Joined
    <2>3. Len(t) \in Nat /\ DOMAIN t = 1..Len(t) /\ DOMAIN u = 1..Len(s) + Len(t)
        BY <2>2
    <2>4. /\ \A i \in 1..Len(s) + Len(t) :
                i \in 1..Len(s) \/ (i - Len(s) \in 1..Len(t) /\ i = Len(s) + (i - Len(s)))
          /\ \A i \in 1..Len(s) : i \in 1..Len(s) + Len(t)
          /\ \A j \in 1..Len(t) : Len(s) + j \in 1..Len(s) + Len(t)
        BY <1>1, <2>3
    <2>5. Items(u) \subseteq Items(s) \cup Items(t)
        <3>1. ASSUME NEW i \in 1..Len(s) + Len(t)
              PROVE  u[i] \in Items(s) \cup Items(t)
            <4>1. CASE i \in 1..Len(s)
                BY <1>1, <2>2, <4>1 DEF Items
            <4>2. CASE i - Len(s) \in 1..Len(t) /\ i = Len(s) + (i - Len(s))
                <5>1. PICK j : j = i - Len(s)
                    OBVIOUS
                <5>2. j \in 1..Len(t) /\ u[i] = u[Len(s) + j]
                    BY <4>2, <5>1
                <5> QED
                    BY <2>2, <2>3, <5>2 DEF Items
            <4> QED
                BY <2>4, <4>1, <4>2
        <3> QED
            BY <2>3, <3>1 DEF Items
    <2>6. Items(s) \subseteq Items(u)
        BY <1>1, <2>2, <2>3, <2>4 DEF Items
    <2>7. Items(t) \subseteq Items(u)
        BY <2>2, <2>3, <2>4 DEF Items
    <2> QED
        BY <2>1, <2>5, <2>6, <2>7
<1>5. Items(<< >>) = {}
    BY DEF Items
<1> QED
    BY <1>2, <1>3, <1>4, <1>5

\* The packets have the type of the queue.
LEMMA ItemsTyped ==
    ASSUME NEW S, NEW s \in Seq(S)
    PROVE  Items(s) \subseteq S
    BY DEF Items

\* What is on its way.
LEMMA OutstandingItems ==
    Outstanding = Items(toServer) \cup Items(toClient)
    BY DEF Outstanding, Items

\* What comes to the client at a step of the server: answers of this moment.
LEMMA ServerReadsItems ==
    ASSUME Inv, ServerReads
    PROVE  \A q \in Items(toClient') :
              \/ q \in Items(toClient)
              \/ q.type = "READ" /\ q.id \in Entries /\ q.value = table["event"][q.id]
              \/ q.type = "TICKET"
              \/ q \in ListPages
<1> DEFINE p == Head(toServer)
<1>1. toServer \in Seq(Packets) /\ toServer # << >> /\ toClient \in Seq(Answers)
    BY DEF Inv, TypeOK, ServerReads
<1>2. p \in Packets
    BY <1>1, HeadAndTail
<1>3. CASE /\ p.type = "READ"
           /\ toClient' = Append(toClient, ReadReply(p.id))
    <2>1. PICK r : r = [type |-> "READ", id |-> p.id, value |-> table["event"][p.id]]
        OBVIOUS
    <2>2. p.id \in Entries
        BY <1>2, <1>3, RequestTypes
    <2>3. r \in Answers
        <3>1. table["event"][p.id] \in Values
            BY <2>2, KindAssumption DEF Inv, TypeOK, Tables
        <3> QED
            BY <2>1, <2>2, <3>1 DEF Answers
    <2>4. r.type = "READ" /\ r.id \in Entries /\ r.value = table["event"][r.id]
        BY <2>1, <2>2
    <2>5. toClient' = Append(toClient, r)
        BY <1>3, <2>1 DEF ReadReply
    <2>6. Items(Append(toClient, r)) = Items(toClient) \cup {r}
        BY <1>1, <2>3, ItemsOfQueue
    <2> QED
        BY <2>4, <2>5, <2>6
<1>4. ASSUME p.type = "LIST",
             NEW lost \in 0..Len(Pages(p.kind, p.sequence)),
             NEW sent \in Selections(Len(Pages(p.kind, p.sequence)) - lost, Len(Pages(p.kind, p.sequence))),
             toClient' = toClient \o [i \in DOMAIN sent |-> Pages(p.kind, p.sequence)[sent[i]]]
      PROVE  \A q \in Items(toClient') : q \in Items(toClient) \/ q \in ListPages
    <2>1. PICK pages : pages = [i \in DOMAIN sent |-> Pages(p.kind, p.sequence)[sent[i]]]
        OBVIOUS
    <2>2. pages \in Seq(ListPages) /\ pages \in Seq(Answers)
        <3>1. p.kind \in Kinds /\ p.sequence \in 0..Modulus - 1
            BY <1>2, <1>4, RequestTypes
        <3> QED
            BY <1>4, <2>1, <3>1, PagesSent DEF Inv
    <2>3. toClient' = toClient \o pages
        BY <1>4, <2>1
    <2>4. Items(toClient') = Items(toClient) \cup Items(pages)
        BY <1>1, <2>2, <2>3, ItemsOfQueue
    <2>5. Items(pages) \subseteq ListPages
        BY <2>2, ItemsTyped
    <2> QED
        BY <2>4, <2>5
<1>5. CASE p.type = "TICKET" /\ toClient' = Append(toClient, [type |-> "TICKET"])
    <2>1. PICK r : r = [type |-> "TICKET"]
        OBVIOUS
    <2>2. r \in Answers /\ r.type = "TICKET"
        BY <2>1 DEF Answers
    <2>3. Items(toClient') = Items(toClient) \cup {r}
        BY <1>1, <1>5, <2>1, <2>2, ItemsOfQueue
    <2> QED
        BY <2>2, <2>3
<1> QED
    BY <1>3, <1>4, <1>5 DEF ServerReads

-----------------------------------------------------------------------------
(* Reads.                                                                    *)

InMoment(v) == \E t \in moments : v = t["event"][app.of]

\* The table as it is belongs to the moments of the call.
MomentsNow == app.pc # "done" => table \in moments

\* Only a call that is over has an answer.
OkWhenDone == app.ok => app.pc = "done"

\* The answers on their way to a read that began clean are of its moments, ...
AnswersFresh ==
    app.call = "read" /\ clean /\ app.pc # "done" =>
        \A p \in Items(toClient) : p.type = "READ" /\ p.id = app.of => InMoment(p.value)

\* ... none has come before the name is set, ...
NameFirst ==
    /\ app.call = "read" /\ app.pc = "wait" => read.id = app.of
    /\ app.call = "read" /\ clean /\ app.pc = "ask" => read.wait

\* ... and the one that has come is one of them.
DataFresh ==
    app.call = "read" /\ clean /\ app.pc = "wait" /\ ~read.wait =>
        \E t \in moments : ReadAnswer = ValueOf(app.of, t["event"][app.of])

ReadingInv == MomentsNow /\ OkWhenDone /\ AnswersFresh /\ NameFirst /\ DataFresh /\ ReadOfOneMoment

\* Steps at which neither the call nor what it reads changes.
LEMMA OtherStepsRead ==
    ASSUME ReadingInv, UNCHANGED <<app, read, clean, moments, table>>,
           \A p \in Items(toClient') : p.type = "READ" => p \in Items(toClient)
    PROVE  ReadingInv'
    BY DEF ReadingInv, MomentsNow, OkWhenDone, AnswersFresh, NameFirst, DataFresh, ReadOfOneMoment, InMoment, ReadAnswer

\* The server answers.
LEMMA ServerReadsFresh ==
    ASSUME Inv, ReadingInv, ServerReads
    PROVE  ReadingInv'
<1>1. UNCHANGED <<app, read, clean, moments, table>>
    BY DEF ServerReads, histories
<1>2. \A p \in Items(toClient') : p.type = "READ" =>
          p \in Items(toClient) \/ p.value = table["event"][p.id]
    <2>1. ASSUME NEW p \in Items(toClient'), p.type = "READ"
          PROVE  p \in Items(toClient) \/ p.value = table["event"][p.id]
        <3>1. p \in ListPages => p.type = "LIST"
            BY PageFields
        <3> QED
            BY <2>1, <3>1, ServerReadsItems
    <2> QED
        BY <2>1
<1>3. AnswersFresh'
    BY <1>1, <1>2 DEF ReadingInv, MomentsNow, AnswersFresh, InMoment
<1> QED
    BY <1>1, <1>3 DEF ReadingInv, MomentsNow, OkWhenDone, NameFirst, DataFresh, ReadOfOneMoment, ReadAnswer

\* A table changes: another moment.
LEMMA ChangeFresh ==
    ASSUME Inv, ReadingInv, NEW k \in Kinds, NEW e \in Entries, NEW v \in Values, Change(k, e, v)
    PROVE  ReadingInv'
<1>1. /\ UNCHANGED <<app, read, clean>>
      /\ moments' = IF app.pc = "done" THEN moments ELSE moments \cup {table'}
    BY DEF Change
<1>2. \A p \in Items(toClient') : p.type = "READ" => p \in Items(toClient)
    <2>1. PICK r : r = [type |-> "EVENT", id |-> e, value |-> v]
        OBVIOUS
    <2>2. toClient' = toClient \/ (e \in Synced /\ toClient' = Append(toClient, r))
        BY <2>1 DEF Change
    <2>3. toClient \in Seq(Answers) /\ r.type = "EVENT"
        BY <2>1 DEF Inv, TypeOK
    <2>4. ASSUME e \in Synced
          PROVE  Items(Append(toClient, r)) = Items(toClient) \cup {r}
        <3>1. r \in Answers
            BY <2>1, <2>4 DEF Answers
        <3> QED
            BY <2>3, <3>1, ItemsOfQueue
    <2> QED
        BY <2>2, <2>3, <2>4
<1> QED
    BY <1>1, <1>2 DEF ReadingInv, MomentsNow, OkWhenDone, AnswersFresh, NameFirst, DataFresh, ReadOfOneMoment, InMoment, ReadAnswer

\* An answer to a read arrives.
LEMMA ReceiveReadFresh ==
    ASSUME Inv, ReadingInv, ReceiveRead
    PROVE  ReadingInv'
<1> DEFINE p == Head(toClient)
<1>1. /\ p \in Answers /\ p.type = "READ" /\ toClient' = Tail(toClient)
      /\ toClient # << >> /\ toClient \in Seq(Answers)
      /\ UNCHANGED <<app, table>>
    BY ReceiveTypes DEF Inv, TypeOK, ReceiveRead
<1>2. /\ UNCHANGED moments
      /\ read' = IF read.wait /\ p.id = read.id THEN StoreRead(p) ELSE read
      /\ clean' = (clean /\ ~(app.call = "read" /\ app.pc = "ask"))
      /\ read \in ReadStates
    BY DEF ReceiveRead, AnswersRead, Inv, TypeOK
<1>3. Items(toClient') \subseteq Items(toClient) /\ p \in Items(toClient)
    BY <1>1, ItemsOfQueue
<1>4. /\ read'.id = read.id
      /\ read.wait /\ p.id = read.id => read'.wait = FALSE /\ ReadAnswer' = ValueOf(p.id, p.value)
      /\ ~(read.wait /\ p.id = read.id) => read' = read
    <2>1. <<p.id, p.value>> \in ReadData
        <3>1. p.id \in Entries /\ p.value \in Values
            BY <1>1, AnswerTypes
        <3> QED
            BY <3>1 DEF ReadData, Pairs
    <2>2. /\ StoreRead(p).wait = FALSE /\ StoreRead(p).id = read.id
          /\ p.value = 0 => StoreRead(p).size = 0
          /\ p.value # 0 => StoreRead(p).size = 1 /\ StoreRead(p).data = <<p.id, p.value>>
        BY <1>2, <2>1, ReadStored
    <2>3. ASSUME read' = StoreRead(p)
          PROVE  ReadAnswer' = ValueOf(p.id, p.value)
        <3>1. CASE p.value = 0
            BY <2>2, <2>3, <3>1 DEF ReadAnswer, ValueOf
        <3>2. CASE p.value # 0
            <4>1. PICK d : d = <<p.id, p.value>>
                OBVIOUS
            <4>2. read'.size = 1 /\ read'.data = d
                BY <2>2, <2>3, <3>2, <4>1
            <4>3. ReadAnswer' = <<d>>
                BY <4>2 DEF ReadAnswer
            <4>4. ValueOf(p.id, p.value) = <<d>>
                BY <3>2, <4>1 DEF ValueOf
            <4> QED
                BY <4>3, <4>4
        <3> QED
            BY <3>1, <3>2
    <2> QED
        BY <1>2, <2>2, <2>3
<1> HIDE DEF p
<1>5. MomentsNow' /\ OkWhenDone'
    BY <1>1, <1>2 DEF ReadingInv, MomentsNow, OkWhenDone
<1>6. AnswersFresh'
    BY <1>1, <1>2, <1>3 DEF ReadingInv, AnswersFresh, InMoment
<1>7. NameFirst'
    BY <1>1, <1>2, <1>4 DEF ReadingInv, NameFirst
<1>8. DataFresh'
    <2> SUFFICES ASSUME app.call = "read", clean, app.pc = "wait", ~read'.wait
                 PROVE  \E t \in moments : ReadAnswer' = ValueOf(app.of, t["event"][app.of])
        BY <1>1, <1>2 DEF DataFresh
    <2>1. CASE read.wait /\ p.id = read.id
        <3>1. ReadAnswer' = ValueOf(p.id, p.value) /\ p.id = app.of
            BY <1>4, <2>1 DEF ReadingInv, NameFirst
        <3>2. InMoment(p.value)
            BY <1>1, <1>3, <3>1 DEF ReadingInv, AnswersFresh
        <3> QED
            BY <3>1, <3>2 DEF InMoment
    <2>2. CASE ~(read.wait /\ p.id = read.id)
        BY <1>4, <2>2 DEF ReadingInv, DataFresh, ReadAnswer
    <2> QED
        BY <2>1, <2>2
<1>9. ReadOfOneMoment'
    BY <1>1, <1>2 DEF ReadingInv, ReadOfOneMoment
<1> QED
    BY <1>5, <1>6, <1>7, <1>8, <1>9 DEF ReadingInv

\* A read begins: nothing with its name is on its way, or it is not clean.
LEMMA ReadFresh ==
    ASSUME Inv, ReadingInv, NEW e \in Entries, Read(e)
    PROVE  ReadingInv'
<1>1. PICK pc : pc = IF link = "closed" THEN "done" ELSE "ask"
    OBVIOUS
<1>2. /\ Begin("read", e, "none", pc)
      /\ read' = IF link = "closed" THEN read ELSE [read EXCEPT !.wait = TRUE]
      /\ clean' = (\A p \in Outstanding : p.type = "READ" => p.id # e)
      /\ UNCHANGED <<network, waits, list, raced, kept>>
      /\ read \in ReadStates
    BY <1>1 DEF Read, Inv, TypeOK
<1>3. pc \in Places /\ pc \in {"done", "ask"} /\ (pc = "ask" => read'.wait = TRUE)
    BY <1>1, <1>2 DEF Places, ReadStates
<1>4. /\ app'.call = "read" /\ app'.of = e /\ app'.pc = pc /\ app'.ok = FALSE
      /\ moments' = {table} /\ table' = table
    BY <1>2, <1>3, BeginTypes DEF CallNames
<1>5. toClient' = toClient /\ (clean' => \A p \in Items(toClient) : p.type = "READ" => p.id # e)
    BY <1>2, OutstandingItems DEF network
<1> QED
    BY <1>3, <1>4, <1>5 DEF ReadingInv, MomentsNow, OkWhenDone, AnswersFresh, NameFirst, DataFresh, ReadOfOneMoment

\* Another call begins.
LEMMA BeginFresh ==
    ASSUME Inv, ReadingInv, NEW call \in CallNames, NEW of \in Entries \cup {0},
           NEW kind \in Kinds \cup {"none"}, NEW pc \in Places, Begin(call, of, kind, pc), call # "read"
    PROVE  ReadingInv'
<1>1. app'.call = call /\ app'.ok = FALSE /\ moments' = {table} /\ table' = table
    BY BeginTypes
<1> QED
    BY <1>1 DEF ReadingInv, MomentsNow, OkWhenDone, AnswersFresh, NameFirst, DataFresh, ReadOfOneMoment

\* The name is set and the request sent.
LEMMA ReadAskFresh ==
    ASSUME Inv, ReadingInv, ReadAsk
    PROVE  ReadingInv'
<1>1. /\ app.call = "read" /\ app.pc = "ask" /\ read' = [read EXCEPT !.id = app.of]
      /\ app' = [app EXCEPT !.pc = "wait"]
      /\ UNCHANGED <<table, toClient, clean, moments>>
      /\ read \in ReadStates
    BY DEF ReadAsk, Step, Send, histories, Inv, TypeOK
<1>2. app'.pc = "wait" /\ app'.call = "read" /\ app'.of = app.of /\ app'.ok = app.ok /\ app'.answer = app.answer
    BY <1>1, AppMoves DEF Places
<1>3. read'.id = app.of /\ read'.wait = read.wait /\ read'.size = read.size /\ read'.data = read.data
    BY <1>1 DEF ReadStates
<1> QED
    BY <1>1, <1>2, <1>3 DEF ReadingInv, MomentsNow, OkWhenDone, AnswersFresh, NameFirst, DataFresh,
       ReadOfOneMoment, InMoment, ReadAnswer

\* A read returns.
LEMMA ReadReturnFresh ==
    ASSUME Inv, ReadingInv, ReadReturn
    PROVE  ReadingInv'
<1>1. /\ app.call = "read" /\ app.pc = "wait" /\ ~read.wait
      /\ app' = [app EXCEPT !.pc = "done", !.ok = TRUE, !.answer = ReadAnswer]
      /\ UNCHANGED <<table, clean, moments>>
    BY DEF ReadReturn, Return, histories, ReadAnswer
<1>2. ReadAnswer \in Seq(ReadData)
    BY ReadAnswerType
<1>3. app'.pc = "done" /\ app'.call = "read" /\ app'.of = app.of /\ app'.ok = TRUE /\ app'.answer = ReadAnswer
    BY <1>1, <1>2, AppMoves
<1>4. clean => \E t \in moments : ReadAnswer = ValueOf(app.of, t["event"][app.of])
    BY <1>1 DEF ReadingInv, DataFresh
<1>5. ReadOfOneMoment'
    BY <1>1, <1>3, <1>4 DEF ReadOfOneMoment
<1> QED
    BY <1>3, <1>5 DEF ReadingInv, MomentsNow, OkWhenDone, AnswersFresh, NameFirst, DataFresh

\* Steps of other calls, and timeouts.
LEMMA AppMoveFresh ==
    ASSUME Inv, ReadingInv, app.pc # "done",
           \/ /\ app.call # "read"
              /\ app'.call = app.call
           \/ /\ app'.pc = "done" /\ app'.ok = app.ok,
           app'.ok => app'.pc = "done",
           UNCHANGED <<read, clean, moments, table, toClient>>
    PROVE  ReadingInv'
<1>1. ~app.ok
    BY AppFields DEF ReadingInv, OkWhenDone
<1> QED
    BY <1>1 DEF ReadingInv, MomentsNow, OkWhenDone, AnswersFresh, NameFirst, DataFresh, ReadOfOneMoment

\* Every step keeps the invariant of reads.
LEMMA NextReading == Inv /\ ReadingInv /\ [Next]_vars => ReadingInv'
<1> SUFFICES ASSUME Inv, ReadingInv, [Next]_vars PROVE ReadingInv'
    OBVIOUS
<1>1. CASE Thread
    <2>1. CASE ReceiveRead
        BY <2>1, ReceiveReadFresh
    <2>2. CASE ~ReceiveRead
        <3>1. UNCHANGED <<app, read, clean, moments, table>>
            BY <1>1, <2>2 DEF Thread, Reconnect, ReceiveTicket, StoreEvent, Notify, ReceivePage,
               CopyPage, CountPage, AdvancePage, ReleaseList, Receive, histories
        <3>2. Items(toClient') \subseteq Items(toClient)
            <4>1. toClient' = toClient \/ (toClient # << >> /\ toClient' = Tail(toClient))
                BY <1>1, <2>2 DEF Thread, Reconnect, ReceiveTicket, StoreEvent, Notify, ReceivePage,
                   CopyPage, CountPage, AdvancePage, ReleaseList, Receive, network
            <4>2. toClient \in Seq(Answers)
                BY DEF Inv, TypeOK
            <4>3. toClient # << >> => Items(Tail(toClient)) \subseteq Items(toClient)
                BY <4>2, ItemsOfQueue
            <4> QED
                BY <4>1, <4>3
        <3> QED
            BY <3>1, <3>2, OtherStepsRead
    <2> QED
        BY <2>1, <2>2
<1>2. CASE AppCalls
    <2>1. CASE WaitEvent
        <3>1. PICK pc : pc = IF queue = 0 THEN "wait" ELSE "take"
            OBVIOUS
        <3>2. pc \in Places /\ queue \in Entries \cup {0} /\ Begin("wait", queue, "none", pc)
            BY <2>1, <3>1, CallAssumption DEF Places, Inv, TypeOK, WaitEvent
        <3> QED
            BY <3>2, BeginFresh DEF CallNames
    <2>2. CASE \E e \in Entries : Read(e)
        BY <2>2, ReadFresh
    <2>3. CASE \E k \in Kinds : RequestList(k)
        <3>1. PICK k \in Kinds : RequestList(k)
            BY <2>3
        <3>2. PICK pc : pc = IF link = "closed" THEN "done" ELSE "recv"
            OBVIOUS
        <3>3. pc \in Places /\ Begin("list", 0, k, pc)
            BY <3>1, <3>2 DEF Places, RequestList
        <3> QED
            BY <3>3, BeginFresh DEF CallNames
    <2>4. CASE \E k \in Kinds : FreeList(k)
        <3>1. PICK k \in Kinds : FreeList(k)
            BY <2>4
        <3>2. Begin("free", 0, k, "done")
            BY <3>1 DEF FreeList
        <3> QED
            BY <3>2, BeginFresh DEF CallNames, Places
    <2>5. CASE ChannelRequest
        <3>1. Begin("ticket", 0, "none", "done")
            BY <2>5 DEF ChannelRequest
        <3> QED
            BY <3>1, BeginFresh DEF CallNames, Places
    <2> QED
        BY <1>2, <2>1, <2>2, <2>3, <2>4, <2>5 DEF AppCalls
<1>3. CASE AppSteps \/ TimeOut
    <2>1. CASE ReadAsk
        BY <2>1, ReadAskFresh
    <2>2. CASE ReadReturn
        BY <2>2, ReadReturnFresh
    <2>3. CASE TimeOut
        <3>1. /\ app.pc = "wait" /\ app' = [app EXCEPT !.pc = "done"]
              /\ UNCHANGED <<read, clean, moments, table, toClient>>
            BY <2>3 DEF TimeOut, Fail, network, histories
        <3>2. app'.pc = "done" /\ app'.ok = app.ok
            BY <3>1, AppMoves DEF Places
        <3> QED
            BY <3>1, <3>2, AppMoveFresh
    <2>4. CASE AppSteps /\ ~ReadAsk /\ ~ReadReturn
        <3>1. /\ app.pc # "done" /\ app.call # "read"
              /\ UNCHANGED <<read, clean, moments, table, toClient>>
            <4>1. app.pc = "reset" => app.call = "wait"
                BY DEF Inv, Control
            <4> QED
                BY <2>4, <4>1 DEF AppSteps, ResetRecv, ResetPage, ListAsk, ListReturn,
                   WaitReturn, TakeEvent, ResetWait, Send, network, histories
        <3>2. ~app.ok
            BY <3>1, AppFields DEF ReadingInv, OkWhenDone
        <3>3. app'.call = app.call /\ (app'.ok => app'.pc = "done")
            <4>1. app \in AppStates
                BY DEF Inv, TypeOK
            <4>2. \/ \E pc \in Places : app' = [app EXCEPT !.pc = pc]
                  \/ \E answer : app' = [app EXCEPT !.pc = "done", !.ok = TRUE, !.answer = answer]
                  \/ \E pc \in Places : \E of : app' = [app EXCEPT !.pc = pc, !.of = of]
                  \/ \E pc \in Places : \E answer : app' = [app EXCEPT !.pc = pc, !.answer = answer]
                BY <2>4 DEF AppSteps, ResetRecv, ResetPage, ListAsk, ListReturn,
                   WaitReturn, TakeEvent, ResetWait, Step, Return, Fail, Places
            <4> QED
                BY <3>2, <4>1, <4>2 DEF AppStates
        <3> QED
            BY <3>1, <3>3, AppMoveFresh
    <2> QED
        BY <1>3, <2>1, <2>2, <2>3, <2>4
<1>4. CASE ServerReads
    BY <1>4, ServerReadsFresh
<1>5. CASE Break
    <2>1. UNCHANGED <<app, read, clean, moments, table>> /\ toClient' \in {toClient, << >>}
        BY <1>5 DEF Break, histories
    <2>2. Items(<< >>) = {}
        BY DEF Items
    <2> QED
        BY <2>1, <2>2, OtherStepsRead
<1>6. CASE \E k \in Kinds, e \in Entries, v \in Values : Change(k, e, v)
    BY <1>6, ChangeFresh
<1>7. CASE UNCHANGED vars
    <2>1. UNCHANGED <<app, read, clean, moments, table, toClient>>
        BY <1>7 DEF vars
    <2> QED
        BY <2>1, OtherStepsRead
<1> QED
    BY <1>1, <1>2, <1>3, <1>4, <1>5, <1>6, <1>7 DEF Next

\* At the start nothing is read.
LEMMA InitReading == Init => ReadingInv
<1> SUFFICES ASSUME Init PROVE ReadingInv
    OBVIOUS
<1>1. app.call = "none" /\ app.ok = FALSE /\ app.pc = "done"
    BY DEF Init
<1> QED
    BY <1>1 DEF ReadingInv, MomentsNow, OkWhenDone, AnswersFresh, NameFirst, DataFresh, ReadOfOneMoment

(* A read that returns has the value of its variable at some moment of the    *)
(* call, or none if the variable was not there at one (client.c:146-168,      *)
(* client.c:533-543, server.c:581-604), whatever was given up before and is   *)
(* left in read_data, for all tables and any number of changes, calls and     *)
(* broken connections; the two exceptions are those ReadOfOneMoment names.    *)
THEOREM ReadsOfOneMoment == Spec => []ReadOfOneMoment
<1>1. Init => Inv /\ ReadingInv
    BY InitInv, InitReading
<1>2. (Inv /\ ReadingInv) /\ [Next]_vars => (Inv /\ ReadingInv)'
    BY NextInv, NextReading
<1>3. ReadingInv => ReadOfOneMoment
    BY DEF ReadingInv
<1> QED
    BY <1>1, <1>2, <1>3, PTL DEF Spec

-----------------------------------------------------------------------------
(* Lists.  What makes the answer to a request for list k right while nothing *)
(* of an earlier request can be taken for it.                                *)

\* A call that asks for the list is under way.
Requesting(k) == app.call = "list" /\ app.kind = k /\ app.pc # "done"

\* Nothing else has the sequence number of the list.
Undisturbed(k) == k \notin raced \/ (Requesting(k) /\ clean)

\* The request with this number; it is on its way.
Request(k) == [type |-> "LIST", kind |-> k, sequence |-> list[k].sequence]
Asked(k) == Request(k) \in Items(toServer)
AtMostOnce(s, r) == \A i, j \in DOMAIN s : s[i] = r /\ s[j] = r => i = j

\* The pages with this number that are on their way; there is none, and the
\* thread is not at one.
CurrentPages(k) ==
    {p \in Items(toClient) : p.type = "LIST" /\ p.kind = k /\ p.sequence = list[k].sequence}
Quiet(k) == CurrentPages(k) = {} /\ ~AtPageOf(k)
Pristine(k) == list[k].recv = 0 /\ list[k].page = 0

\* A page of the list all: page full pages come before it.
IsPage(p, all) ==
    /\ p.page * PerPage + Len(p.items) <= Len(all)
    /\ \A i \in 1..Len(p.items) : p.items[i] = all[p.page * PerPage + i]
    /\ IF p.end THEN p.page * PerPage + Len(p.items) = Len(all) /\ Len(p.items) < PerPage
       ELSE Len(p.items) = PerPage

\* Where recv and wait_packet are while the thread is at a page.
AtPlace(k, all) ==
    LET p == thread.packet
        l == list[k]
    IN  /\ p.sequence = l.sequence /\ l.info # Null /\ IsPage(p, all)
        /\ l.page = IF At("release") THEN p.page + 1 ELSE p.page
        /\ l.recv = p.page * PerPage + IF At("copy") \/ At("count") THEN 0 ELSE Len(p.items)
        /\ At("count") => thread.base = l.recv
        /\ At("release") => p.end

\* The pages that come are of one list, and the one awaited begins where the
\* entries counted end.
Placed(k, all) ==
    /\ \A p \in CurrentPages(k) :
          /\ IsPage(p, all)
          /\ ~AtPageOf(k) /\ p.page = list[k].page => list[k].recv = p.page * PerPage
    /\ AtPageOf(k) => AtPlace(k, all)

\* The buffer holds the list up to there; all of it when the wait is over.
Filled(k, all) ==
    LET l == list[k]
    IN  /\ l.recv <= Len(all) /\ \A j \in 1..l.recv : l.info[j] = all[j]
        /\ AtPageOf(k) /\ At("count") =>
              \A j \in 1..Len(thread.packet.items) : l.info[l.recv + j] = all[l.recv + j]
        /\ ~l.wait => ~AtPageOf(k) /\ l.recv = Len(all) /\ Len(all) < l.page * PerPage

\* What a call that waits can find.
Answering(k, all) ==
    Requesting(k) /\ clean /\ app.pc = "wait" =>
        \/ list[k].wait /\ Quiet(k) /\ Pristine(k)
        \/ ~Asked(k) /\ Filled(k, all) /\ \E t \in moments : all = Listing(t[k])

\* Until the request is sent nothing can come.
Resetting(k) ==
    Requesting(k) /\ app.pc # "wait" =>
        /\ ~Asked(k) /\ Quiet(k)
        /\ app.pc # "recv" => list[k].recv = 0
        /\ app.pc = "ask" => list[k].page = 0

Answered(k) == \E all \in Seq(Pairs) : Len(all) <= MaxEntries /\ Placed(k, all) /\ Answering(k, all)
Requested(k) == AtMostOnce(toServer, Request(k)) /\ (Asked(k) => Quiet(k) /\ Pristine(k)) /\ Resetting(k)
ListInv(k) == Undisturbed(k) => Requested(k) /\ Answered(k)
ListsInv == (\A k \in Kinds : ListInv(k)) /\ PagesFit /\ ListOfOneMoment

\* A packet that is in a queue at most once.
LEMMA OnceInQueue ==
    ASSUME NEW S, NEW s \in Seq(S), NEW r
    PROVE  /\ s # << >> /\ AtMostOnce(s, r) =>
                 AtMostOnce(Tail(s), r) /\ (Head(s) = r => r \notin Items(Tail(s)))
           /\ \A x \in S : (x # r /\ AtMostOnce(s, r)) \/ r \notin Items(s) => AtMostOnce(Append(s, x), r)
           /\ AtMostOnce(<< >>, r)
<1>1. DOMAIN s = 1..Len(s) /\ Len(s) \in Nat
    OBVIOUS
<1>2. ASSUME s # << >>, AtMostOnce(s, r)
      PROVE  AtMostOnce(Tail(s), r) /\ (Head(s) = r => r \notin Items(Tail(s)))
    <2>1. PICK t : t = Tail(s)
        OBVIOUS
    <2>2. /\ Len(s) \in Nat \ {0} /\ Head(s) = s[1]
          /\ t \in Seq(S) /\ Len(t) = Len(s) - 1
          /\ \A i \in 1..Len(s) - 1 : t[i] = s[i + 1]
        BY <1>2, <2>1, HeadAndTail
    <2>3. DOMAIN t = 1..Len(s) - 1
        BY <2>2
    <2>4. /\ \A i \in 1..Len(s) - 1 : i + 1 \in 1..Len(s) /\ i + 1 # 1
          /\ \A i, j \in 1..Len(s) - 1 : i + 1 = j + 1 => i = j
          /\ 1 \in 1..Len(s)
        BY <1>1, <2>2
    <2>5. AtMostOnce(t, r)
        BY <1>1, <1>2, <2>2, <2>3, <2>4, SMTT(30) DEF AtMostOnce
    <2>6. Head(s) = r => r \notin Items(t)
        BY <1>1, <1>2, <2>2, <2>3, <2>4 DEF AtMostOnce, Items
    <2> QED
        BY <2>1, <2>5, <2>6
<1>3. ASSUME NEW x \in S, (x # r /\ AtMostOnce(s, r)) \/ r \notin Items(s)
      PROVE  AtMostOnce(Append(s, x), r)
    <2>1. PICK t : t = Append(s, x)
        OBVIOUS
    <2>2. /\ DOMAIN t = 1..Len(s) + 1 /\ t[Len(s) + 1] = x
          /\ \A i \in 1..Len(s) : t[i] = s[i]
        BY <1>1, <2>1
    <2>3. \A i \in 1..Len(s) + 1 : i \in 1..Len(s) \/ i = Len(s) + 1
        BY <1>1
    <2>4. AtMostOnce(t, r)
        BY <1>1, <1>3, <2>2, <2>3 DEF AtMostOnce, Items
    <2> QED
        BY <2>1, <2>4
<1>4. AtMostOnce(<< >>, r)
    BY DEF AtMostOnce
<1> QED
    BY <1>2, <1>3, <1>4

\* What the server sends for a list are pages of it.
LEMMA SentPages ==
    ASSUME TypeOK, NEW k \in Kinds, NEW seq \in 0..Modulus - 1, NEW i \in 1..Len(Pages(k, seq))
    PROVE  /\ Pages(k, seq)[i].kind = k /\ Pages(k, seq)[i].sequence = seq
           /\ IsPage(Pages(k, seq)[i], Listing(table[k]))
<1>1. PICK all : all = Listing(table[k])
    OBVIOUS
<1>2. PICK n : n = Len(all) \div PerPage + 1
    OBVIOUS
<1>3. PICK p : p = Pages(k, seq)[i]
    OBVIOUS
<1>4. all \in Seq(Pairs)
    <2>1. table[k] \in [Entries -> Values]
        BY DEF TypeOK, Tables
    <2> QED
        BY <1>1, <2>1, ListingType
<1>5. i \in 1..n /\ p = PageOf(all, k, seq, n, i)
    BY <1>1, <1>2, <1>3, PagesType
<1>6. /\ n \in Nat
      /\ (i - 1) * PerPage + Len(p.items) <= Len(all)
      /\ i = n => (i - 1) * PerPage + Len(p.items) = Len(all) /\ Len(p.items) < PerPage
      /\ i # n => Len(p.items) = PerPage
      /\ \A j \in 1..Len(p.items) : p.items[j] = all[(i - 1) * PerPage + j]
    <2>1. PartOfList(all, k, seq, n, i)
        BY <1>2, <1>4, <1>5, PageType
    <2> QED
        BY <1>5, <2>1 DEF PartOfList
<1>7. p.kind = k /\ p.sequence = seq /\ p.page = i - 1 /\ p.end = (i = n)
    BY <1>5 DEF PageOf
<1>8. IsPage(p, all)
    <2>1. p.end => i = n
        BY <1>7, Zenon
    <2>2. ~p.end => i # n
        BY <1>7, Zenon
    <2> QED
        BY <1>6, <1>7, <2>1, <2>2 DEF IsPage
<1> QED
    BY <1>1, <1>3, <1>7, <1>8

\* A step of the server adds only pages of the list that was asked for.
LEMMA ServerReadsPages ==
    ASSUME Inv, ServerReads, NEW q \in Items(toClient'), q.type = "LIST"
    PROVE  \/ q \in Items(toClient)
           \/ /\ Head(toServer) = [type |-> "LIST", kind |-> q.kind, sequence |-> q.sequence]
              /\ IsPage(q, Listing(table[q.kind]))
<1> DEFINE p == Head(toServer)
<1>1. toServer \in Seq(Packets) /\ toServer # << >> /\ toClient \in Seq(Answers)
    BY DEF Inv, TypeOK, ServerReads
<1>2. p \in Packets
    BY <1>1, HeadAndTail
<1>3. CASE /\ p.type = "READ"
           /\ toClient' = Append(toClient, ReadReply(p.id))
    <2>1. PICK r : r = [type |-> "READ", id |-> p.id, value |-> table["event"][p.id]]
        OBVIOUS
    <2>2. r \in Answers /\ r.type = "READ"
        <3>1. p.id \in Entries
            BY <1>2, <1>3, RequestTypes
        <3>2. table["event"][p.id] \in Values
            BY <3>1, KindAssumption DEF Inv, TypeOK, Tables
        <3> QED
            BY <2>1, <3>1, <3>2 DEF Answers
    <2>3. toClient' = Append(toClient, r)
        BY <1>3, <2>1 DEF ReadReply
    <2>4. Items(Append(toClient, r)) = Items(toClient) \cup {r}
        BY <1>1, <2>2, ItemsOfQueue
    <2> QED
        BY <2>2, <2>3, <2>4
<1>4. ASSUME p.type = "LIST",
             NEW lost \in 0..Len(Pages(p.kind, p.sequence)),
             NEW sent \in Selections(Len(Pages(p.kind, p.sequence)) - lost, Len(Pages(p.kind, p.sequence))),
             toClient' = toClient \o [i \in DOMAIN sent |-> Pages(p.kind, p.sequence)[sent[i]]]
      PROVE  \/ q \in Items(toClient)
             \/ /\ p = [type |-> "LIST", kind |-> q.kind, sequence |-> q.sequence]
                /\ IsPage(q, Listing(table[q.kind]))
    <2>1. PICK pages : pages = [i \in DOMAIN sent |-> Pages(p.kind, p.sequence)[sent[i]]]
        OBVIOUS
    <2>2. p.kind \in Kinds /\ p.sequence \in 0..Modulus - 1
        BY <1>2, <1>4, RequestTypes
    <2>3. pages \in Seq(Answers)
        BY <1>4, <2>1, <2>2, PagesSent DEF Inv
    <2>4. toClient' = toClient \o pages
        BY <1>4, <2>1
    <2>5. Items(toClient') = Items(toClient) \cup Items(pages)
        BY <1>1, <2>3, <2>4, ItemsOfQueue
    <2>6. ASSUME q \in Items(pages)
          PROVE  /\ q.kind = p.kind /\ q.sequence = p.sequence
                 /\ IsPage(q, Listing(table[p.kind]))
        <3>1. PICK i \in DOMAIN sent : q = Pages(p.kind, p.sequence)[sent[i]]
            BY <2>1, <2>6 DEF Items
        <3>2. sent[i] \in 1..Len(Pages(p.kind, p.sequence))
            BY <1>4, <3>1 DEF Selections
        <3> QED
            BY <2>2, <3>1, <3>2, SentPages DEF Inv
    <2>7. p = [type |-> "LIST", kind |-> p.kind, sequence |-> p.sequence]
        BY <1>2, <1>4 DEF Packets
    <2> QED
        BY <2>5, <2>6, <2>7
<1>5. CASE p.type = "TICKET" /\ toClient' = Append(toClient, [type |-> "TICKET"])
    <2>1. PICK r : r = [type |-> "TICKET"]
        OBVIOUS
    <2>2. r \in Answers /\ r.type = "TICKET"
        BY <2>1 DEF Answers
    <2>3. Items(toClient') = Items(toClient) \cup {r}
        BY <1>1, <1>5, <2>1, <2>2, ItemsOfQueue
    <2> QED
        BY <2>2, <2>3
<1> QED
    BY <1>3, <1>4, <1>5 DEF ServerReads

\* A step that leaves list k, its pages and the call that asks for it alone.
LEMMA OtherStepsList ==
    ASSUME NEW k \in Kinds, ListInv(k), list'[k] = list[k],
           \/ UNCHANGED thread
           \/ ~AtPageOf(k) /\ ~(AtPageOf(k)'),
           CurrentPages(k)' \subseteq CurrentPages(k),
           Request(k) \in Items(toServer') => Request(k) \in Items(toServer),
           AtMostOnce(toServer, Request(k)) => AtMostOnce(toServer', Request(k)),
           Requesting(k)' => /\ Requesting(k) /\ app'.pc = app.pc
                             /\ clean' = clean /\ moments \subseteq moments',
           raced \subseteq raced'
    PROVE  ListInv(k)'
<1> SUFFICES ASSUME Undisturbed(k)' PROVE (Requested(k) /\ Answered(k))'
    BY DEF ListInv
<1>1. Undisturbed(k)
    BY DEF Undisturbed
<1>2. Requested(k) /\ Answered(k)
    BY <1>1 DEF ListInv
<1>3. Request(k)' = Request(k)
    BY DEF Request
<1>4. Asked(k)' => Asked(k)
    BY <1>3 DEF Asked
<1>5. AtPageOf(k)' = AtPageOf(k) /\ (AtPageOf(k) => UNCHANGED thread)
    BY DEF AtPageOf
<1>6. Quiet(k) => Quiet(k)'
    BY <1>5 DEF Quiet
<1>7. Pristine(k)' = Pristine(k)
    BY DEF Pristine
<1>8. Resetting(k)'
    BY <1>2, <1>4, <1>6 DEF Requested, Resetting
<1>9. Requested(k)'
    BY <1>2, <1>3, <1>4, <1>6, <1>7, <1>8 DEF Requested
<1>10. PICK all \in Seq(Pairs) : Len(all) <= MaxEntries /\ Placed(k, all) /\ Answering(k, all)
    BY <1>2 DEF Answered
<1>11. Placed(k, all)'
    <2>1. AtPageOf(k) => AtPlace(k, all)'
        BY <1>5, <1>10 DEF Placed, AtPlace, At
    <2> QED
        BY <1>5, <1>10, <2>1 DEF Placed
<1>12. Filled(k, all) => Filled(k, all)'
    BY <1>5 DEF Filled, At
<1>13. Answering(k, all)'
    BY <1>4, <1>6, <1>7, <1>10, <1>12 DEF Answering
<1> QED
    BY <1>9, <1>10, <1>11, <1>13 DEF Answered

\* A step of the thread at a page of list k.
LEMMA StepsAtPage ==
    ASSUME NEW k \in Kinds, ListInv(k), UNCHANGED <<app, clean, moments, raced, toServer>>,
           list'[k].sequence = list[k].sequence,
           ~Quiet(k),
           Undisturbed(k) =>
              \A all \in Seq(Pairs) : Len(all) <= MaxEntries /\ Placed(k, all) =>
                  Placed(k, all)' /\ (Filled(k, all) => Filled(k, all)')
    PROVE  ListInv(k)'
<1> SUFFICES ASSUME Undisturbed(k)' PROVE (Requested(k) /\ Answered(k))'
    BY DEF ListInv
<1>1. Undisturbed(k)
    BY DEF Undisturbed, Requesting
<1>2. Requested(k) /\ Answered(k)
    BY <1>1 DEF ListInv
<1>3. Request(k)' = Request(k)
    BY DEF Request
<1>4. ~Asked(k) /\ ~(Asked(k)')
    BY <1>2, <1>3 DEF Requested, Asked
<1>5. Requesting(k)' = Requesting(k) /\ (Requesting(k) => app.pc = "wait")
    BY <1>2 DEF Requested, Resetting, Requesting
<1>6. Requested(k)'
    BY <1>2, <1>3, <1>4, <1>5 DEF Requested, Resetting
<1>7. PICK all \in Seq(Pairs) : Len(all) <= MaxEntries /\ Placed(k, all) /\ Answering(k, all)
    BY <1>2 DEF Answered
<1>8. Placed(k, all)' /\ (Filled(k, all) => Filled(k, all)')
    BY <1>1, <1>7
<1>9. Answering(k, all)'
    BY <1>4, <1>5, <1>7, <1>8 DEF Answering
<1> QED
    BY <1>6, <1>7, <1>8, <1>9 DEF Answered

\* The page of a thread that is at one, in numbers.
LEMMA PageInNumbers ==
    ASSUME Inv, NEW k \in Kinds, AtPageOf(k), NEW all \in Seq(Pairs), Placed(k, all)
    PROVE  /\ thread.packet \in ListPages /\ thread.packet.kind = k
           /\ thread.packet.page * PerPage \in Nat /\ Len(thread.packet.items) \in Nat
           /\ Len(all) \in Nat /\ AtPlace(k, all) /\ IsPage(thread.packet, all)
<1>1. thread.packet \in ListPages /\ thread.packet.kind = k
    BY PageAt DEF Inv, AtPageOf, At
<1>2. thread.packet.page \in Nat /\ Len(thread.packet.items) \in Nat
    BY <1>1, PageFields
<1>3. thread.packet.page * PerPage \in Nat
    BY <1>2, SizeAssumption
<1> QED
    BY <1>1, <1>2, <1>3 DEF Placed, AtPlace

\* A page that is awaited.
LEMMA ReceivePageList ==
    ASSUME Inv, ReceivePage, Awaited(Head(toClient)),
           NEW k \in Kinds, k = Head(toClient).kind, ListInv(k)
    PROVE  ListInv(k)'
<1> DEFINE p == Head(toClient)
<1>1. /\ p \in Answers /\ p.type = "LIST" /\ At("recv") /\ toClient # << >> /\ toClient' = Tail(toClient)
      /\ UNCHANGED <<table, link, toServer, app, bounds>>
    BY ReceiveTypes DEF Inv, ReceivePage
<1>2. /\ thread' = [thread EXCEPT !.pc = "copy", !.packet = p]
      /\ UNCHANGED <<list, clean, moments, raced>>
    BY DEF ReceivePage, histories
<1>3. thread \in ThreadStates /\ toClient \in Seq(Answers)
    BY DEF Inv, TypeOK
<1>4. thread'.pc = "copy" /\ thread'.packet = p
    BY <1>2, <1>3 DEF ThreadStates
<1>5. p \in CurrentPages(k)
    <2>1. p \in Items(toClient)
        BY <1>1, <1>3, ItemsOfQueue
    <2> QED
        BY <1>1, <2>1 DEF CurrentPages, Awaited
<1>6. CurrentPages(k)' \subseteq CurrentPages(k)
    <2>1. Items(toClient') \subseteq Items(toClient)
        BY <1>1, <1>3, ItemsOfQueue
    <2> QED
        BY <1>2, <2>1 DEF CurrentPages
<1>7. ~AtPageOf(k) /\ AtPageOf(k)'
    BY <1>1, <1>4 DEF AtPageOf, At
<1>8. ASSUME NEW all \in Seq(Pairs), Placed(k, all)
      PROVE  Placed(k, all)' /\ (Filled(k, all) => Filled(k, all)')
    <2>1. /\ IsPage(p, all) /\ list[k].recv = p.page * PerPage /\ p.page = list[k].page
          /\ p.sequence = list[k].sequence /\ list[k].info # Null
        BY <1>5, <1>7, <1>8 DEF Placed, Awaited
    <2>2. p.page * PerPage \in Nat /\ Len(p.items) \in Nat /\ Len(all) \in Nat
        <3>1. p \in ListPages
            BY <1>1, AnswerTypes
        <3>2. p.page \in Nat /\ Len(p.items) \in Nat
            BY <3>1, PageFields
        <3> QED
            BY <3>2, SizeAssumption
    <2>3. AtPlace(k, all)'
        BY <1>2, <1>4, <2>1, <2>2 DEF AtPlace, At
    <2>4. Placed(k, all)'
        BY <1>2, <1>6, <1>7, <1>8, <2>3 DEF Placed
    <2>5. Filled(k, all) => list[k].wait
        BY <2>1, <2>2 DEF Filled, IsPage
    <2>6. Filled(k, all) => Filled(k, all)'
        BY <1>2, <1>4, <2>5 DEF Filled, At
    <2> QED
        BY <2>4, <2>6
<1>9. ~Quiet(k)
    BY <1>5 DEF Quiet
<1> QED
    BY <1>1, <1>2, <1>8, <1>9, StepsAtPage

\* The fields of a list, one of them set.
LEMMA SetField ==
    ASSUME TypeOK, NEW k \in Kinds
    PROVE  /\ \A x : LET l == [list EXCEPT ![k].recv = x]
                     IN  /\ l[k].recv = x /\ l[k].page = list[k].page /\ l[k].info = list[k].info
                         /\ l[k].sequence = list[k].sequence /\ l[k].wait = list[k].wait
                         /\ \A m \in Kinds \ {k} : l[m] = list[m]
           /\ \A x : LET l == [list EXCEPT ![k].page = x]
                     IN  /\ l[k].page = x /\ l[k].recv = list[k].recv /\ l[k].info = list[k].info
                         /\ l[k].sequence = list[k].sequence /\ l[k].wait = list[k].wait
                         /\ \A m \in Kinds \ {k} : l[m] = list[m]
           /\ \A x : LET l == [list EXCEPT ![k].info = x]
                     IN  /\ l[k].info = x /\ l[k].recv = list[k].recv /\ l[k].page = list[k].page
                         /\ l[k].sequence = list[k].sequence /\ l[k].wait = list[k].wait
                         /\ \A m \in Kinds \ {k} : l[m] = list[m]
           /\ \A x : LET l == [list EXCEPT ![k].wait = x]
                     IN  /\ l[k].wait = x /\ l[k].recv = list[k].recv /\ l[k].page = list[k].page
                         /\ l[k].sequence = list[k].sequence /\ l[k].info = list[k].info
                         /\ \A m \in Kinds \ {k} : l[m] = list[m]
<1>1. list \in [Kinds -> Lists]
    BY DEF TypeOK
<1> QED
    BY <1>1 DEF Lists

\* The place of a page while nothing disturbs the list: it fits.
LEMMA PageFits ==
    ASSUME Inv, NEW k \in Kinds, AtPageOf(k), At("copy"), ListInv(k), Undisturbed(k)
    PROVE  list[k].info # Null /\ list[k].recv + Len(thread.packet.items) <= MaxEntries
<1>1. PICK all \in Seq(Pairs) : Len(all) <= MaxEntries /\ Placed(k, all) /\ Answering(k, all)
    BY DEF ListInv, Answered
<1>2. /\ thread.packet.page * PerPage \in Nat /\ Len(thread.packet.items) \in Nat
      /\ Len(all) \in Nat /\ AtPlace(k, all) /\ IsPage(thread.packet, all)
    BY <1>1, PageInNumbers
<1>3. MaxEntries \in Nat
    BY SizeAssumption
<1>4. list[k].info # Null /\ list[k].recv = thread.packet.page * PerPage
    BY <1>2 DEF AtPlace, At
<1> QED
    BY <1>1, <1>2, <1>3, <1>4 DEF IsPage

\* A page is copied.
LEMMA CopyPageList ==
    ASSUME Inv, CopyPage, NEW k \in Kinds, k = thread.packet.kind, ListInv(k)
    PROVE  ListInv(k)' /\ PagesFit'
<1> DEFINE p == thread.packet
           l == list[k]
<1>1. At("copy") /\ AtPageOf(k) /\ UNCHANGED <<app, clean, moments, raced, toServer, toClient>>
    BY DEF CopyPage, At, AtPageOf, network, histories
<1>2. /\ p \in ListPages /\ p.items \in Seq(Pairs) /\ Len(p.items) \in Nat /\ MaxEntries \in Nat
      /\ thread \in ThreadStates
    BY <1>1, PageAt DEF Inv, TypeOK, At
<1>3. l \in Lists /\ l.recv \in 0..MaxEntries
    BY ListFields DEF Inv
<1>4. CASE l.info = Null \/ l.recv + Len(p.items) > MaxEntries
    <2>1. thread' = [thread EXCEPT !.pc = "dead"]
        BY <1>4 DEF CopyPage, Goto
    <2>2. thread'.packet = p
        BY <2>1, ThreadMoves DEF Inv
    <2>3. ~Undisturbed(k)
        BY <1>1, <1>2, <1>3, <1>4, PageFits
    <2>4. ~(Undisturbed(k)') /\ k \in raced
        BY <1>1, <2>3 DEF Undisturbed, Requesting
    <2> QED
        BY <1>1, <2>2, <2>4 DEF ListInv, PagesFit
<1>5. CASE ~(l.info = Null \/ l.recv + Len(p.items) > MaxEntries)
    <2>1. PICK info : info = Copied(l, p.items)
        OBVIOUS
    <2>2. /\ list' = [list EXCEPT ![k].info = info]
          /\ thread' = [thread EXCEPT !.pc = "count", !.base = l.recv]
        BY <1>5, <2>1 DEF CopyPage, Copied
    <2>3. /\ list'[k].info = info /\ list'[k].recv = l.recv /\ list'[k].page = l.page
          /\ list'[k].sequence = l.sequence /\ list'[k].wait = l.wait
        BY <2>2, SetField DEF Inv
    <2>4. thread'.pc = "count" /\ thread'.packet = p /\ thread'.base = l.recv
        BY <1>2, <2>2 DEF ThreadStates
    <2>5. info \in [Entries -> Pairs] /\ info # Null
        <3>1. info \in [Entries -> Pairs]
            BY <1>2, <1>3, <1>5, <2>1, CopiedType
        <3>2. 1 \in Entries
            BY SizeAssumption DEF Entries
        <3> QED
            BY <3>1, <3>2 DEF Null
    <2>6. AtPageOf(k)'
        BY <2>4 DEF AtPageOf
    <2>7. CurrentPages(k)' = CurrentPages(k)
        BY <1>1, <2>3 DEF CurrentPages
    <2>8. ASSUME NEW all \in Seq(Pairs), Placed(k, all)
          PROVE  Placed(k, all)' /\ (Filled(k, all) => Filled(k, all)')
        <3>1. /\ p.page * PerPage \in Nat /\ Len(all) \in Nat /\ AtPlace(k, all) /\ IsPage(p, all)
            BY <1>1, <2>8, PageInNumbers
        <3>2. l.recv = p.page * PerPage /\ l.page = p.page /\ p.sequence = l.sequence
            BY <1>1, <3>1 DEF AtPlace, At
        <3>3. AtPlace(k, all)'
            BY <2>3, <2>4, <2>5, <3>1, <3>2 DEF AtPlace, At
        <3>4. Placed(k, all)'
            BY <2>6, <2>7, <2>8, <3>3 DEF Placed
        <3>5. ASSUME Filled(k, all)
              PROVE  Filled(k, all)'
            <4>1. \A j \in 1..l.recv : info[j] = all[j]
                <5>1. ASSUME NEW j \in 1..l.recv
                      PROVE  info[j] = all[j]
                    <6>1. j \in Entries /\ j \notin l.recv + 1..l.recv + Len(p.items)
                        BY <1>2, <1>3 DEF Entries
                    <6>2. info[j] = l.info[j]
                        BY <2>1, <6>1 DEF Copied
                    <6> QED
                        BY <3>5, <6>2 DEF Filled
                <5> QED
                    BY <5>1
            <4>2. \A j \in 1..Len(p.items) : info[l.recv + j] = all[l.recv + j]
                <5>1. ASSUME NEW j \in 1..Len(p.items)
                      PROVE  info[l.recv + j] = all[l.recv + j]
                    <6>1. PICK i : i = l.recv + j
                        OBVIOUS
                    <6>2. /\ i \in Entries /\ i \in l.recv + 1..l.recv + Len(p.items)
                          /\ i - l.recv = j
                        <7>1. PICK a, b : a = l.recv /\ b = Len(p.items)
                            OBVIOUS
                        <7>2. a \in Nat /\ b \in Nat /\ a + b <= MaxEntries /\ j \in 1..b /\ i = a + j
                            BY <1>2, <1>3, <1>5, <6>1, <7>1
                        <7>3. i \in 1..MaxEntries /\ i \in a + 1..a + b /\ i - a = j
                            BY <1>2, <7>2
                        <7> QED
                            BY <7>1, <7>3 DEF Entries
                    <6>3. info[i] = p.items[j]
                        BY <2>1, <6>2 DEF Copied
                    <6>4. p.items[j] = all[p.page * PerPage + j]
                        BY <3>1 DEF IsPage
                    <6> QED
                        BY <3>2, <6>1, <6>3, <6>4
                <5> QED
                    BY <5>1
            <4>3. l.wait /\ l.recv <= Len(all)
                BY <1>1, <3>5 DEF Filled
            <4> QED
                BY <2>3, <2>4, <2>6, <4>1, <4>2, <4>3 DEF Filled
        <3> QED
            BY <3>4, <3>5
    <2>9. ~Quiet(k)
        BY <1>1 DEF Quiet
    <2>10. ListInv(k)'
        BY <1>1, <2>3, <2>8, <2>9, StepsAtPage
    <2> QED
        BY <2>4, <2>10 DEF PagesFit, At
<1> QED
    BY <1>4, <1>5

\* Its items are counted.
LEMMA CountPageList ==
    ASSUME Inv, CountPage, NEW k \in Kinds, k = thread.packet.kind, ListInv(k)
    PROVE  ListInv(k)'
<1> DEFINE p == thread.packet
           l == list[k]
<1>1. /\ At("count") /\ AtPageOf(k) /\ thread' = [thread EXCEPT !.pc = "advance"]
      /\ UNCHANGED <<app, clean, moments, raced, toServer, toClient>>
    BY DEF CountPage, Goto, At, AtPageOf, network, histories
<1>2. PICK recv \in {l.recv, thread.base} : list' = [list EXCEPT ![k].recv = recv + Len(p.items)]
    BY DEF CountPage
<1>3. /\ list'[k].info = l.info /\ list'[k].recv = recv + Len(p.items) /\ list'[k].page = l.page
      /\ list'[k].sequence = l.sequence /\ list'[k].wait = l.wait
    BY <1>2, SetField DEF Inv
<1>4. thread'.pc = "advance" /\ thread'.packet = p
    BY <1>1, ThreadMoves DEF Inv
<1>5. AtPageOf(k)'
    BY <1>4 DEF AtPageOf
<1>6. CurrentPages(k)' = CurrentPages(k)
    BY <1>1, <1>3 DEF CurrentPages
<1>7. ASSUME NEW all \in Seq(Pairs), Placed(k, all)
      PROVE  Placed(k, all)' /\ (Filled(k, all) => Filled(k, all)')
    <2>1. /\ p.page * PerPage \in Nat /\ Len(p.items) \in Nat /\ Len(all) \in Nat
          /\ AtPlace(k, all) /\ IsPage(p, all)
        BY <1>1, <1>7, PageInNumbers
    <2>2. /\ l.recv = p.page * PerPage /\ thread.base = l.recv /\ l.page = p.page
          /\ p.sequence = l.sequence /\ l.info # Null
        BY <1>1, <2>1 DEF AtPlace, At
    <2>3. list'[k].recv = p.page * PerPage + Len(p.items)
        BY <1>2, <1>3, <2>2
    <2>4. AtPlace(k, all)'
        BY <1>3, <1>4, <2>1, <2>2, <2>3 DEF AtPlace, At
    <2>5. Placed(k, all)'
        BY <1>5, <1>6, <1>7, <2>4 DEF Placed
    <2>6. ASSUME Filled(k, all)
          PROVE  Filled(k, all)'
        <3>1. ASSUME NEW j \in 1..list'[k].recv
              PROVE  l.info[j] = all[j]
            <4>1. CASE j \in 1..l.recv
                BY <2>6, <4>1 DEF Filled
            <4>2. CASE j \notin 1..l.recv
                <5>1. PICK i : i = j - l.recv
                    OBVIOUS
                <5>2. i \in 1..Len(p.items) /\ j = l.recv + i
                    BY <2>1, <2>2, <2>3, <3>1, <4>2, <5>1, SMTT(30)
                <5>3. l.info[l.recv + i] = all[l.recv + i]
                    BY <1>1, <2>6, <5>2 DEF Filled
                <5> QED
                    BY <5>2, <5>3
            <4> QED
                BY <4>1, <4>2
        <3>2. l.wait /\ list'[k].recv <= Len(all)
            BY <1>1, <2>1, <2>3, <2>6 DEF Filled, IsPage
        <3> QED
            BY <1>3, <1>4, <3>1, <3>2 DEF Filled, At
    <2> QED
        BY <2>5, <2>6
<1>8. ~Quiet(k)
    BY <1>1 DEF Quiet
<1> QED
    BY <1>1, <1>3, <1>7, <1>8, StepsAtPage

\* The next page is awaited.  After the last one there is none.
LEMMA AdvancePageList ==
    ASSUME Inv, AdvancePage, NEW k \in Kinds, k = thread.packet.kind, ListInv(k)
    PROVE  ListInv(k)'
<1> DEFINE p == thread.packet
           l == list[k]
<1>1. /\ At("advance") /\ AtPageOf(k)
      /\ IF p.end THEN thread' = [thread EXCEPT !.pc = "release"]
         ELSE thread' = [pc |-> "recv", packet |-> NoPacket, base |-> 0]
      /\ UNCHANGED <<app, clean, moments, raced, toServer, toClient>>
    BY DEF AdvancePage, Goto, Back, At, AtPageOf, network, histories
<1>2. PICK page \in {l.page, p.page} : list' = [list EXCEPT ![k].page = page + 1]
    BY DEF AdvancePage
<1>3. /\ list'[k].info = l.info /\ list'[k].page = page + 1 /\ list'[k].recv = l.recv
      /\ list'[k].sequence = l.sequence /\ list'[k].wait = l.wait
    BY <1>2, SetField DEF Inv
<1>4. CurrentPages(k)' = CurrentPages(k)
    BY <1>1, <1>3 DEF CurrentPages
<1>5. ASSUME NEW all \in Seq(Pairs), Placed(k, all)
      PROVE  Placed(k, all)' /\ (Filled(k, all) => Filled(k, all)')
    <2>1. /\ p.page * PerPage \in Nat /\ Len(p.items) \in Nat /\ Len(all) \in Nat
          /\ AtPlace(k, all) /\ IsPage(p, all) /\ p \in ListPages
        BY <1>1, <1>5, PageInNumbers
    <2>2. /\ l.recv = p.page * PerPage + Len(p.items) /\ l.page = p.page
          /\ p.sequence = l.sequence /\ l.info # Null
        BY <1>1, <2>1 DEF AtPlace, At
    <2>3. list'[k].page = p.page + 1
        BY <1>2, <1>3, <2>2
    <2>4. CASE p.end
        <3>1. thread'.pc = "release" /\ thread'.packet = p
            BY <1>1, <2>4, ThreadMoves DEF Inv
        <3>2. AtPageOf(k)'
            BY <3>1 DEF AtPageOf
        <3>3. AtPlace(k, all)'
            BY <1>3, <2>1, <2>2, <2>3, <2>4, <3>1 DEF AtPlace, At
        <3>4. Placed(k, all)'
            BY <1>4, <1>5, <3>2, <3>3 DEF Placed
        <3>5. Filled(k, all) => Filled(k, all)'
            BY <1>1, <1>3, <3>1 DEF Filled, At
        <3> QED
            BY <3>4, <3>5
    <2>5. CASE ~p.end
        <3>1. thread'.pc = "recv"
            BY <1>1, <2>5
        <3>2. ~(AtPageOf(k)')
            BY <3>1 DEF AtPageOf
        <3>3. l.recv = (p.page + 1) * PerPage
            <4>1. p.page \in Nat
                BY <2>1, PageFields
            <4>2. PerPage \in Nat
                BY SizeAssumption
            <4>3. (p.page + 1) * PerPage = p.page * PerPage + PerPage
                BY <4>1, <4>2
            <4>4. Len(p.items) = PerPage
                BY <2>1, <2>5 DEF IsPage
            <4> QED
                BY <2>2, <4>3, <4>4
        <3>4. \A q \in CurrentPages(k) : IsPage(q, all)
            BY <1>5 DEF Placed
        <3>5. Placed(k, all)'
            BY <1>3, <1>4, <2>3, <3>2, <3>3, <3>4 DEF Placed
        <3>6. Filled(k, all) => Filled(k, all)'
            BY <1>1, <1>3, <3>2 DEF Filled
        <3> QED
            BY <3>5, <3>6
    <2> QED
        BY <2>4, <2>5
<1>6. ~Quiet(k)
    BY <1>1 DEF Quiet
<1> QED
    BY <1>1, <1>3, <1>5, <1>6, StepsAtPage

\* The wait is over: nothing of the list is missing, and no page will come.
LEMMA ReleaseListList ==
    ASSUME Inv, ReleaseList, NEW k \in Kinds, k = thread.packet.kind, ListInv(k)
    PROVE  ListInv(k)'
<1> DEFINE p == thread.packet
           l == list[k]
<1>1. /\ At("release") /\ AtPageOf(k)
      /\ thread' = [pc |-> "recv", packet |-> NoPacket, base |-> 0]
      /\ list' = [list EXCEPT ![k].wait = FALSE]
      /\ UNCHANGED <<app, clean, moments, raced, toServer, toClient>>
    BY DEF ReleaseList, Back, At, AtPageOf, network, histories
<1>2. /\ list'[k].info = l.info /\ list'[k].page = l.page /\ list'[k].recv = l.recv
      /\ list'[k].sequence = l.sequence /\ list'[k].wait = FALSE
    BY <1>1, SetField DEF Inv
<1>3. CurrentPages(k)' = CurrentPages(k)
    BY <1>1, <1>2 DEF CurrentPages
<1>4. thread'.pc = "recv" /\ ~(AtPageOf(k)')
    BY <1>1 DEF AtPageOf
<1>5. ASSUME NEW all \in Seq(Pairs), Placed(k, all)
      PROVE  Placed(k, all)' /\ (Filled(k, all) => Filled(k, all)')
    <2>1. /\ p.page * PerPage \in Nat /\ Len(p.items) \in Nat /\ Len(all) \in Nat
          /\ AtPlace(k, all) /\ IsPage(p, all) /\ p \in ListPages
        BY <1>1, <1>5, PageInNumbers
    <2>2. /\ l.recv = p.page * PerPage + Len(p.items) /\ l.page = p.page + 1 /\ p.end
        BY <1>1, <2>1 DEF AtPlace, At
    <2>3. l.recv = Len(all) /\ Len(all) < l.page * PerPage
        <3>1. p.page \in Nat
            BY <2>1, PageFields
        <3>2. PerPage \in Nat
            BY SizeAssumption
        <3>3. (p.page + 1) * PerPage = p.page * PerPage + PerPage
            BY <3>1, <3>2
        <3>4. p.page * PerPage + Len(p.items) = Len(all) /\ Len(p.items) < PerPage
            BY <2>1, <2>2 DEF IsPage
        <3>5. l.page * PerPage = p.page * PerPage + PerPage
            BY <2>2, <3>3
        <3> QED
            BY <2>1, <2>2, <3>2, <3>4, <3>5
    <2>4. \A q \in CurrentPages(k) : IsPage(q, all) /\ q.page # l.page
        <3>1. ASSUME NEW q \in CurrentPages(k)
              PROVE  IsPage(q, all) /\ q.page # l.page
            <4>1. IsPage(q, all)
                BY <1>5 DEF Placed
            <4>2. q \in ListPages
                <5>1. toClient \in Seq(Answers)
                    BY DEF Inv, TypeOK
                <5>2. q \in Answers /\ q.type = "LIST"
                    BY <5>1, ItemsTyped DEF CurrentPages
                <5> QED
                    BY <5>2, AnswerTypes
            <4>3. Len(q.items) \in Nat /\ q.page \in Nat /\ q.page * PerPage \in Nat
                BY <4>2, PageFields, SizeAssumption
            <4>4. q.page * PerPage + Len(q.items) <= Len(all)
                BY <4>1 DEF IsPage
            <4> QED
                BY <2>1, <2>3, <4>1, <4>3, <4>4
        <3> QED
            BY <3>1
    <2>5. Placed(k, all)'
        BY <1>2, <1>3, <1>4, <2>4 DEF Placed
    <2>6. Filled(k, all) => Filled(k, all)'
        BY <1>2, <1>4, <2>3 DEF Filled
    <2> QED
        BY <2>5, <2>6
<1>6. ~Quiet(k)
    BY <1>1 DEF Quiet
<1> QED
    BY <1>1, <1>2, <1>5, <1>6, StepsAtPage

\* The server answers.
LEMMA ServerReadsList ==
    ASSUME Inv, MomentsNow, ServerReads, NEW k \in Kinds, ListInv(k)
    PROVE  ListInv(k)'
<1>1. /\ toServer # << >> /\ toServer' = Tail(toServer)
      /\ UNCHANGED <<table, thread, app, list, clean, moments, raced>>
    BY DEF ServerReads, histories
<1>2. toServer \in Seq(Packets) /\ list[k].sequence \in 0..Modulus - 1
    BY ListFields DEF Inv, TypeOK
<1>3. /\ Items(Tail(toServer)) \subseteq Items(toServer) /\ Head(toServer) \in Items(toServer)
      /\ AtMostOnce(toServer, Request(k)) =>
            /\ AtMostOnce(Tail(toServer), Request(k))
            /\ Head(toServer) = Request(k) => Request(k) \notin Items(Tail(toServer))
    BY <1>1, <1>2, ItemsOfQueue, OnceInQueue
<1>4. ASSUME NEW q \in CurrentPages(k)'
      PROVE  \/ q \in CurrentPages(k)
             \/ Head(toServer) = Request(k) /\ IsPage(q, Listing(table[k]))
    <2>1. q \in Items(toClient') /\ q.type = "LIST" /\ q.kind = k /\ q.sequence = list[k].sequence
        BY <1>1, <1>4 DEF CurrentPages
    <2> QED
        BY <2>1, ServerReadsPages DEF CurrentPages, Request
<1>5. CASE Head(toServer) # Request(k)
    <2>1. CurrentPages(k)' \subseteq CurrentPages(k)
        BY <1>4, <1>5
    <2>2. Requesting(k)' = Requesting(k)
        BY <1>1 DEF Requesting
    <2> QED
        BY <1>1, <1>3, <2>1, <2>2, OtherStepsList
<1>6. CASE Head(toServer) = Request(k)
    <2> SUFFICES ASSUME Undisturbed(k)' PROVE (Requested(k) /\ Answered(k))'
        BY DEF ListInv
    <2>1. Undisturbed(k)
        BY <1>1 DEF Undisturbed, Requesting
    <2>2. Requested(k) /\ Answered(k)
        BY <2>1 DEF ListInv
    <2>3. Request(k)' = Request(k) /\ Requesting(k)' = Requesting(k)
        BY <1>1 DEF Request, Requesting
    <2>4. Asked(k)
        BY <1>3, <1>6 DEF Asked
    <2>5. ~(Asked(k)')
        BY <1>1, <1>3, <1>6, <2>2, <2>3 DEF Asked, Requested
    <2>6. Quiet(k) /\ Pristine(k)
        BY <2>2, <2>4 DEF Requested
    <2>7. Requesting(k) => app.pc = "wait"
        BY <2>2, <2>4 DEF Requested, Resetting
    <2>8. Requested(k)'
        BY <1>1, <1>3, <2>2, <2>3, <2>5, <2>7 DEF Requested, Resetting
    <2>9. PICK all : all = Listing(table[k])
        OBVIOUS
    <2>10. all \in Seq(Pairs) /\ Len(all) <= MaxEntries /\ Len(all) \in Nat
        <3>1. table[k] \in [Entries -> Values] /\ MaxEntries \in Nat
            BY SizeAssumption DEF Inv, TypeOK, Tables
        <3> QED
            BY <2>9, <3>1, ListingType
    <2>11. \A q \in CurrentPages(k)' : IsPage(q, all)
        BY <1>4, <2>6, <2>9 DEF Quiet
    <2>12. Placed(k, all)'
        <3>1. ~(AtPageOf(k)')
            BY <1>1, <2>6 DEF Quiet, AtPageOf
        <3>2. list'[k].recv = 0 /\ list'[k].page = 0
            BY <1>1, <2>6 DEF Pristine
        <3>3. 0 * PerPage = 0
            BY SizeAssumption
        <3> QED
            BY <2>11, <3>1, <3>2, <3>3 DEF Placed
    <2>13. Answering(k, all)'
        <3> SUFFICES ASSUME Requesting(k), clean, app.pc = "wait"
                     PROVE  Filled(k, all)' /\ \E t \in moments' : all = Listing(t[k])
            BY <1>1, <2>3, <2>5 DEF Answering
        <3>1. list[k].wait
            BY <2>2, <2>4 DEF Answered, Answering
        <3>2. ~(AtPageOf(k)')
            BY <1>1, <2>6 DEF Quiet, AtPageOf
        <3>3. Filled(k, all)'
            BY <1>1, <2>6, <2>10, <3>1, <3>2 DEF Filled, Pristine
        <3>4. table \in moments'
            BY <1>1 DEF MomentsNow
        <3> QED
            BY <2>9, <3>3, <3>4
    <2> QED
        BY <2>8, <2>10, <2>12, <2>13 DEF Answered
<1> QED
    BY <1>5, <1>6

\* While no page can come, any list will do.
LEMMA QuietAnswered ==
    ASSUME NEW k \in Kinds, Quiet(k)',
           (Requesting(k) /\ app.pc = "wait")' => (list[k].wait /\ Pristine(k))'
    PROVE  Answered(k)'
<1>1. << >> \in Seq(Pairs) /\ Len(<< >>) <= MaxEntries
    BY SizeAssumption
<1>2. PICK all \in Seq(Pairs) : Len(all) <= MaxEntries
    BY <1>1
<1>3. Placed(k, all)'
    BY DEF Placed, Quiet
<1>4. Answering(k, all)'
    BY DEF Answering
<1> QED
    BY <1>2, <1>3, <1>4 DEF Answered

\* A buffer is allocated or freed while the thread is elsewhere.
LEMMA BufferSet ==
    ASSUME NEW k \in Kinds, ListInv(k), k \notin raced, ~AtPageOf(k), ~(Requesting(k)'),
           list'[k].recv = list[k].recv, list'[k].page = list[k].page,
           list'[k].sequence = list[k].sequence,
           UNCHANGED <<toServer, toClient, thread>>
    PROVE  ListInv(k)'
<1>1. Requested(k) /\ Answered(k)
    BY DEF ListInv, Undisturbed
<1>2. Request(k)' = Request(k) /\ Asked(k)' = Asked(k)
    BY DEF Request, Asked
<1>3. CurrentPages(k)' = CurrentPages(k) /\ ~(AtPageOf(k)')
    BY DEF CurrentPages, AtPageOf
<1>4. Requested(k)'
    BY <1>1, <1>2, <1>3 DEF Requested, Resetting, Quiet, Pristine
<1>5. PICK all \in Seq(Pairs) : Len(all) <= MaxEntries /\ Placed(k, all)
    BY <1>1 DEF Answered
<1>6. Placed(k, all)'
    BY <1>3, <1>5 DEF Placed
<1>7. Answering(k, all)'
    BY DEF Answering
<1> QED
    BY <1>4, <1>5, <1>6, <1>7 DEF Answered, ListInv

\* A list is asked for: its number is new, or the call does not get that far.
LEMMA RequestListList ==
    ASSUME Inv, NEW m \in Kinds, RequestList(m), NEW k \in Kinds, ListInv(k)
    PROVE  ListInv(k)'
<1>1. PICK pc : pc = IF link = "closed" THEN "done" ELSE "recv"
    OBVIOUS
<1>2. PICK info : info = IF list[m].info = Null THEN [i \in Entries |-> <<i, 0>>] ELSE list[m].info
    OBVIOUS
<1>3. PICK next : next = NextSequence(m)
    OBVIOUS
<1>4. PICK sequence : sequence = IF link = "closed" THEN list[m].sequence ELSE next
    OBVIOUS
<1>5. /\ Begin("list", 0, m, pc)
      /\ list' = [list EXCEPT ![m].info = info, ![m].sequence = sequence]
      /\ UNCHANGED <<toServer, toClient>>
    BY <1>1, <1>2, <1>3, <1>4 DEF RequestList, network
<1>6. /\ clean' => ~AtPageOf(m) /\ \A p \in Outstanding : p.type = "LIST" =>
                                      ~(p.kind = m /\ p.sequence = next)
      /\ raced' = IF clean' THEN raced ELSE raced \cup {m}
    BY <1>3 DEF RequestList
<1>7. pc \in Places
    BY <1>1 DEF Places
<1>8. /\ app'.call = "list" /\ app'.pc = pc /\ app'.kind = m
      /\ UNCHANGED <<table, thread>>
    BY <1>5, <1>7, BeginTypes DEF CallNames
<1>9. /\ list'[m].recv = list[m].recv /\ list'[m].page = list[m].page
      /\ list'[m].wait = list[m].wait /\ list'[m].sequence = sequence
      /\ k # m => list'[k] = list[k]
    <2>1. list \in [Kinds -> Lists]
        BY DEF Inv, TypeOK
    <2> QED
        BY <1>5, <2>1 DEF Lists
<1>10. CASE k # m
    <2>1. ~(Requesting(k)')
        BY <1>8, <1>10 DEF Requesting
    <2>2. CurrentPages(k)' = CurrentPages(k)
        BY <1>5, <1>9, <1>10 DEF CurrentPages
    <2>3. raced \subseteq raced'
        BY <1>6
    <2> QED
        BY <1>5, <1>8, <1>9, <1>10, <2>1, <2>2, <2>3, OtherStepsList
<1>11. CASE k = m /\ ~clean'
    <2>1. k \in raced'
        BY <1>6, <1>11
    <2> QED
        BY <1>11, <2>1 DEF ListInv, Undisturbed
<1>12. CASE k = m /\ clean' /\ link = "closed"
    <2>1. ~(Requesting(k)') /\ raced' = raced /\ ~AtPageOf(k)
        BY <1>1, <1>6, <1>8, <1>12 DEF Requesting
    <2>2. CASE k \in raced
        BY <2>1, <2>2 DEF ListInv, Undisturbed
    <2>3. CASE k \notin raced
        BY <1>4, <1>5, <1>8, <1>9, <1>12, <2>1, <2>3, BufferSet
    <2> QED
        BY <2>2, <2>3
<1>13. CASE k = m /\ clean' /\ link # "closed"
    <2>1. Request(k)' \notin Items(toServer)
        <3>1. ASSUME NEW r, r = Request(k)'
              PROVE  r \notin Items(toServer)
            <4>1. r.type = "LIST" /\ r.kind = m /\ r.sequence = next
                BY <1>4, <1>9, <1>13, <3>1 DEF Request
            <4> QED
                BY <1>6, <1>13, <4>1, OutstandingItems
        <3> QED
            BY <3>1
    <2>2. CurrentPages(k)' = {}
        BY <1>4, <1>5, <1>6, <1>9, <1>13, OutstandingItems DEF CurrentPages
    <2>3. Quiet(k)'
        BY <1>6, <1>8, <1>13, <2>2 DEF Quiet, AtPageOf
    <2>4. ~(Asked(k)')
        BY <1>5, <2>1 DEF Asked
    <2>5. AtMostOnce(toServer, Request(k))'
        BY <1>5, <2>1 DEF AtMostOnce, Items
    <2>6. app'.pc = "recv"
        BY <1>1, <1>8, <1>13
    <2>7. Requested(k)'
        BY <2>3, <2>4, <2>5, <2>6 DEF Requested, Resetting
    <2>8. Answered(k)'
        BY <2>3, <2>6, QuietAnswered
    <2> QED
        BY <2>7, <2>8 DEF ListInv
<1> QED
    BY <1>10, <1>11, <1>12, <1>13

\* A list is freed.
LEMMA FreeListList ==
    ASSUME Inv, NEW m \in Kinds, FreeList(m), NEW k \in Kinds, ListInv(k)
    PROVE  ListInv(k)'
<1>1. /\ Begin("free", 0, m, "done")
      /\ list' = [list EXCEPT ![m].info = Null]
      /\ raced' = IF AtPageOf(m) THEN raced \cup {m} ELSE raced
      /\ UNCHANGED <<toServer, toClient, clean>>
    BY DEF FreeList, network
<1>2. app'.pc = "done" /\ UNCHANGED <<table, thread>>
    BY <1>1, BeginTypes DEF CallNames, Places
<1>3. /\ list'[m].recv = list[m].recv /\ list'[m].page = list[m].page
      /\ list'[m].sequence = list[m].sequence
      /\ k # m => list'[k] = list[k]
    BY <1>1, SetField DEF Inv
<1>4. ~(Requesting(k)') /\ raced \subseteq raced'
    BY <1>1, <1>2 DEF Requesting
<1>5. CASE k # m
    <2>1. CurrentPages(k)' = CurrentPages(k)
        BY <1>1, <1>3, <1>5 DEF CurrentPages
    <2> QED
        BY <1>1, <1>2, <1>3, <1>4, <1>5, <2>1, OtherStepsList
<1>6. CASE k = m /\ (AtPageOf(m) \/ k \in raced)
    BY <1>1, <1>4, <1>6 DEF ListInv, Undisturbed
<1>7. CASE k = m /\ ~AtPageOf(m) /\ k \notin raced
    BY <1>1, <1>2, <1>3, <1>4, <1>7, BufferSet
<1> QED
    BY <1>5, <1>6, <1>7

\* A call that has not sent its request yet goes on.
LEMMA PreparingList ==
    ASSUME Inv, app.call = "list", app.pc \in {"recv", "page", "ask"},
           NEW pc \in {"page", "ask", "wait"}, app' = [app EXCEPT !.pc = pc],
           UNCHANGED <<toClient, thread, clean, moments, raced>>,
           list'[app.kind].sequence = list[app.kind].sequence,
           \A m \in Kinds \ {app.kind} : list'[m] = list[m],
           \/ UNCHANGED toServer
           \/ pc = "wait" /\ toServer' = Append(toServer, Request(app.kind)),
           (app.pc # "recv" => list[app.kind].recv = 0) => list'[app.kind].recv = 0,
           pc # "page" /\ (app.pc = "ask" => list[app.kind].page = 0) => list'[app.kind].page = 0,
           pc = "wait" => list'[app.kind].wait = TRUE,
           NEW k \in Kinds, ListInv(k)
    PROVE  ListInv(k)'
<1>1. app'.call = app.call /\ app'.kind = app.kind /\ app'.pc = pc
    <2>1. pc \in Places
        BY DEF Places
    <2> QED
        BY <2>1, AppMoves
<1>2. PICK m : m = app.kind
    OBVIOUS
<1>3. m \in Kinds /\ toServer \in Seq(Packets) /\ list[m].sequence \in 0..Modulus - 1
    <2>1. m \in Kinds
        BY <1>2 DEF Inv, Control
    <2> QED
        BY <2>1, ListFields DEF Inv, TypeOK
<1>4. Request(m) \in Packets
    BY <1>3 DEF Request, Packets
<1>5. CASE k # m
    <2>1. ~Requesting(k) /\ ~(Requesting(k)')
        BY <1>1, <1>2, <1>5 DEF Requesting
    <2>2. list'[k] = list[k]
        BY <1>2, <1>5
    <2>3. CurrentPages(k)' = CurrentPages(k)
        BY <2>2 DEF CurrentPages
    <2>4. Request(m) # Request(k)
        BY <1>5 DEF Request
    <2>5. /\ Request(k) \in Items(toServer') => Request(k) \in Items(toServer)
          /\ AtMostOnce(toServer, Request(k)) => AtMostOnce(toServer', Request(k))
        <3>1. CASE UNCHANGED toServer
            BY <3>1
        <3>2. CASE toServer' = Append(toServer, Request(m))
            BY <1>3, <1>4, <2>4, <3>2, ItemsOfQueue, OnceInQueue
        <3> QED
            BY <1>2, <3>1, <3>2
    <2> QED
        BY <2>1, <2>2, <2>3, <2>5, OtherStepsList
<1>6. CASE k = m
    <2> SUFFICES ASSUME Undisturbed(k)' PROVE (Requested(k) /\ Answered(k))'
        BY DEF ListInv
    <2>1. Requesting(k) /\ Requesting(k)'
        BY <1>1, <1>2, <1>6 DEF Requesting
    <2>2. Undisturbed(k)
        BY <2>1 DEF Undisturbed
    <2>3. Requested(k) /\ app.pc # "wait"
        BY <2>2 DEF ListInv
    <2>4. /\ ~Asked(k) /\ Quiet(k)
          /\ app.pc # "recv" => list[k].recv = 0
          /\ app.pc = "ask" => list[k].page = 0
        BY <2>1, <2>3 DEF Requested, Resetting
    <2>5. list'[k].recv = 0 /\ (pc # "page" => list'[k].page = 0)
        BY <1>2, <1>6, <2>4
    <2>6. Request(k)' = Request(k)
        BY <1>2, <1>6 DEF Request
    <2>7. CurrentPages(k)' = CurrentPages(k)
        BY <1>2, <1>6 DEF CurrentPages
    <2>8. Quiet(k)'
        BY <2>4, <2>7 DEF Quiet, AtPageOf
    <2>9. AtMostOnce(toServer', Request(k)) /\ (pc # "wait" => ~(Asked(k)'))
        <3>1. CASE UNCHANGED toServer
            BY <2>3, <2>4, <2>6, <3>1 DEF Requested, Asked
        <3>2. CASE pc = "wait" /\ toServer' = Append(toServer, Request(k))
            BY <1>3, <1>4, <1>6, <2>4, <3>2, OnceInQueue DEF Asked
        <3> QED
            BY <1>2, <1>6, <3>1, <3>2
    <2>10. pc = "wait" => Pristine(k)'
        BY <2>5 DEF Pristine
    <2>11. Requested(k)'
        <3>1. Resetting(k)'
            BY <1>1, <2>5, <2>8, <2>9 DEF Resetting
        <3>2. Asked(k)' => pc = "wait"
            BY <2>9
        <3> QED
            BY <2>6, <2>8, <2>9, <2>10, <3>1, <3>2 DEF Requested
    <2>12. Answered(k)'
        BY <1>1, <1>2, <1>6, <2>8, <2>10, QuietAnswered
    <2> QED
        BY <2>11, <2>12
<1> QED
    BY <1>5, <1>6

\* recv, wait_packet and wait are set and the request is sent.
LEMMA AskingList ==
    ASSUME Inv, ResetRecv \/ ResetPage \/ ListAsk, NEW k \in Kinds, ListInv(k)
    PROVE  ListInv(k)'
<1>1. app.kind \in Kinds
    BY DEF Inv, Control, ResetRecv, ResetPage, ListAsk
<1>2. CASE ResetRecv
    <2>1. /\ app.call = "list" /\ app.pc = "recv" /\ app' = [app EXCEPT !.pc = "page"]
          /\ list' = [list EXCEPT ![app.kind].recv = 0]
          /\ UNCHANGED <<toServer, toClient, thread, clean, moments, raced>>
        BY <1>2 DEF ResetRecv, Step, network, histories
    <2>2. /\ list'[app.kind].sequence = list[app.kind].sequence /\ list'[app.kind].recv = 0
          /\ \A m \in Kinds \ {app.kind} : list'[m] = list[m]
        BY <1>1, <2>1, SetField DEF Inv
    <2> QED
        BY <2>1, <2>2, PreparingList
<1>3. CASE ResetPage
    <2>1. /\ app.call = "list" /\ app.pc = "page" /\ app' = [app EXCEPT !.pc = "ask"]
          /\ list' = [list EXCEPT ![app.kind].page = 0]
          /\ UNCHANGED <<toServer, toClient, thread, clean, moments, raced>>
        BY <1>3 DEF ResetPage, Step, network, histories
    <2>2. /\ list'[app.kind].sequence = list[app.kind].sequence /\ list'[app.kind].page = 0
          /\ list'[app.kind].recv = list[app.kind].recv
          /\ \A m \in Kinds \ {app.kind} : list'[m] = list[m]
        BY <1>1, <2>1, SetField DEF Inv
    <2> QED
        BY <2>1, <2>2, PreparingList
<1>4. CASE ListAsk
    <2>1. /\ app.call = "list" /\ app.pc = "ask" /\ app' = [app EXCEPT !.pc = "wait"]
          /\ list' = [list EXCEPT ![app.kind].wait = TRUE]
          /\ UNCHANGED toServer \/ toServer' = Append(toServer, Request(app.kind))
          /\ UNCHANGED <<toClient, thread, clean, moments, raced>>
        BY <1>4 DEF ListAsk, Step, Send, Request, histories
    <2>2. /\ list'[app.kind].sequence = list[app.kind].sequence /\ list'[app.kind].page = list[app.kind].page
          /\ list'[app.kind].recv = list[app.kind].recv /\ list'[app.kind].wait = TRUE
          /\ \A m \in Kinds \ {app.kind} : list'[m] = list[m]
        <3>1. PICK m : m = app.kind
            OBVIOUS
        <3>2. m \in Kinds /\ list' = [list EXCEPT ![m].wait = TRUE]
            BY <1>1, <2>1, <3>1
        <3>3. /\ list'[m].wait = TRUE /\ list'[m].recv = list[m].recv /\ list'[m].page = list[m].page
              /\ list'[m].sequence = list[m].sequence
              /\ \A n \in Kinds \ {m} : list'[n] = list[n]
            BY <3>2, SetField DEF Inv
        <3> QED
            BY <3>1, <3>3, Zenon
    <2> QED
        BY <2>1, <2>2, PreparingList
<1> QED
    BY <1>2, <1>3, <1>4

\* The call returns the list of a moment.
LEMMA ListReturnMoment ==
    ASSUME Inv, ListReturn, \A k \in Kinds : ListInv(k)
    PROVE  ListOfOneMoment'
<1>1. PICK k : k = app.kind
    OBVIOUS
<1>2. PICK answer : answer = SubSeq(list[k].info, 1, list[k].recv)
    OBVIOUS
<1>3. /\ app.call = "list" /\ app.pc = "wait" /\ ~list[k].wait
      /\ app' = [app EXCEPT !.pc = "done", !.ok = TRUE, !.answer = answer]
      /\ UNCHANGED <<clean, moments>>
    BY <1>1, <1>2 DEF ListReturn, Return, histories
<1>4. k \in Kinds
    BY <1>1, <1>3 DEF Inv, Control
<1>5. app'.kind = k /\ app'.answer = answer
    <2>1. app \in AppStates
        BY DEF Inv, TypeOK
    <2> QED
        BY <1>1, <1>3, <2>1 DEF AppStates
<1> SUFFICES ASSUME clean PROVE \E t \in moments : answer = Listing(t[k])
    BY <1>3, <1>5 DEF ListOfOneMoment
<1>6. Requesting(k)
    BY <1>1, <1>3 DEF Requesting
<1>7. Answered(k)
    BY <1>4, <1>6 DEF ListInv, Undisturbed
<1>8. PICK all \in Seq(Pairs) : Len(all) <= MaxEntries /\ Placed(k, all) /\ Answering(k, all)
    BY <1>7 DEF Answered
<1>9. Filled(k, all) /\ \E t \in moments : all = Listing(t[k])
    BY <1>3, <1>6, <1>8 DEF Answering
<1>10. list[k].recv = Len(all) /\ \A j \in 1..Len(all) : list[k].info[j] = all[j]
    BY <1>3, <1>9 DEF Filled
<1>11. answer = all
    <2>1. PICK info : info = list[k].info
        OBVIOUS
    <2>2. info \in [Entries -> Pairs]
        <3>1. list[k].info \in {Null} \cup [Entries -> Pairs]
            BY <1>4, ListFields DEF Inv
        <3>2. list[k].info # Null
            BY <1>1, <1>3 DEF Inv, Control
        <3> QED
            BY <2>1, <3>1, <3>2
    <2>3. MaxEntries \in Nat /\ Len(all) \in Nat
        BY SizeAssumption
    <2>4. info \in Seq(Pairs) /\ Len(info) = MaxEntries
        BY <2>2, <2>3 DEF Entries
    <2>5. 1 \in 1..Len(info) + 1 /\ Len(all) \in 1 - 1..Len(info) /\ Len(all) - 1 + 1 = Len(all)
        BY <1>8, <2>3, <2>4
    <2>6. PICK n : n = Len(all)
        OBVIOUS
    <2>7. /\ SubSeq(info, 1, n) \in Seq(Pairs) /\ Len(SubSeq(info, 1, n)) = n - 1 + 1
          /\ \A j \in 1..n - 1 + 1 : SubSeq(info, 1, n)[j] = info[1 + j - 1]
        BY <2>4, <2>5, <2>6, Part
    <2>8. answer = SubSeq(info, 1, n)
        BY <1>2, <1>10, <2>1, <2>6
    <2>9. n \in Nat /\ n - 1 + 1 = n /\ \A j \in 1..n : 1 + j - 1 = j
        BY <2>3, <2>6
    <2>10. answer \in Seq(Pairs) /\ Len(answer) = n
        BY <2>7, <2>8, <2>9
    <2>11. \A j \in 1..n : answer[j] = info[j]
        BY <2>7, <2>8, <2>9
    <2>12. \A j \in 1..n : answer[j] = all[j]
        BY <1>10, <2>1, <2>6, <2>11
    <2> QED
        BY <2>6, <2>10, <2>12
<1> QED
    BY <1>9, <1>11

\* A request for something else is sent, or the connection breaks.
LEMMA OtherRequests ==
    ASSUME Inv, NEW k \in Kinds, NEW p \in Packets, p.type # "LIST",
           toServer' \in {toServer, << >>, Append(toServer, p)}
    PROVE  /\ Request(k) \in Items(toServer') => Request(k) \in Items(toServer)
           /\ AtMostOnce(toServer, Request(k)) => AtMostOnce(toServer', Request(k))
<1>1. toServer \in Seq(Packets) /\ p # Request(k)
    BY DEF Inv, TypeOK, Request
<1>2. /\ Items(Append(toServer, p)) = Items(toServer) \cup {p} /\ Items(<< >>) = {}
      /\ AtMostOnce(<< >>, Request(k))
      /\ AtMostOnce(toServer, Request(k)) => AtMostOnce(Append(toServer, p), Request(k))
    BY <1>1, ItemsOfQueue, OnceInQueue
<1>3. CASE toServer' = toServer
    BY <1>3
<1>4. CASE toServer' = << >>
    BY <1>2, <1>4
<1>5. CASE toServer' = Append(toServer, p)
    BY <1>1, <1>2, <1>5
<1> QED
    BY <1>3, <1>4, <1>5

\* A step of the thread that has nothing to do with list k.
LEMMA ThreadElsewhere ==
    ASSUME Inv, Thread, NEW k \in Kinds, ListInv(k), list'[k] = list[k],
           UNCHANGED thread \/ (~AtPageOf(k) /\ ~(AtPageOf(k)'))
    PROVE  ListInv(k)'
<1>1. UNCHANGED <<app, moments, raced, toServer>>
    BY DEF Thread, Reconnect, ReceiveRead, ReceiveTicket, StoreEvent, Notify, ReceivePage,
       CopyPage, CountPage, AdvancePage, ReleaseList, Receive, network, histories
<1>2. app.call # "read" => clean' = clean
    <2>1. clean \in BOOLEAN
        BY DEF Inv, TypeOK
    <2> QED
        BY <2>1 DEF Thread, Reconnect, ReceiveRead, ReceiveTicket, StoreEvent, Notify, ReceivePage,
           CopyPage, CountPage, AdvancePage, ReleaseList, histories
<1>3. CurrentPages(k)' \subseteq CurrentPages(k)
    <2>1. toClient' = toClient \/ (toClient # << >> /\ toClient' = Tail(toClient))
        BY DEF Thread, Reconnect, ReceiveRead, ReceiveTicket, StoreEvent, Notify, ReceivePage,
           CopyPage, CountPage, AdvancePage, ReleaseList, Receive, network
    <2>2. toClient \in Seq(Answers)
        BY DEF Inv, TypeOK
    <2>3. Items(toClient') \subseteq Items(toClient)
        BY <2>1, <2>2, ItemsOfQueue
    <2> QED
        BY <2>3 DEF CurrentPages
<1>4. Requesting(k)' => Requesting(k) /\ app.call # "read"
    BY <1>1 DEF Requesting
<1> QED
    BY <1>1, <1>2, <1>3, <1>4, OtherStepsList

\* The steps of the thread.
LEMMA ThreadList ==
    ASSUME Inv, Thread, NEW k \in Kinds, ListInv(k)
    PROVE  ListInv(k)'
<1>1. CASE Reconnect \/ ReceiveRead \/ ReceiveTicket
    <2>1. UNCHANGED <<thread, list>>
        BY <1>1 DEF Reconnect, ReceiveRead, ReceiveTicket
    <2> QED
        BY <2>1, ThreadElsewhere
<1>2. CASE StoreEvent \/ Notify
    <2>1. /\ UNCHANGED list
          /\ At("recv") \/ At("notify")
          /\ \/ thread' = [thread EXCEPT !.pc = "notify"]
             \/ thread' = [pc |-> "recv", packet |-> NoPacket, base |-> 0]
        BY <1>2 DEF StoreEvent, Notify, Goto, Back, Receive
    <2>2. thread'.pc \in {"recv", "notify"}
        <3>1. thread \in ThreadStates
            BY DEF Inv, TypeOK
        <3> QED
            BY <2>1, <3>1 DEF ThreadStates
    <2>3. ~AtPageOf(k) /\ ~(AtPageOf(k)')
        BY <2>1, <2>2 DEF AtPageOf, At
    <2> QED
        BY <2>1, <2>3, ThreadElsewhere
<1>3. CASE ReceivePage
    <2>1. /\ At("recv") /\ UNCHANGED list
          /\ IF Awaited(Head(toClient))
             THEN thread' = [thread EXCEPT !.pc = "copy", !.packet = Head(toClient)]
             ELSE UNCHANGED thread
        BY <1>3 DEF ReceivePage, Receive
    <2>2. CASE ~Awaited(Head(toClient))
        BY <2>1, <2>2, ThreadElsewhere
    <2>3. CASE Awaited(Head(toClient)) /\ k = Head(toClient).kind
        BY <1>3, <2>3, ReceivePageList
    <2>4. CASE Awaited(Head(toClient)) /\ k # Head(toClient).kind
        <3>1. thread \in ThreadStates
            BY DEF Inv, TypeOK
        <3>2. thread'.packet = Head(toClient)
            BY <2>1, <2>4, <3>1 DEF ThreadStates
        <3>3. ~AtPageOf(k) /\ ~(AtPageOf(k)')
            BY <2>1, <2>4, <3>2 DEF AtPageOf, At
        <3> QED
            BY <2>1, <3>3, ThreadElsewhere
    <2> QED
        BY <2>2, <2>3, <2>4
<1>4. CASE CopyPage \/ CountPage \/ AdvancePage \/ ReleaseList
    <2>1. CASE k = thread.packet.kind
        BY <1>4, <2>1, CopyPageList, CountPageList, AdvancePageList, ReleaseListList
    <2>2. CASE k # thread.packet.kind
        <3>1. PICK m : m = thread.packet.kind
            OBVIOUS
        <3>2. m \in Kinds
            BY <1>4, <3>1, PageAt DEF CopyPage, CountPage, AdvancePage, ReleaseList, At, Inv
        <3>3. \/ UNCHANGED list
              \/ \E x : \/ list' = [list EXCEPT ![m].info = x]
                        \/ list' = [list EXCEPT ![m].recv = x]
                        \/ list' = [list EXCEPT ![m].page = x]
                        \/ list' = [list EXCEPT ![m].wait = x]
            BY <1>4, <3>1 DEF CopyPage, CountPage, AdvancePage, ReleaseList
        <3>4. list'[k] = list[k]
            <4>1. k \in Kinds \ {m}
                BY <2>2, <3>1
            <4>2. list \in [Kinds -> Lists]
                BY DEF Inv, TypeOK
            <4> QED
                BY <3>2, <3>3, <4>1, <4>2
        <3>5. thread'.packet = thread.packet \/ thread'.pc = "recv"
            <4>1. thread \in ThreadStates
                BY DEF Inv, TypeOK
            <4>2. CASE CopyPage
                <5>1. \/ thread' = [thread EXCEPT !.pc = "dead"]
                      \/ thread' = [thread EXCEPT !.pc = "count", !.base = list[thread.packet.kind].recv]
                    BY <4>2 DEF CopyPage, Goto
                <5> QED
                    BY <4>1, <5>1 DEF ThreadStates
            <4>3. CASE CountPage \/ AdvancePage \/ ReleaseList
                <5>1. \/ thread' = [thread EXCEPT !.pc = "advance"]
                      \/ thread' = [thread EXCEPT !.pc = "release"]
                      \/ thread' = [pc |-> "recv", packet |-> NoPacket, base |-> 0]
                    BY <4>3 DEF CountPage, AdvancePage, ReleaseList, Goto, Back
                <5> QED
                    BY <4>1, <5>1 DEF ThreadStates
            <4> QED
                BY <1>4, <4>2, <4>3
        <3>6. ~AtPageOf(k) /\ ~(AtPageOf(k)')
            BY <2>2, <3>5 DEF AtPageOf
        <3> QED
            BY <3>4, <3>6, ThreadElsewhere
    <2> QED
        BY <2>1, <2>2
<1> QED
    BY <1>1, <1>2, <1>3, <1>4 DEF Thread

\* The calls that begin.
LEMMA AppCallsList ==
    ASSUME Inv, AppCalls, NEW k \in Kinds, ListInv(k)
    PROVE  ListInv(k)'
<1>1. CASE \E m \in Kinds : RequestList(m)
    BY <1>1, RequestListList
<1>2. CASE \E m \in Kinds : FreeList(m)
    BY <1>2, FreeListList
<1>3. CASE (\E e \in Entries : Read(e)) \/ ChannelRequest \/ WaitEvent
    <2>1. UNCHANGED <<list, toClient, raced>>
        BY <1>3 DEF Read, ChannelRequest, WaitEvent, Send, network
    <2>2. UNCHANGED thread /\ app'.call # "list"
        <3>1. CASE \E e \in Entries : Read(e)
            <4>1. PICK e \in Entries : Read(e)
                BY <3>1
            <4>2. PICK pc : pc = IF link = "closed" THEN "done" ELSE "ask"
                OBVIOUS
            <4>3. pc \in Places /\ Begin("read", e, "none", pc)
                BY <4>1, <4>2 DEF Places, Read
            <4> QED
                BY <4>3, BeginTypes DEF CallNames
        <3>2. CASE ChannelRequest
            <4>1. Begin("ticket", 0, "none", "done")
                BY <3>2 DEF ChannelRequest
            <4> QED
                BY <4>1, BeginTypes DEF CallNames, Places
        <3>3. CASE WaitEvent
            <4>1. PICK pc : pc = IF queue = 0 THEN "wait" ELSE "take"
                OBVIOUS
            <4>2. pc \in Places /\ queue \in Entries \cup {0} /\ Begin("wait", queue, "none", pc)
                BY <3>3, <4>1, CallAssumption DEF Places, Inv, TypeOK, WaitEvent
            <4> QED
                BY <4>2, BeginTypes DEF CallNames
        <3> QED
            BY <1>3, <3>1, <3>2, <3>3
    <2>3. ~(Requesting(k)') /\ CurrentPages(k)' = CurrentPages(k)
        BY <2>1, <2>2 DEF Requesting, CurrentPages
    <2>4. PICK p : p = [type |-> "TICKET"]
        OBVIOUS
    <2>5. p \in Packets /\ p.type # "LIST"
        BY <2>4 DEF Packets
    <2>6. toServer' \in {toServer, << >>, Append(toServer, p)}
        BY <1>3, <2>4 DEF Read, ChannelRequest, WaitEvent, Send, network
    <2>7. /\ Request(k) \in Items(toServer') => Request(k) \in Items(toServer)
          /\ AtMostOnce(toServer, Request(k)) => AtMostOnce(toServer', Request(k))
        BY <2>5, <2>6, OtherRequests
    <2> QED
        BY <2>1, <2>2, <2>3, <2>7, OtherStepsList
<1> QED
    BY <1>1, <1>2, <1>3 DEF AppCalls

\* The steps of the calls.
LEMMA AppStepsList ==
    ASSUME Inv, AppSteps \/ TimeOut, NEW k \in Kinds, ListInv(k)
    PROVE  ListInv(k)'
<1>1. CASE ResetRecv \/ ResetPage \/ ListAsk
    BY <1>1, AskingList
<1>2. CASE ReadAsk \/ ReadReturn \/ ListReturn \/ WaitReturn \/ TakeEvent \/ ResetWait \/ TimeOut
    <2>1. UNCHANGED <<list, toClient, thread, raced, clean, moments>>
        BY <1>2 DEF ReadAsk, ReadReturn, ListReturn, WaitReturn, TakeEvent, ResetWait, TimeOut,
           Send, network, histories
    <2>2. app'.pc = "done" \/ (app.call # "list" /\ app'.call = app.call)
        <3>1. app \in AppStates
            BY DEF Inv, TypeOK
        <3>2. CASE ReadReturn \/ ListReturn \/ ResetWait \/ TimeOut
            <4>1. \/ app' = [app EXCEPT !.pc = "done"]
                  \/ \E answer : app' = [app EXCEPT !.pc = "done", !.ok = TRUE, !.answer = answer]
                BY <3>2 DEF ReadReturn, ListReturn, ResetWait, TimeOut, Return, Fail
            <4> QED
                BY <3>1, <4>1 DEF AppStates
        <3>3. CASE ReadAsk \/ WaitReturn \/ TakeEvent
            <4>1. /\ app.call # "list"
                  /\ \/ \E pc : app' = [app EXCEPT !.pc = pc]
                     \/ \E pc, of : app' = [app EXCEPT !.pc = pc, !.of = of]
                     \/ \E pc, answer : app' = [app EXCEPT !.pc = pc, !.answer = answer]
                BY <3>3, ZenonT(40) DEF ReadAsk, WaitReturn, TakeEvent, Step, Fail
            <4> QED
                BY <3>1, <4>1 DEF AppStates
        <3> QED
            BY <1>2, <3>2, <3>3
    <2>3. ~(Requesting(k)') /\ CurrentPages(k)' = CurrentPages(k)
        BY <2>1, <2>2 DEF Requesting, CurrentPages
    <2>4. /\ Request(k) \in Items(toServer') => Request(k) \in Items(toServer)
          /\ AtMostOnce(toServer, Request(k)) => AtMostOnce(toServer', Request(k))
        <3>1. CASE ReadAsk
            <4>1. PICK p : p = [type |-> "READ", id |-> app.of]
                OBVIOUS
            <4>2. p \in Packets /\ p.type # "LIST"
                BY <3>1, <4>1 DEF Packets, ReadAsk, Inv, Control
            <4>3. toServer' \in {toServer, << >>, Append(toServer, p)}
                BY <3>1, <4>1 DEF ReadAsk, Send
            <4> QED
                BY <4>2, <4>3, OtherRequests
        <3>2. CASE ~ReadAsk
            <4>1. UNCHANGED toServer
                BY <1>2, <3>2 DEF ReadReturn, ListReturn, WaitReturn, TakeEvent, ResetWait, TimeOut, network
            <4> QED
                BY <4>1
        <3> QED
            BY <3>1, <3>2
    <2> QED
        BY <2>1, <2>3, <2>4, OtherStepsList
<1> QED
    BY <1>1, <1>2 DEF AppSteps

\* Every step keeps the invariant of a list.
LEMMA NextList ==
    ASSUME Inv, ReadingInv, Next, NEW k \in Kinds, ListInv(k)
    PROVE  ListInv(k)'
<1>1. CASE Thread
    BY <1>1, ThreadList
<1>2. CASE AppCalls
    BY <1>2, AppCallsList
<1>3. CASE AppSteps \/ TimeOut
    BY <1>3, AppStepsList
<1>4. CASE ServerReads
    BY <1>4, ServerReadsList DEF ReadingInv
<1>5. CASE Break
    <2>1. /\ UNCHANGED <<list, thread, app, clean, moments, raced>>
          /\ toServer' = << >> /\ toClient' \in {toClient, << >>}
        BY <1>5 DEF Break, histories
    <2>2. /\ Request(k) \in Items(toServer') => Request(k) \in Items(toServer)
          /\ AtMostOnce(toServer, Request(k)) => AtMostOnce(toServer', Request(k))
        BY <2>1 DEF Items, AtMostOnce
    <2>3. CurrentPages(k)' \subseteq CurrentPages(k)
        <3>1. Items(<< >>) = {}
            BY DEF Items
        <3> QED
            BY <2>1, <3>1 DEF CurrentPages
    <2>4. Requesting(k)' = Requesting(k)
        BY <2>1 DEF Requesting
    <2> QED
        BY <2>1, <2>2, <2>3, <2>4, OtherStepsList
<1>6. CASE \E m \in Kinds, e \in Entries, v \in Values : Change(m, e, v)
    <2>1. PICK m \in Kinds, e \in Entries, v \in Values : Change(m, e, v)
        BY <1>6
    <2>2. /\ UNCHANGED <<list, thread, app, clean, raced, toServer>>
          /\ moments \subseteq moments'
        BY <2>1 DEF Change
    <2>3. CurrentPages(k)' \subseteq CurrentPages(k)
        <3>1. PICK r : r = [type |-> "EVENT", id |-> e, value |-> v]
            OBVIOUS
        <3>2. toClient' = toClient \/ (e \in Synced /\ toClient' = Append(toClient, r))
            BY <2>1, <3>1 DEF Change
        <3>3. toClient \in Seq(Answers) /\ r.type = "EVENT"
            BY <3>1 DEF Inv, TypeOK
        <3>4. ASSUME e \in Synced
              PROVE  Items(Append(toClient, r)) = Items(toClient) \cup {r}
            <4>1. r \in Answers
                BY <3>1, <3>4 DEF Answers
            <4> QED
                BY <3>3, <4>1, ItemsOfQueue
        <3> QED
            BY <2>2, <3>2, <3>3, <3>4 DEF CurrentPages
    <2>4. Requesting(k)' = Requesting(k)
        BY <2>2 DEF Requesting
    <2> QED
        BY <2>2, <2>3, <2>4, OtherStepsList
<1> QED
    BY <1>1, <1>2, <1>3, <1>4, <1>5, <1>6 DEF Next

\* A thread that fails at a page fails at one of a list that was disturbed.
LEMMA NextFits ==
    ASSUME Inv, ReadingInv, Next, PagesFit, \A k \in Kinds : ListInv(k)
    PROVE  PagesFit'
<1>1. CASE CopyPage
    <2>1. thread.packet.kind \in Kinds
        BY <1>1, PageAt DEF CopyPage, At, Inv
    <2> QED
        BY <1>1, <2>1, CopyPageList
<1>2. CASE ~CopyPage
    <2>1. thread \in ThreadStates /\ ~At("dead")
        BY DEF Inv, TypeOK, Next
    <2>2. \/ UNCHANGED thread
          \/ \E pc \in {"notify", "advance", "release"} : thread' = [thread EXCEPT !.pc = pc]
          \/ thread' = [thread EXCEPT !.pc = "copy", !.packet = Head(toClient)]
          \/ thread' = [pc |-> "recv", packet |-> NoPacket, base |-> 0]
        <3>1. CASE Thread
            BY <1>2, <3>1 DEF Thread, Reconnect, ReceiveRead, ReceiveTicket, StoreEvent, Notify,
               ReceivePage, CountPage, AdvancePage, ReleaseList, Goto, Back
        <3>2. CASE AppCalls
            BY <3>2 DEF AppCalls, Read, RequestList, FreeList, ChannelRequest, WaitEvent, Begin
        <3>3. CASE AppSteps \/ TimeOut
            BY <3>3 DEF AppSteps, ReadAsk, ReadReturn, ResetRecv, ResetPage, ListAsk, ListReturn,
               WaitReturn, TakeEvent, ResetWait, TimeOut
        <3>4. CASE ServerReads \/ Break \/ \E k \in Kinds, e \in Entries, v \in Values : Change(k, e, v)
            BY <3>4 DEF ServerReads, Break, Change
        <3> QED
            BY <3>1, <3>2, <3>3, <3>4 DEF Next
    <2>3. thread'.pc # "dead"
        <3>1. CASE UNCHANGED thread
            BY <2>1, <3>1 DEF At
        <3>2. CASE \E pc \in {"notify", "advance", "release"} : thread' = [thread EXCEPT !.pc = pc]
            BY <2>1, <3>2 DEF ThreadStates
        <3>3. CASE thread' = [thread EXCEPT !.pc = "copy", !.packet = Head(toClient)]
            BY <2>1, <3>3 DEF ThreadStates
        <3>4. CASE thread' = [pc |-> "recv", packet |-> NoPacket, base |-> 0]
            BY <3>4
        <3> QED
            BY <2>2, <3>1, <3>2, <3>3, <3>4
    <2> QED
        BY <2>3 DEF PagesFit, At
<1> QED
    BY <1>1, <1>2

\* A list that was returned stays the list of a moment of its call.
LEMMA NextMoment ==
    ASSUME Inv, ReadingInv, Next, ListOfOneMoment, \A k \in Kinds : ListInv(k)
    PROVE  ListOfOneMoment'
<1>1. CASE ListReturn
    BY <1>1, ListReturnMoment
<1>2. CASE Thread
    <2>1. UNCHANGED <<app, moments>>
        BY <1>2 DEF Thread, Reconnect, ReceiveRead, ReceiveTicket, StoreEvent, Notify, ReceivePage,
           CopyPage, CountPage, AdvancePage, ReleaseList, Receive, histories
    <2>2. clean' => clean
        BY <1>2 DEF Thread, Reconnect, ReceiveRead, ReceiveTicket, StoreEvent, Notify, ReceivePage,
           CopyPage, CountPage, AdvancePage, ReleaseList, histories
    <2> QED
        BY <2>1, <2>2 DEF ListOfOneMoment
<1>3. CASE AppCalls
    <2>1. app'.ok = FALSE
        <3>1. PICK call, of, kind, pc : Begin(call, of, kind, pc)
            BY <1>3 DEF AppCalls, Read, RequestList, FreeList, ChannelRequest, WaitEvent
        <3>2. app \in AppStates
            BY DEF Inv, TypeOK
        <3> QED
            BY <3>1, <3>2 DEF Begin, AppStates
    <2> QED
        BY <2>1 DEF ListOfOneMoment
<1>4. CASE ReadAsk \/ ReadReturn \/ WaitReturn \/ TakeEvent \/ ResetWait
    <2>1. app \in AppStates
        BY DEF Inv, TypeOK
    <2>2. app.call # "list"
        <3>1. app.pc = "reset" => app.call = "wait"
            BY DEF Inv, Control
        <3> QED
            BY <1>4, <3>1 DEF ReadAsk, ReadReturn, WaitReturn, TakeEvent, ResetWait
    <2>3. \/ \E pc : app' = [app EXCEPT !.pc = pc]
          \/ \E pc, of : app' = [app EXCEPT !.pc = pc, !.of = of]
          \/ \E pc, answer : app' = [app EXCEPT !.pc = pc, !.answer = answer]
          \/ \E answer : app' = [app EXCEPT !.pc = "done", !.ok = TRUE, !.answer = answer]
        BY <1>4, ZenonT(40) DEF ReadAsk, ReadReturn, WaitReturn, TakeEvent, ResetWait, Step, Fail, Return
    <2>4. app'.call = app.call
        BY <2>1, <2>3 DEF AppStates
    <2> QED
        BY <2>2, <2>4 DEF ListOfOneMoment
<1>5. CASE ResetRecv \/ ResetPage \/ ListAsk \/ TimeOut
    <2>1. app.pc # "done" /\ \E pc \in Places : app' = [app EXCEPT !.pc = pc]
        BY <1>5 DEF ResetRecv, ResetPage, ListAsk, TimeOut, Step, Fail, Places
    <2>2. app'.ok = app.ok
        <3>1. app \in AppStates
            BY DEF Inv, TypeOK
        <3> QED
            BY <2>1, <3>1 DEF AppStates
    <2> QED
        BY <2>1, <2>2 DEF ListOfOneMoment, ReadingInv, OkWhenDone
<1>6. CASE ServerReads \/ Break \/ \E k \in Kinds, e \in Entries, v \in Values : Change(k, e, v)
    <2>1. UNCHANGED <<app, clean>> /\ moments \subseteq moments'
        BY <1>6 DEF ServerReads, Break, Change, histories
    <2> QED
        BY <2>1 DEF ListOfOneMoment
<1> QED
    BY <1>1, <1>2, <1>3, <1>4, <1>5, <1>6 DEF Next, AppSteps

\* Every step keeps the invariant of the lists.
LEMMA NextLists == Inv /\ ReadingInv /\ ListsInv /\ [Next]_vars => ListsInv'
<1> SUFFICES ASSUME Inv, ReadingInv, ListsInv, [Next]_vars PROVE ListsInv'
    OBVIOUS
<1>1. CASE Next
    BY <1>1, NextList, NextFits, NextMoment DEF ListsInv
<1>2. CASE UNCHANGED vars
    <2>1. UNCHANGED <<app, list, thread, toServer, toClient, clean, moments, raced>>
        BY <1>2 DEF vars
    <2>2. ASSUME NEW k \in Kinds
          PROVE  ListInv(k)'
        <3>1. ListInv(k)
            BY DEF ListsInv
        <3>2. Requesting(k)' = Requesting(k) /\ CurrentPages(k)' = CurrentPages(k)
            BY <2>1 DEF Requesting, CurrentPages
        <3> QED
            BY <2>1, <3>1, <3>2, OtherStepsList
    <2>3. PagesFit' /\ ListOfOneMoment'
        BY <2>1 DEF ListsInv, PagesFit, ListOfOneMoment, At
    <2> QED
        BY <2>2, <2>3 DEF ListsInv
<1> QED
    BY <1>1, <1>2

\* At the start nothing is asked for.
LEMMA InitLists == Init => ListsInv
<1> SUFFICES ASSUME Init PROVE ListsInv
    OBVIOUS
<1>1. /\ toServer = << >> /\ toClient = << >> /\ thread.pc = "recv"
      /\ app.call = "none" /\ app.ok = FALSE
    BY DEF Init
<1>2. ASSUME NEW k \in Kinds
      PROVE  Requested(k) /\ Answered(k)
    <2>1. ~Requesting(k) /\ ~Asked(k) /\ Quiet(k)
        BY <1>1 DEF Requesting, Asked, Quiet, CurrentPages, AtPageOf, Items
    <2>2. Requested(k)
        BY <1>1, <2>1 DEF Requested, Resetting, AtMostOnce
    <2>3. << >> \in Seq(Pairs) /\ Len(<< >>) <= MaxEntries
        BY SizeAssumption
    <2>4. Placed(k, << >>) /\ Answering(k, << >>)
        BY <2>1 DEF Placed, Answering, Quiet
    <2> QED
        BY <2>2, <2>3, <2>4 DEF Answered
<1>3. PagesFit /\ ListOfOneMoment
    BY <1>1 DEF PagesFit, ListOfOneMoment, At
<1> QED
    BY <1>2, <1>3 DEF ListsInv, ListInv

\* The invariants together.
LEMMA AllInvariants == Spec => [](Inv /\ ReadingInv /\ ListsInv)
<1>1. Init => Inv /\ ReadingInv /\ ListsInv
    BY InitInv, InitReading, InitLists
<1>2. (Inv /\ ReadingInv /\ ListsInv) /\ [Next]_vars => (Inv /\ ReadingInv /\ ListsInv)'
    BY NextInv, NextReading, NextLists
<1> QED
    BY <1>1, <1>2, PTL DEF Spec

(* No page of a list is ever written through a NULL pointer or past the end   *)
(* of its buffer (client.c:548-555), for all sizes of tables and packets and  *)
(* whatever pages are lost, unless the list was disturbed the way PagesFit    *)
(* names.                                                                     *)
THEOREM PagesAlwaysFit == Spec => []PagesFit
<1>1. ListsInv => PagesFit
    BY DEF ListsInv
<1> QED
    BY <1>1, AllInvariants, PTL

(* A list that a call returns is the whole table of the server as it was at   *)
(* one moment of the call (client.c:545-593, client.c:913-1001), although its *)
(* pages come one by one, may be lost, and may follow those of lists given up *)
(* before; the two exceptions are those that ListOfOneMoment names.           *)
THEOREM ListsOfOneMoment == Spec => []ListOfOneMoment
<1>1. ListsInv => ListOfOneMoment
    BY DEF ListsInv
<1> QED
    BY <1>1, AllInvariants, PTL
=============================================================================
