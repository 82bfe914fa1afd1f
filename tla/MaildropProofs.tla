--------------------------- MODULE MaildropProofs ---------------------------
(***************************************************************************)
(* Proofs about Maildrop for any number of clients, users and messages.    *)
(* Everything follows from one inductive invariant, MaildropInv: a         *)
(* predicate of one struct Client, RecordOK, that every handler preserves  *)
(* by itself, whatever the other sessions do to the directories.           *)
(***************************************************************************)
EXTENDS Maildrop, FoldLemmas, SequenceTheorems

(* The slots of a record that are not marked, and the files in some slots. *)
KeptSlots(r) == DOMAIN r.files \ r.to_delete
FilesIn(r, S) == {r.files[i] : i \in S}

(* A listing has no file twice, leaves a slot of the array free, and the   *)
(* marks are slots of it; the counters agree with the marks; a session     *)
(* that goes on has a user, and file_cant is the whole listing if that     *)
(* user has a directory.                                                   *)
RecordOK(r) ==
    /\ r \in ClientRecord
    /\ Len(r.files) < MAX_EMAILS
    /\ \A i, j \in DOMAIN r.files : i # j => r.files[i] # r.files[j]
    /\ r.to_delete \subseteq DOMAIN r.files
    /\ r.file_cant <= Len(r.files)
    /\ r.active_file_cant = Cardinality(KeptSlots(r))
    /\ r.active_file_size = Octets[FilesIn(r, KeptSlots(r))]
    /\ r.state = "TRANSACTION" =>
          /\ r.name \in User
          /\ r.name \in HasDir => r.file_cant = Len(r.files)

Reply == [st : Return, ok : BOOLEAN, arg : Seq(Nat)]

MaildropInv ==
    /\ client \in [Client -> ClientRecord]
    /\ \A c \in Client : RecordOK(client[c])
    /\ dir \in [User -> SUBSET Msg]
    /\ reply \in Reply

-----------------------------------------------------------------------------
(* Facts about sizes, listings and slots. *)

(* No files, no octets. *)
LEMMA OctetsEmpty == Octets[{}] = 0
<1>1. {} \in SUBSET Msg /\ {} \cap {} = {} /\ {} \cup {} = {}
  OBVIOUS
<1>2. Octets[{}] = Octets[{}] + Octets[{}]
  BY <1>1, MaildropAssumption
<1>3. Octets[{}] \in Nat
  BY MaildropAssumption
<1>4. \A x \in Nat : x = x + x => x = 0
  OBVIOUS
<1> QED
  BY <1>2, <1>3, <1>4

(* The octets of two sets of files without a common file add up. *)
LEMMA OctetsUnion ==
    ASSUME NEW S \in SUBSET Msg, NEW T \in SUBSET Msg, S \cap T = {}
    PROVE  /\ Octets[S \cup T] = Octets[S] + Octets[T]
           /\ Octets[S] \in Nat /\ Octets[T] \in Nat /\ Octets[S \cup T] \in Nat
BY MaildropAssumption

(* What readdir may return for a directory S: a sequence of its files, of  *)
(* its cardinality, without repetition.                                    *)
LEMMA ListingOfDir ==
    ASSUME NEW S \in SUBSET Msg, NEW l \in SetToSeqs(S)
    PROVE  /\ l \in Seq(Msg)
           /\ Len(l) = Cardinality(S) /\ DOMAIN l = 1 .. Len(l)
           /\ Len(l) \in Nat /\ Len(l) < MAX_EMAILS
           /\ \A i, j \in DOMAIN l : i # j => l[i] # l[j]
<1>1. IsFiniteSet(S) /\ Cardinality(S) <= Cardinality(Msg)
  BY FS_Subset, MaildropAssumption
<1>2. Cardinality(S) \in Nat /\ Cardinality(Msg) \in Nat
  BY <1>1, FS_CardinalityType, MaildropAssumption
<1>3. l \in [1 .. Cardinality(S) -> S]
      /\ \A i, j \in 1 .. Cardinality(S) : i # j => l[i] # l[j]
  BY DEF SetToSeqs
<1>4. l \in Seq(S)
  BY <1>2, <1>3, SeqDef
<1>5. l \in Seq(Msg) /\ Len(l) = Cardinality(S)
  BY <1>2, <1>3, <1>4
<1> QED
  BY <1>1, <1>2, <1>3, <1>5, MaildropAssumption

(* The slots of a record are a finite set, and each holds a file. *)
LEMMA SlotsOfRecord ==
    ASSUME NEW r, RecordOK(r)
    PROVE  /\ DOMAIN r.files = 1 .. Len(r.files) /\ Len(r.files) \in Nat
           /\ \A i \in DOMAIN r.files : r.files[i] \in Msg
           /\ IsFiniteSet(DOMAIN r.files)
           /\ Cardinality(DOMAIN r.files) = Len(r.files)
           /\ \A S \in SUBSET DOMAIN r.files :
                 /\ IsFiniteSet(S) /\ Cardinality(S) \in 0 .. Len(r.files)
                 /\ FilesIn(r, S) \in SUBSET Msg
<1>1. r.files \in Seq(Msg)
  BY DEF RecordOK, ClientRecord
<1>2. DOMAIN r.files = 1 .. Len(r.files) /\ Len(r.files) \in Nat
      /\ \A i \in DOMAIN r.files : r.files[i] \in Msg
  BY <1>1
<1>3. IsFiniteSet(DOMAIN r.files) /\ Cardinality(DOMAIN r.files) = Len(r.files)
  BY <1>2, FS_Interval
<1>4. ASSUME NEW S \in SUBSET DOMAIN r.files
      PROVE  /\ IsFiniteSet(S) /\ Cardinality(S) \in 0 .. Len(r.files)
             /\ FilesIn(r, S) \in SUBSET Msg
  <2>1. IsFiniteSet(S) /\ Cardinality(S) <= Len(r.files)
    BY <1>3, FS_Subset
  <2>2. Cardinality(S) \in Nat
    BY <2>1, FS_CardinalityType
  <2> QED
    BY <1>2, <2>1, <2>2 DEF FilesIn
<1> QED
  BY <1>2, <1>3, <1>4

(* Disjoint sets of slots hold disjoint sets of files, whose octets add up.*)
LEMMA FilesOfDisjointSlots ==
    ASSUME NEW r, RecordOK(r),
           NEW S \in SUBSET DOMAIN r.files, NEW T \in SUBSET DOMAIN r.files,
           S \cap T = {}
    PROVE  /\ Octets[FilesIn(r, S \cup T)] = Octets[FilesIn(r, S)] + Octets[FilesIn(r, T)]
           /\ Octets[FilesIn(r, S)] \in Nat /\ Octets[FilesIn(r, T)] \in Nat
<1>1. FilesIn(r, S) \cap FilesIn(r, T) = {}
  BY DEF RecordOK, FilesIn
<1>2. FilesIn(r, S \cup T) = FilesIn(r, S) \cup FilesIn(r, T)
  BY DEF FilesIn
<1>3. FilesIn(r, S) \in SUBSET Msg /\ FilesIn(r, T) \in SUBSET Msg
  BY SlotsOfRecord
<1> QED
  BY <1>1, <1>2, <1>3, OctetsUnion

-----------------------------------------------------------------------------
(* Every way a record changes preserves RecordOK. *)

(* A struct Client that is not allocated. *)
LEMMA FreshRecord == RecordOK(NoClient)
<1>1. Len(<<>>) = 0 /\ DOMAIN <<>> = {} /\ <<>> \in Seq(Msg)
  OBVIOUS
<1>2. Cardinality({}) = 0
  BY FS_EmptySet
<1>3. Cardinality(Msg) \in Nat
  BY FS_CardinalityType, MaildropAssumption
<1>4. MAX_EMAILS \in Nat /\ 0 < MAX_EMAILS
  BY <1>3, MaildropAssumption
<1>5. /\ NoClient.state = "NONE" /\ NoClient.files = <<>>
      /\ NoClient.to_delete = {} /\ NoClient.file_cant = 0
      /\ NoClient.active_file_cant = 0 /\ NoClient.active_file_size = 0
  BY DEF NoClient
<1>6. NoClient \in ClientRecord
  BY <1>1, <1>4 DEF NoClient, ClientRecord, State
<1>7. KeptSlots(NoClient) = {}
  BY <1>1, <1>5 DEF KeptSlots
<1>8. FilesIn(NoClient, KeptSlots(NoClient)) = {}
  BY <1>7 DEF FilesIn
<1>9. NoClient.state # "TRANSACTION" /\ DOMAIN NoClient.files = {}
      /\ Len(NoClient.files) = 0
  BY <1>1, <1>5
<1>10. /\ NoClient.active_file_cant = Cardinality(KeptSlots(NoClient))
       /\ NoClient.active_file_size
             = Octets[FilesIn(NoClient, KeptSlots(NoClient))]
  BY <1>2, <1>5, <1>7, <1>8, OctetsEmpty
<1>11. NoClient.to_delete \subseteq DOMAIN NoClient.files
       /\ NoClient.file_cant <= Len(NoClient.files)
       /\ Len(NoClient.files) < MAX_EMAILS
  BY <1>4, <1>5, <1>9
<1> QED
  BY <1>6, <1>9, <1>10, <1>11 DEF RecordOK

(* A change that leaves the listing, the marks and the counters alone. *)
LEMMA SameListing ==
    ASSUME NEW r, RecordOK(r), NEW s \in ClientRecord,
           s.files = r.files, s.to_delete = r.to_delete,
           s.active_file_cant = r.active_file_cant,
           s.active_file_size = r.active_file_size,
           s.file_cant <= r.file_cant,
           s.state = "TRANSACTION" =>
              s.name \in User /\ (s.name \in HasDir => s.file_cant = Len(s.files))
    PROVE  RecordOK(s)
<1>1. KeptSlots(s) = KeptSlots(r)
  BY DEF KeptSlots
<1>2. FilesIn(s, KeptSlots(s)) = FilesIn(r, KeptSlots(r))
  BY <1>1 DEF FilesIn
<1>3. s.file_cant <= Len(s.files)
  <2>1. s.file_cant \in Int /\ r.file_cant \in Int
    BY DEF RecordOK, ClientRecord
  <2>2. r.file_cant <= Len(r.files) /\ Len(r.files) \in Nat
    BY SlotsOfRecord DEF RecordOK
  <2> QED
    BY <2>1, <2>2
<1> QED
  BY <1>1, <1>2, <1>3 DEF RecordOK

(* A new state that is not TRANSACTION, with any number of slots left to   *)
(* look at (the QUIT commands, an accepted connection).                    *)
LEMMA ChangeState ==
    ASSUME NEW r, RecordOK(r), NEW st \in State \ {"TRANSACTION"},
           NEW n \in 0 .. r.file_cant
    PROVE  RecordOK([r EXCEPT !.state = st, !.file_cant = n])
<1>. DEFINE s == [r EXCEPT !.state = st, !.file_cant = n]
<1>1. r \in ClientRecord
  BY DEF RecordOK
<1>2. n \in 0 .. MAX_EMAILS
  <2>1. r.file_cant \in 0 .. MAX_EMAILS
    BY <1>1 DEF ClientRecord
  <2>2. MAX_EMAILS \in Nat
    BY MaildropAssumption
  <2> QED
    BY <2>1, <2>2
<1>3. s \in ClientRecord
  BY <1>1, <1>2 DEF ClientRecord
<1>4. /\ s.state = st /\ s.file_cant = n /\ s.files = r.files
      /\ s.to_delete = r.to_delete
      /\ s.active_file_cant = r.active_file_cant
      /\ s.active_file_size = r.active_file_size
  BY <1>1 DEF ClientRecord
<1>. HIDE DEF s
<1>5. RecordOK(s)
  BY <1>3, <1>4, SameListing
<1> QED
  BY <1>5 DEF s

(* A new name outside TRANSACTION (USER, and PASS when it is refused). *)
LEMMA ChangeName ==
    ASSUME NEW r, RecordOK(r), r.state # "TRANSACTION",
           NEW u \in User \cup {NULL}
    PROVE  RecordOK([r EXCEPT !.name = u])
<1>. DEFINE s == [r EXCEPT !.name = u]
<1>1. r \in ClientRecord
  BY DEF RecordOK
<1>2. s \in ClientRecord
  BY <1>1 DEF ClientRecord
<1>3. /\ s.state = r.state /\ s.file_cant = r.file_cant /\ s.files = r.files
      /\ s.to_delete = r.to_delete
      /\ s.active_file_cant = r.active_file_cant
      /\ s.active_file_size = r.active_file_size
  BY <1>1 DEF ClientRecord
<1>4. s.file_cant <= r.file_cant
  BY <1>1, <1>3, MaildropAssumption DEF ClientRecord
<1>. HIDE DEF s
<1>5. RecordOK(s)
  BY <1>2, <1>3, <1>4, SameListing
<1> QED
  BY <1>5 DEF s

(* A login whose directory cannot be opened keeps the old listing. *)
LEMMA LoginWithoutDir ==
    ASSUME NEW r, RecordOK(r), r.name \in User \ HasDir
    PROVE  RecordOK([r EXCEPT !.state = "TRANSACTION"])
<1>. DEFINE s == [r EXCEPT !.state = "TRANSACTION"]
<1>1. r \in ClientRecord
  BY DEF RecordOK
<1>2. s \in ClientRecord
  BY <1>1 DEF ClientRecord, State
<1>3. /\ s.name = r.name /\ s.file_cant = r.file_cant /\ s.files = r.files
      /\ s.to_delete = r.to_delete
      /\ s.active_file_cant = r.active_file_cant
      /\ s.active_file_size = r.active_file_size
  BY <1>1 DEF ClientRecord
<1>4. s.file_cant <= r.file_cant
  BY <1>1, <1>3, MaildropAssumption DEF ClientRecord
<1>. HIDE DEF s
<1>5. RecordOK(s)
  BY <1>2, <1>3, <1>4, SameListing
<1> QED
  BY <1>5 DEF s

(* A login that lists the maildir forgets the marks of any earlier one. *)
LEMMA Login ==
    ASSUME NEW r, RecordOK(r), r.name \in User,
           NEW S \in SUBSET Msg, NEW l \in SetToSeqs(S)
    PROVE  RecordOK(populate_array([r EXCEPT !.state = "TRANSACTION"], l))
<1>. DEFINE s == populate_array([r EXCEPT !.state = "TRANSACTION"], l)
<1>1. r \in ClientRecord
  BY DEF RecordOK
<1>2. /\ l \in Seq(Msg) /\ DOMAIN l = 1 .. Len(l) /\ Len(l) \in Nat
      /\ Len(l) < MAX_EMAILS
      /\ \A i, j \in DOMAIN l : i # j => l[i] # l[j]
  BY ListingOfDir
<1>3. Len(l) \in 0 .. MAX_EMAILS
  BY <1>2, MaildropAssumption
<1>4. Range(l) \in SUBSET Msg
  BY <1>2 DEF Range
<1>5. Octets[Range(l)] \in Nat
  BY <1>4, MaildropAssumption
<1>6. s \in ClientRecord
  BY <1>1, <1>2, <1>3, <1>5 DEF ClientRecord, State, populate_array
<1>7. /\ s.state = "TRANSACTION" /\ s.name = r.name /\ s.files = l
      /\ s.to_delete = {} /\ s.file_cant = Len(l)
      /\ s.active_file_cant = Len(l) /\ s.active_file_size = Octets[Range(l)]
  BY <1>1 DEF ClientRecord, populate_array
<1>. HIDE DEF s
<1>8. KeptSlots(s) = 1 .. Len(l)
  BY <1>2, <1>7 DEF KeptSlots
<1>9. Cardinality(KeptSlots(s)) = Len(l)
  BY <1>2, <1>8, FS_Interval
<1>10. FilesIn(s, KeptSlots(s)) = Range(l)
  BY <1>2, <1>7, <1>8 DEF FilesIn, Range
<1>11. s.file_cant <= Len(s.files)
  BY <1>2, <1>7
<1>12. RecordOK(s)
  BY <1>2, <1>6, <1>7, <1>9, <1>10, <1>11 DEF RecordOK
<1> QED
  BY <1>12 DEF s

(* DELE moves one slot from the kept to the marked. *)
LEMMA Delete ==
    ASSUME NEW r, RecordOK(r), NEW n \in 1 .. r.file_cant \ r.to_delete
    PROVE  RecordOK([r EXCEPT !.to_delete = @ \cup {n},
                              !.active_file_cant = @ - 1,
                              !.active_file_size = @ - Octets[{r.files[n]}]])
<1>. DEFINE s == [r EXCEPT !.to_delete = @ \cup {n},
                           !.active_file_cant = @ - 1,
                           !.active_file_size = @ - Octets[{r.files[n]}]]
            K == KeptSlots(r)
<1>1. r \in ClientRecord
  BY DEF RecordOK
<1>2. DOMAIN r.files = 1 .. Len(r.files) /\ Len(r.files) \in Nat
      /\ IsFiniteSet(K)
  BY SlotsOfRecord DEF KeptSlots
<1>3. n \in DOMAIN r.files
  BY <1>1, <1>2 DEF RecordOK, ClientRecord
<1>4. n \in K /\ K \ {n} \subseteq DOMAIN r.files /\ {n} \subseteq DOMAIN r.files
  BY <1>3 DEF KeptSlots
<1>5. Cardinality(K \ {n}) = Cardinality(K) - 1 /\ Cardinality(K \ {n}) \in Nat
  BY <1>2, <1>4, FS_RemoveElement, FS_Subset, FS_CardinalityType
<1>. DEFINE after == Octets[FilesIn(r, K \ {n})]
            one   == Octets[FilesIn(r, {n})]
<1>6. /\ Octets[FilesIn(r, (K \ {n}) \cup {n})] = after + one
      /\ after \in Nat /\ one \in Nat
  <2>. DEFINE rest == K \ {n}
              slot == {n}
  <2>1. /\ rest \in SUBSET DOMAIN r.files /\ slot \in SUBSET DOMAIN r.files
        /\ rest \cap slot = {}
    BY <1>4
  <2>. HIDE DEF rest, slot
  <2>2. /\ Octets[FilesIn(r, rest \cup slot)]
              = Octets[FilesIn(r, rest)] + Octets[FilesIn(r, slot)]
        /\ Octets[FilesIn(r, rest)] \in Nat /\ Octets[FilesIn(r, slot)] \in Nat
    BY <2>1, FilesOfDisjointSlots, Zenon
  <2> QED
    BY <2>2 DEF rest, slot
<1>7. (K \ {n}) \cup {n} = K /\ FilesIn(r, {n}) = {r.files[n]}
  BY <1>4 DEF FilesIn
<1>8. /\ r.active_file_cant = Cardinality(K)
      /\ r.active_file_size = Octets[FilesIn(r, K)]
      /\ r.active_file_cant \in 0 .. MAX_EMAILS
  BY <1>1 DEF RecordOK, ClientRecord
<1>9. /\ r.active_file_cant - 1 = Cardinality(K \ {n})
      /\ r.active_file_cant - 1 \in 0 .. MAX_EMAILS
  BY <1>5, <1>8, MaildropAssumption
<1>10. /\ r.active_file_size - Octets[{r.files[n]}] = Octets[FilesIn(r, K \ {n})]
       /\ r.active_file_size - Octets[{r.files[n]}] \in Nat
  <2>. DEFINE before == r.active_file_size
  <2>1. before = after + one
    BY <1>6, <1>7, <1>8, Zenon
  <2>. HIDE DEF before, after, one
  <2>2. before - one = after /\ before - one \in Nat
    BY <1>6, <2>1
  <2> QED
    BY <1>7, <2>2 DEF before, after, one
<1>11. r.to_delete \cup {n} \in SUBSET (1 .. MAX_EMAILS)
  <2>1. n \in 1 .. MAX_EMAILS
    BY <1>1, MaildropAssumption DEF ClientRecord
  <2>2. r.to_delete \in SUBSET (1 .. MAX_EMAILS)
    BY <1>1 DEF ClientRecord
  <2> QED
    BY <2>1, <2>2
<1>12. s \in ClientRecord
  BY <1>1, <1>9, <1>10, <1>11 DEF ClientRecord
<1>13. /\ s.state = r.state /\ s.name = r.name /\ s.files = r.files
       /\ s.to_delete = r.to_delete \cup {n} /\ s.file_cant = r.file_cant
       /\ s.active_file_cant = r.active_file_cant - 1
       /\ s.active_file_size = r.active_file_size - Octets[{r.files[n]}]
  BY <1>1 DEF ClientRecord
<1>14. KeptSlots(s) = K \ {n}
  BY <1>13 DEF KeptSlots
<1>. HIDE DEF s
<1>15. FilesIn(s, KeptSlots(s)) = FilesIn(r, K \ {n})
  BY <1>13, <1>14 DEF FilesIn
<1>16. RecordOK(s)
  BY <1>3, <1>9, <1>10, <1>12, <1>13, <1>14, <1>15 DEF RecordOK
<1> QED
  BY <1>16 DEF s

(* RSET moves the marked slots below file_cant back to the kept. *)
LEMMA Reset ==
    ASSUME NEW r, RecordOK(r)
    PROVE  LET back == (1 .. r.file_cant) \cap r.to_delete
           IN  RecordOK([r EXCEPT
                  !.to_delete = @ \ back,
                  !.active_file_cant = r.active_file_cant + Cardinality(back),
                  !.active_file_size = r.active_file_size
                                         + Octets[FilesIn(r, back)]])
<1>. DEFINE back == (1 .. r.file_cant) \cap r.to_delete
            K == KeptSlots(r)
            cant == r.active_file_cant + Cardinality(back)
            size == r.active_file_size + Octets[FilesIn(r, back)]
            s == [r EXCEPT !.to_delete = @ \ back, !.active_file_cant = cant,
                           !.active_file_size = size]
<1>1. r \in ClientRecord
  BY DEF RecordOK
<1>2. /\ K \subseteq DOMAIN r.files /\ back \subseteq DOMAIN r.files
      /\ K \cap back = {} /\ K \cup back \subseteq DOMAIN r.files
  BY DEF KeptSlots, RecordOK
<1>3. /\ IsFiniteSet(K) /\ IsFiniteSet(back)
      /\ Cardinality(K) \in Nat /\ Cardinality(back) \in Nat
      /\ Cardinality(K \cup back) \in 0 .. Len(r.files) /\ Len(r.files) \in Nat
  BY <1>2, SlotsOfRecord
<1>4. Cardinality(K \cup back) = Cardinality(K) + Cardinality(back)
  <2>1. Cardinality(K \cap back) = 0
    BY <1>2, FS_EmptySet
  <2>2. Cardinality(K \cup back)
          = Cardinality(K) + Cardinality(back) - Cardinality(K \cap back)
    BY <1>3, FS_Union
  <2> QED
    BY <1>3, <2>1, <2>2
<1>. DEFINE kept == Octets[FilesIn(r, K)]
            more == Octets[FilesIn(r, back)]
<1>5. /\ Octets[FilesIn(r, K \cup back)] = kept + more
      /\ kept \in Nat /\ more \in Nat
  BY <1>2, FilesOfDisjointSlots
<1>6. /\ r.active_file_cant = Cardinality(K)
      /\ r.active_file_size = Octets[FilesIn(r, K)]
      /\ Len(r.files) < MAX_EMAILS
  BY DEF RecordOK
<1>7. cant = Cardinality(K \cup back) /\ cant \in 0 .. MAX_EMAILS
  BY <1>3, <1>4, <1>6, MaildropAssumption
<1>8. size = Octets[FilesIn(r, K \cup back)] /\ size \in Nat
  BY <1>5, <1>6
<1>9. r.to_delete \ back \in SUBSET (1 .. MAX_EMAILS)
  BY <1>1 DEF ClientRecord
<1>. HIDE DEF cant, size, back
<1>10. s \in ClientRecord
  BY <1>1, <1>7, <1>8, <1>9 DEF ClientRecord
<1>11. /\ s.state = r.state /\ s.name = r.name /\ s.files = r.files
       /\ s.to_delete = r.to_delete \ back /\ s.file_cant = r.file_cant
       /\ s.active_file_cant = cant /\ s.active_file_size = size
  BY <1>1 DEF ClientRecord
<1>. HIDE DEF s
<1>12. KeptSlots(s) = K \cup back
  BY <1>2, <1>11 DEF KeptSlots
<1>13. FilesIn(s, KeptSlots(s)) = FilesIn(r, K \cup back)
  BY <1>11, <1>12 DEF FilesIn
<1>14. RecordOK(s)
  BY <1>7, <1>8, <1>10, <1>11, <1>12, <1>13 DEF RecordOK
<1> QED
  BY <1>14 DEF s, cant, size, back
-----------------------------------------------------------------------------
(* Every step preserves MaildropInv. *)

(* A step that replaces one record by a good one. *)
LEMMA OneRecord ==
    ASSUME MaildropInv, NEW c \in Client, NEW r, RecordOK(r),
           client' = [client EXCEPT ![c] = r],
           dir' \in [User -> SUBSET Msg], reply' \in Reply
    PROVE  MaildropInv'
<1>1. r \in ClientRecord
  BY DEF RecordOK
<1>2. \A d \in Client : client'[d] = IF d = c THEN r ELSE client[d]
  BY DEF MaildropInv
<1> QED
  BY <1>1, <1>2 DEF MaildropInv

(* What a QUIT removes are marked slots below file_cant. *)
LEMMA RemovedSlots ==
    ASSUME MaildropInv, NEW c \in Client
    PROVE  /\ Removed(c) \subseteq Marked(c)
           /\ Removed(c) \subseteq 1 .. client[c].file_cant
           /\ Cardinality(Removed(c)) \in 0 .. client[c].file_cant
           /\ client[c].file_cant - Cardinality(Removed(c)) \in 0 .. client[c].file_cant
<1>. DEFINE r == client[c]
<1>1. RecordOK(r) /\ r \in ClientRecord
  BY DEF MaildropInv, RecordOK
<1>2. r.file_cant \in Nat /\ Marked(c) \subseteq Nat \ {0}
      /\ Marked(c) \subseteq DOMAIN r.files
  BY <1>1, MaildropAssumption DEF ClientRecord, Marked, RecordOK
<1>3. ASSUME NEW i \in Reached(c)
      PROVE  i \in 1 .. r.file_cant
  <2>1. Marked(c) \cap 1 .. (i - 1) \in SUBSET DOMAIN r.files
    BY <1>2
  <2>2. Cardinality(Marked(c) \cap 1 .. (i - 1)) \in Nat
    BY <1>1, <2>1, SlotsOfRecord
  <2>3. i \in Nat \ {0}
        /\ i <= r.file_cant - Cardinality(Marked(c) \cap 1 .. (i - 1))
    BY <1>2 DEF Reached
  <2> QED
    BY <1>2, <2>2, <2>3
<1>4. Removed(c) \subseteq Marked(c) /\ Removed(c) \subseteq 1 .. r.file_cant
  BY <1>3 DEF Removed, Reached
<1>5. IsFiniteSet(1 .. r.file_cant) /\ Cardinality(1 .. r.file_cant) = r.file_cant
  <2>1. ASSUME NEW n \in Nat
        PROVE  IsFiniteSet(1 .. n) /\ Cardinality(1 .. n) = n
    BY FS_Interval
  <2> QED
    BY <1>2, <2>1
<1>6. Cardinality(Removed(c)) <= r.file_cant /\ Cardinality(Removed(c)) \in Nat
  BY <1>4, <1>5, FS_Subset, FS_CardinalityType
<1> QED
  BY <1>2, <1>4, <1>6

(* Every answer a handler gives has the type of a reply. *)
LEMMA AnswerTypes ==
    /\ NoAnswer \in Reply /\ ERR \in Reply /\ OK(<<>>) \in Reply
    /\ Answer("ERROR_STATE", FALSE, <<>>) \in Reply
    /\ \A m \in Nat : OK(<<m>>) \in Reply
    /\ \A m \in Nat : Answer("WRITE_LIST", TRUE, <<m>>) \in Reply
    /\ \A m, n \in Nat : OK(<<m, n>>) \in Reply
    /\ \A m, n \in Nat : Answer("WRITE_FILE", TRUE, <<m, n>>) \in Reply
<1>1. /\ <<>> \in Seq(Nat)
      /\ \A m \in Nat : <<m>> \in Seq(Nat)
      /\ \A m, n \in Nat : <<m, n>> \in Seq(Nat)
  OBVIOUS
<1> QED
  BY <1>1 DEF NoAnswer, ERR, OK, Answer, Return, Reply

(* A command that only answers changes nothing else. *)
LEMMA AnswerStep ==
    ASSUME MaildropInv, NEW a \in Reply, answer(a)
    PROVE  MaildropInv'
BY DEF MaildropInv, answer

(* A message that can be named is a slot of the listing and has a size. *)
LEMMA ActiveSlot ==
    ASSUME MaildropInv, NEW c \in Client, NEW n \in Active(c)
    PROVE  /\ n \in (1 .. client[c].file_cant) \ client[c].to_delete
           /\ n \in DOMAIN client[c].files /\ n \in Nat
           /\ FilesAt(c, {n}) = {client[c].files[n]}
           /\ OctetsOf(c, n) \in Nat
<1>1. RecordOK(client[c]) /\ client[c] \in ClientRecord
  BY DEF MaildropInv, RecordOK
<1>2. n \in (1 .. client[c].file_cant) \ client[c].to_delete
  BY DEF Active, Slots, Marked
<1>3. n \in DOMAIN client[c].files /\ n \in Nat
  <2>1. DOMAIN client[c].files = 1 .. Len(client[c].files)
        /\ Len(client[c].files) \in Nat
    BY <1>1, SlotsOfRecord
  <2>2. client[c].file_cant \in 0 .. MAX_EMAILS
        /\ client[c].file_cant <= Len(client[c].files)
    BY <1>1 DEF RecordOK, ClientRecord
  <2> QED
    BY <1>2, <2>1, <2>2, MaildropAssumption
<1>4. client[c].files[n] \in Msg
  BY <1>1, <1>3, SlotsOfRecord
<1>5. FilesAt(c, {n}) = {client[c].files[n]}
  BY DEF FilesAt
<1>6. Octets[{client[c].files[n]}] \in Nat
  BY <1>4, MaildropAssumption
<1> QED
  BY <1>2, <1>3, <1>5, <1>6 DEF OctetsOf

(* QUIT before a login, and accepting a connection: only state changes. *)
LEMMA StateStep ==
    ASSUME MaildropInv, NEW c \in Client, NEW st \in State \ {"TRANSACTION"},
           client' = [client EXCEPT ![c].state = st],
           dir' = dir, reply' \in Reply
    PROVE  MaildropInv'
<1>. DEFINE r == [client[c] EXCEPT !.state = st, !.file_cant = client[c].file_cant]
<1>1. RecordOK(client[c]) /\ client[c] \in ClientRecord
  BY DEF MaildropInv
<1>2. client[c].file_cant \in 0 .. client[c].file_cant
  BY <1>1, MaildropAssumption DEF ClientRecord
<1>3. RecordOK(r)
  BY <1>1, <1>2, ChangeState
<1>4. client' = [client EXCEPT ![c] = r]
  BY <1>1 DEF MaildropInv, ClientRecord
<1>5. dir' \in [User -> SUBSET Msg]
  BY DEF MaildropInv
<1>. HIDE DEF r
<1> QED
  BY <1>3, <1>4, <1>5, OneRecord

(* USER, and PASS when it is refused: only name changes. *)
LEMMA NameStep ==
    ASSUME MaildropInv, NEW c \in Client, NEW u \in User \cup {NULL},
           client[c].state # "TRANSACTION",
           client' = [client EXCEPT ![c].name = u],
           dir' = dir, reply' \in Reply
    PROVE  MaildropInv'
<1>. DEFINE r == [client[c] EXCEPT !.name = u]
<1>1. RecordOK(client[c])
  BY DEF MaildropInv
<1>2. RecordOK(r)
  BY <1>1, ChangeName
<1>3. client' = [client EXCEPT ![c] = r]
  BY DEF MaildropInv
<1>4. dir' \in [User -> SUBSET Msg]
  BY DEF MaildropInv
<1>. HIDE DEF r
<1> QED
  BY <1>2, <1>3, <1>4, OneRecord

LEMMA PassStep ==
    ASSUME MaildropInv, NEW c \in Client, client[c].state # "TRANSACTION",
           NEW valid \in BOOLEAN, handlePass(c, valid)
    PROVE  MaildropInv'
<1>. DEFINE u == client[c].name
            r == [client[c] EXCEPT !.state = "TRANSACTION"]
<1>0. RecordOK(client[c]) /\ dir \in [User -> SUBSET Msg]
  BY DEF MaildropInv
<1>1. dir' = dir
  BY DEF handlePass
<1>2. CASE u = NULL /\ reply' = ERR /\ UNCHANGED client
  BY <1>1, <1>2, AnswerTypes DEF MaildropInv
<1>3. CASE reply' = ERR /\ client' = [client EXCEPT ![c].name = NULL]
  <2>1. NULL \in User \cup {NULL} /\ reply' \in Reply
    BY <1>3, AnswerTypes
  <2> QED
    BY <1>1, <1>3, <2>1, NameStep
<1>4. CASE /\ u \in HasDir /\ reply' = OK(<<>>)
           /\ \E l \in SetToSeqs(dir[u]) :
                 client' = [client EXCEPT ![c] = populate_array(r, l)]
  <2>1. PICK l \in SetToSeqs(dir[u]) :
                client' = [client EXCEPT ![c] = populate_array(r, l)]
    BY <1>4
  <2>2. u \in User
    BY <1>4, MaildropAssumption
  <2>3. dir[u] \in SUBSET Msg
    BY <1>0, <2>2
  <2>4. RecordOK(populate_array(r, l))
    BY <1>0, <2>2, <2>3, Login
  <2>5. dir' \in [User -> SUBSET Msg] /\ reply' \in Reply
    BY <1>0, <1>1, <1>4, AnswerTypes
  <2> QED
    BY <2>1, <2>4, <2>5, OneRecord
<1>5. CASE /\ u \in User \ HasDir /\ reply' = OK(<<>>)
           /\ client' = [client EXCEPT ![c] = r]
  <2>1. RecordOK(r)
    BY <1>0, <1>5, LoginWithoutDir
  <2>2. dir' \in [User -> SUBSET Msg] /\ reply' \in Reply
    BY <1>0, <1>1, <1>5, AnswerTypes
  <2> QED
    BY <1>5, <2>1, <2>2, OneRecord
<1> QED
  BY <1>2, <1>3, <1>4, <1>5 DEF handlePass

LEMMA QuitAuthStep ==
    ASSUME MaildropInv, NEW c \in Client, client[c].state = "TRANSACTION",
           handleQuitAuth(c)
    PROVE  MaildropInv'
<1>. DEFINE left == client[c].file_cant - Cardinality(Removed(c))
            r(st) == [client[c] EXCEPT !.state = st, !.file_cant = left]
<1>1. RecordOK(client[c])
  BY DEF MaildropInv
<1>2. left \in 0 .. client[c].file_cant /\ left \in Nat
  BY RemovedSlots
<1>. HIDE DEF left
<1>3. RecordOK(r("UPDATE")) /\ RecordOK(r("CLOSED"))
  BY <1>1, <1>2, ChangeState DEF State
<1>4. PICK st \in {"UPDATE", "CLOSED"} :
         client' = [client EXCEPT ![c].state = st, ![c].file_cant = left]
  BY DEF handleQuitAuth, left
<1>5. client' = [client EXCEPT ![c] = r(st)]
  BY <1>4 DEF MaildropInv
<1>6. dir' \in [User -> SUBSET Msg]
  <2>1. dir' = DirWithout(c, Removed(c)) /\ dir \in [User -> SUBSET Msg]
    BY DEF handleQuitAuth, MaildropInv
  <2> QED
    BY <2>1 DEF DirWithout
<1>7. reply' \in Reply
  <2>1. reply' = ERR \/ reply' = OK(<<left>>)
    BY DEF handleQuitAuth, left
  <2> QED
    BY <1>2, <2>1, AnswerTypes
<1>8. RecordOK(r(st))
  BY <1>3
<1>. HIDE DEF r
<1> QED
  BY <1>5, <1>6, <1>7, <1>8, OneRecord

LEMMA DeleStep ==
    ASSUME MaildropInv, NEW c \in Client, NEW n, handleDele(c, n)
    PROVE  MaildropInv'
<1>1. CASE n \notin Active(c) /\ answer(ERR)
  BY <1>1, AnswerStep, AnswerTypes
<1>2. CASE n \in Active(c) /\ reply' = OK(<<n>>) /\ dir' = dir
  <2>. DEFINE r == [client[c] EXCEPT !.to_delete = @ \cup {n},
                       !.active_file_cant = @ - 1,
                       !.active_file_size = @ - Octets[{client[c].files[n]}]]
  <2>1. RecordOK(client[c])
    BY DEF MaildropInv
  <2>2. /\ n \in (1 .. client[c].file_cant) \ client[c].to_delete
        /\ n \in Nat /\ OctetsOf(c, n) = Octets[{client[c].files[n]}]
    BY <1>2, ActiveSlot DEF OctetsOf
  <2>3. RecordOK(r)
    BY <2>1, <2>2, Delete
  <2>4. client' = [client EXCEPT ![c] = r]
    BY <1>2, <2>2 DEF handleDele, MaildropInv
  <2>5. dir' \in [User -> SUBSET Msg] /\ reply' \in Reply
    BY <1>2, <2>2, AnswerTypes DEF MaildropInv
  <2>. HIDE DEF r
  <2> QED
    BY <2>3, <2>4, <2>5, OneRecord
<1> QED
  BY <1>1, <1>2 DEF handleDele

LEMMA ResetStep ==
    ASSUME MaildropInv, NEW c \in Client, handleRset(c)
    PROVE  MaildropInv'
<1>. DEFINE back  == (1 .. client[c].file_cant) \cap client[c].to_delete
            count == client[c].active_file_cant + Cardinality(back)
            size  == client[c].active_file_size + Octets[FilesIn(client[c], back)]
            r == [client[c] EXCEPT !.to_delete = @ \ back,
                                   !.active_file_cant = count,
                                   !.active_file_size = size]
<1>1. RecordOK(client[c])
  BY DEF MaildropInv
<1>2. RecordOK(r)
  BY <1>1, Reset
<1>3. FilesAt(c, back) = FilesIn(client[c], back)
      /\ back = Slots(c) \cap Marked(c)
  BY DEF FilesAt, FilesIn, Slots, Marked
<1>4. client' = [client EXCEPT ![c].to_delete = @ \ back,
                               ![c].active_file_cant = count,
                               ![c].active_file_size = size]
      /\ reply' = OK(<<count, size>>) /\ dir' = dir
  BY <1>3 DEF handleRset
<1>5. count \in Nat /\ size \in Nat
  <2>1. r \in ClientRecord /\ client[c] \in ClientRecord
    BY <1>1, <1>2 DEF RecordOK
  <2>2. r.active_file_cant = count /\ r.active_file_size = size
    BY <2>1 DEF ClientRecord
  <2>. HIDE DEF r
  <2>3. r.active_file_cant \in Nat /\ r.active_file_size \in Nat
    BY <2>1, MaildropAssumption DEF ClientRecord
  <2> QED
    BY <2>2, <2>3
<1>. HIDE DEF count, size, back
<1>6. client' = [client EXCEPT ![c] = r]
  BY <1>4 DEF MaildropInv
<1>7. dir' \in [User -> SUBSET Msg] /\ reply' \in Reply
  BY <1>4, <1>5, AnswerTypes DEF MaildropInv
<1>. HIDE DEF r
<1> QED
  BY <1>2, <1>6, <1>7, OneRecord

(* STAT, LIST and RETR only answer, with numbers. *)
LEMMA ReadOnlyStep ==
    ASSUME MaildropInv, NEW c \in Client, NEW n,
           handleStat(c) \/ handleList(c, n) \/ handleRetr(c, n)
    PROVE  MaildropInv'
<1>1. RecordOK(client[c]) /\ client[c] \in ClientRecord
  BY DEF MaildropInv, RecordOK
<1>2. CASE handleStat(c)
  <2>1. client[c].active_file_cant \in Nat /\ client[c].active_file_size \in Nat
    BY <1>1, MaildropAssumption DEF ClientRecord
  <2> QED
    BY <1>2, <2>1, AnswerStep, AnswerTypes DEF handleStat
<1>3. CASE pop3ReadListHeader(c)
  <2>1. Active(c) \in SUBSET DOMAIN client[c].files
    BY ActiveSlot
  <2>2. Cardinality(Active(c)) \in Nat
    BY <1>1, <2>1, SlotsOfRecord
  <2> QED
    BY <1>3, <2>2, AnswerStep, AnswerTypes DEF pop3ReadListHeader
<1>4. CASE n \in Active(c) /\ answer(OK(<<n, OctetsOf(c, n)>>))
  <2>1. OK(<<n, OctetsOf(c, n)>>) \in Reply
    BY <1>4, ActiveSlot, AnswerTypes
  <2> QED
    BY <1>4, <2>1, AnswerStep
<1>5. CASE /\ n \in Active(c)
           /\ answer(Answer("WRITE_FILE", TRUE, <<n, OctetsOf(c, n)>>))
  <2>1. Answer("WRITE_FILE", TRUE, <<n, OctetsOf(c, n)>>) \in Reply
    BY <1>5, ActiveSlot, AnswerTypes
  <2> QED
    BY <1>5, <2>1, AnswerStep
<1>6. CASE answer(ERR)
  BY <1>6, AnswerStep, AnswerTypes
<1> QED
  BY <1>2, <1>3, <1>4, <1>5, <1>6 DEF handleList, handleRetr

LEMMA CommandStep ==
    ASSUME MaildropInv, NEW c \in Client, NEW cmd \in Command,
           executeCommand(c, cmd[1], cmd[2])
    PROVE  MaildropInv'
<1>. DEFINE verb == cmd[1]
            arg  == cmd[2]
<1>1. CASE answer(Answer("ERROR_STATE", FALSE, <<>>)) \/ answer(ERR)
           \/ handleNoop \/ handleCapa
  BY <1>1, AnswerStep, AnswerTypes DEF handleNoop, handleCapa
<1>2. CASE client[c].state # "TRANSACTION" /\ nonAuthTable(c, verb, arg)
  <2>1. CASE handleQuitNonAuth(c)
    <3>1. client' = [client EXCEPT ![c].state = "CLOSED"]
          /\ reply' \in Reply /\ dir' = dir
      BY <2>1, AnswerTypes DEF handleQuitNonAuth
    <3>2. "CLOSED" \in State \ {"TRANSACTION"}
      BY DEF State
    <3> QED
      BY <3>1, <3>2, StateStep
  <2>2. CASE verb = "USER" /\ handleUser(c, arg)
    <3>1. arg \in User \cup {NULL}
      BY <2>2 DEF Command
    <3>2. client' = [client EXCEPT ![c].name = arg]
          /\ reply' \in Reply /\ dir' = dir
      BY <2>2, AnswerTypes DEF handleUser
    <3> QED
      BY <1>2, <3>1, <3>2, NameStep
  <2>3. CASE \E valid \in BOOLEAN : handlePass(c, valid)
    BY <1>2, <2>3, PassStep
  <2>4. CASE handleCapa
    BY <2>4, <1>1
  <2> QED
    BY <1>2, <2>1, <2>2, <2>3, <2>4 DEF nonAuthTable
<1>3. CASE client[c].state = "TRANSACTION" /\ authTable(c, verb, arg)
  BY <1>1, <1>3, QuitAuthStep, ReadOnlyStep, DeleStep, ResetStep DEF authTable
<1> QED
  BY <1>1, <1>2, <1>3 DEF executeCommand

(* The invariant is preserved by every step of the specification. *)
LEMMA NextStep ==
    ASSUME MaildropInv, [Next]_maildropVars
    PROVE  MaildropInv'
<1>1. CASE UNCHANGED maildropVars
  BY <1>1 DEF MaildropInv, maildropVars
<1>2. ASSUME NEW c \in Client, pop3_handle_connection(c)
      PROVE  MaildropInv'
  <2>1. client' = [client EXCEPT ![c].state = "AUTHORIZATION"]
        /\ reply' \in Reply /\ dir' = dir
    BY <1>2, AnswerTypes DEF pop3_handle_connection
  <2>2. "AUTHORIZATION" \in State \ {"TRANSACTION"}
    BY DEF State
  <2> QED
    BY <2>1, <2>2, StateStep
<1>3. ASSUME NEW c \in Client, closeConnection(c)
      PROVE  MaildropInv'
  <2>1. client' = [client EXCEPT ![c] = NoClient]
        /\ reply' \in Reply /\ dir' \in [User -> SUBSET Msg]
    BY <1>3, AnswerTypes DEF closeConnection, MaildropInv
  <2> QED
    BY <2>1, FreshRecord, OneRecord
<1>4. ASSUME NEW u \in User, NEW m \in Msg, Deliver(u, m)
      PROVE  MaildropInv'
  BY <1>4, AnswerTypes DEF Deliver, MaildropInv
<1>5. CASE sigterm_handler
  <2>1. client' = [c \in Client |-> NoClient] /\ reply' \in Reply
    BY <1>5, AnswerTypes DEF sigterm_handler
  <2>2. NoClient \in ClientRecord
    BY FreshRecord DEF RecordOK
  <2>3. client' \in [Client -> ClientRecord]
        /\ \A c \in Client : RecordOK(client'[c])
    BY <2>1, <2>2, FreshRecord
  <2>4. dir' \in [User -> SUBSET Msg]
    BY <1>5 DEF sigterm_handler, MaildropInv, DirWithout
  <2> QED
    BY <2>1, <2>3, <2>4 DEF MaildropInv
<1> QED
  BY <1>1, <1>2, <1>3, <1>4, <1>5, CommandStep DEF Next, ClientStep

(* MaildropInv is an invariant of the command layer. *)
THEOREM MaildropInvariant == Spec => []MaildropInv
<1>1. Init => MaildropInv
  BY FreshRecord, AnswerTypes DEF Init, MaildropInv, RecordOK
<1> QED
  BY <1>1, NextStep, PTL DEF Spec

-----------------------------------------------------------------------------
(* The properties of Maildrop, for every instance. *)

(* The types of the state, and with them that no counter of a session      *)
(* wraps below zero and that a listing leaves its end marker a slot.       *)
THEOREM TypeCorrect == Spec => []TypeOK
<1>1. MaildropInv => TypeOK
  BY DEF MaildropInv, RecordOK, TypeOK, Reply
<1> QED
  BY <1>1, MaildropInvariant, PTL

(* The incremental counters agree with the marks they summarise. *)
THEOREM AccountingCorrect == Spec => []Accounting
<1>1. ASSUME MaildropInv, NEW c \in Client
      PROVE  /\ client[c].active_file_cant = Cardinality(Kept(c))
             /\ client[c].active_file_size = Octets[FilesAt(c, Kept(c))]
  <2>1. RecordOK(client[c])
    BY <1>1 DEF MaildropInv
  <2>2. Kept(c) = KeptSlots(client[c])
        /\ FilesAt(c, Kept(c)) = FilesIn(client[c], KeptSlots(client[c]))
    BY DEF Kept, KeptSlots, Marked, FilesAt, FilesIn
  <2> QED
    BY <2>1, <2>2 DEF RecordOK
<1>2. MaildropInv => Accounting
  BY <1>1 DEF Accounting
<1> QED
  BY <1>2, MaildropInvariant, PTL

(* In a session whose maildir was listed, the slots up to file_cant are    *)
(* the whole listing: STAT and LIST speak of the same messages.            *)
THEOREM StatListCorrect == Spec => []StatAgreesWithList
<1>1. ASSUME MaildropInv, NEW c \in Client,
             client[c].state = "TRANSACTION", client[c].name \in HasDir
      PROVE  /\ client[c].active_file_cant = Cardinality(Active(c))
             /\ client[c].active_file_size = Octets[FilesAt(c, Active(c))]
  <2>1. RecordOK(client[c])
    BY <1>1 DEF MaildropInv
  <2>2. client[c].file_cant = Len(client[c].files)
    BY <1>1, <2>1 DEF RecordOK
  <2>3. Active(c) = KeptSlots(client[c])
    BY <2>1, <2>2, SlotsOfRecord DEF Active, Slots, Marked, KeptSlots
  <2>4. FilesAt(c, Active(c)) = FilesIn(client[c], KeptSlots(client[c]))
    BY <2>3 DEF FilesAt, FilesIn
  <2> QED
    BY <2>1, <2>3, <2>4 DEF RecordOK
<1>2. MaildropInv => StatAgreesWithList
  BY <1>1 DEF StatAgreesWithList
<1> QED
  BY <1>2, MaildropInvariant, PTL

-----------------------------------------------------------------------------
(* What QUIT reports. *)

(* A QUIT that answers +OK takes as many files out of the directory as it  *)
(* has slots to remove: no file is missing and none is listed twice.       *)
LEMMA QuitTakesRemoved ==
    ASSUME MaildropInv, NEW c \in Client, client[c].state = "TRANSACTION",
           Missing(c) = {}, dir' = DirWithout(c, Removed(c))
    PROVE  LET u == client[c].name
           IN  Cardinality(dir[u] \ dir'[u]) = Cardinality(Removed(c))
<1>. DEFINE u == client[c].name
            S == Removed(c)
            T == FilesAt(c, S)
            f == [i \in S |-> client[c].files[i]]
<1>1. RecordOK(client[c]) /\ dir \in [User -> SUBSET Msg]
  BY DEF MaildropInv
<1>2. u \in User /\ S \subseteq DOMAIN client[c].files
  BY <1>1, RemovedSlots DEF RecordOK, Marked
<1>3. IsFiniteSet(S)
  BY <1>1, <1>2, SlotsOfRecord
<1>4. T \subseteq dir[u]
  BY DEF FilesAt, Removed, Missing
<1>5. dir[u] \ dir'[u] = T
  <2>1. dir'[u] = dir[u] \ T
    BY <1>1, <1>2 DEF DirWithout
  <2> QED
    BY <1>4, <2>1
<1>6. f \in Bijection(S, T)
  <2>1. f \in [S -> T]
    BY DEF FilesAt
  <2>2. \A i, j \in S : f[i] = f[j] => i = j
    BY <1>1, <1>2 DEF RecordOK
  <2>3. \A t \in T : \E i \in S : f[i] = t
    BY DEF FilesAt
  <2> QED
    BY <2>1, <2>2, <2>3 DEF Bijection, Injection, IsInjective, Surjection
<1>7. ExistsBijection(S, T)
  BY <1>6 DEF ExistsBijection
<1>. HIDE DEF S, T
<1>8. Cardinality(T) = Cardinality(S)
  BY <1>3, <1>7, FS_Bijection
<1> QED
  BY <1>5, <1>8 DEF S

(* No step of another client touches the record of c. *)
LEMMA OthersUntouched ==
    ASSUME MaildropInv, NEW c \in Client, NEW d \in Client \ {c}, ClientStep(d)
    PROVE  client'[c] = client[c]
<1>1. client \in [Client -> ClientRecord]
  BY DEF MaildropInv
<1>2. CASE pop3_handle_connection(d) \/ closeConnection(d)
  BY <1>1, <1>2 DEF pop3_handle_connection, closeConnection
<1>3. ASSUME NEW verb, NEW arg, nonAuthTable(d, verb, arg)
      PROVE  client'[c] = client[c]
  <2>1. CASE handleQuitNonAuth(d) \/ handleUser(d, arg) \/ handleCapa
    BY <1>1, <2>1 DEF handleQuitNonAuth, handleUser, handleCapa, answer
  <2>2. ASSUME NEW valid \in BOOLEAN, handlePass(d, valid)
        PROVE  client'[c] = client[c]
    BY <1>1, <2>2 DEF handlePass
  <2> QED
    BY <1>3, <2>1, <2>2 DEF nonAuthTable
<1>4. ASSUME NEW verb, NEW arg, authTable(d, verb, arg)
      PROVE  client'[c] = client[c]
  <2>1. CASE handleQuitAuth(d)
    BY <1>1, <2>1 DEF handleQuitAuth
  <2>2. CASE handleDele(d, arg) \/ handleRset(d)
    BY <1>1, <2>2 DEF handleDele, handleRset, answer
  <2> QED
    BY <1>4, <2>1, <2>2 DEF authTable, handleStat, handleList, handleRetr,
       handleNoop, handleCapa, pop3ReadListHeader, answer
<1> QED
  BY <1>2, <1>3, <1>4 DEF ClientStep, executeCommand, answer

(* Only a QUIT that found all it looked for ends a session in CLOSED. *)
LEMMA ClosedByQuit ==
    ASSUME MaildropInv, [Next]_maildropVars, NEW c \in Client,
           client[c].state = "TRANSACTION", client'[c].state = "CLOSED"
    PROVE  /\ Missing(c) = {} /\ dir' = DirWithout(c, Removed(c))
           /\ reply' = OK(<<client[c].file_cant - Cardinality(Removed(c))>>)
<1>1. client \in [Client -> ClientRecord]
  BY DEF MaildropInv
<1>2. client' # client
  OBVIOUS
<1>3. ~sigterm_handler
  BY DEF sigterm_handler, NoClient
<1>4. ClientStep(c)
  <2>1. \A d \in Client \ {c} : ~ClientStep(d)
    BY OthersUntouched
  <2> QED
    BY <1>2, <1>3, <2>1 DEF Next, Deliver, maildropVars
<1>5. ~pop3_handle_connection(c) /\ ~closeConnection(c)
  BY <1>1 DEF pop3_handle_connection, closeConnection, NoClient
<1>6. PICK verb, arg : authTable(c, verb, arg)
  BY <1>2, <1>4, <1>5 DEF ClientStep, executeCommand, answer
<1>7. ~handleDele(c, arg) /\ ~handleRset(c)
  <2>1. client[c] \in ClientRecord
    BY <1>1
  <2>2. ASSUME NEW D, NEW m, NEW n,
               client' = [client EXCEPT ![c].to_delete = D,
                                        ![c].active_file_cant = m,
                                        ![c].active_file_size = n]
        PROVE  FALSE
    <3>. DEFINE r == [client[c] EXCEPT !.to_delete = D, !.active_file_cant = m,
                                       !.active_file_size = n]
    <3>1. client' = [client EXCEPT ![c] = r]
      BY <1>1, <2>2
    <3>2. r.state = client[c].state
      BY <2>1 DEF ClientRecord
    <3>. HIDE DEF r
    <3>3. client'[c] = r
      BY <1>1, <3>1
    <3> QED
      BY <3>2, <3>3
  <2>3. ASSUME handleDele(c, arg)
        PROVE  FALSE
    <3>. DEFINE D == client[c].to_delete \cup {arg}
                m == client[c].active_file_cant - 1
                n == client[c].active_file_size - OctetsOf(c, arg)
    <3>1. client' = [client EXCEPT ![c].to_delete = D,
                                   ![c].active_file_cant = m,
                                   ![c].active_file_size = n]
      BY <1>1, <1>2, <2>1, <2>3 DEF handleDele, answer, ClientRecord
    <3>. HIDE DEF D, m, n
    <3> QED
      BY <3>1, <2>2
  <2>4. ASSUME handleRset(c)
        PROVE  FALSE
    <3>. DEFINE back == Slots(c) \cap Marked(c)
                D == client[c].to_delete \ back
                m == client[c].active_file_cant + Cardinality(back)
                n == client[c].active_file_size + Octets[FilesAt(c, back)]
    <3>1. client' = [client EXCEPT ![c].to_delete = D,
                                   ![c].active_file_cant = m,
                                   ![c].active_file_size = n]
      BY <1>1, <2>1, <2>4 DEF handleRset, ClientRecord
    <3>. HIDE DEF D, m, n
    <3> QED
      BY <3>1, <2>2
  <2> QED
    BY <2>3, <2>4
<1>8. handleQuitAuth(c)
  BY <1>2, <1>6, <1>7 DEF authTable, handleStat, handleList, handleRetr,
     handleNoop, handleCapa, pop3ReadListHeader, answer
<1>9. Missing(c) = {}
  <2>1. client[c] \in ClientRecord
    BY <1>1
  <2>2. ASSUME NEW n, client' = [client EXCEPT ![c].state = "UPDATE",
                                               ![c].file_cant = n]
        PROVE  FALSE
    BY <1>1, <2>1, <2>2 DEF ClientRecord
  <2> QED
    BY <1>8, <2>2 DEF handleQuitAuth
<1> QED
  BY <1>8, <1>9 DEF handleQuitAuth

(* The number of messages left that a successful QUIT reports is the       *)
(* listing less the files that very QUIT took out of the directory.        *)
THEOREM QuitCountCorrect == Spec => QuitCountsWhatItRemoved
<1>. DEFINE Counted ==
       \A c \in Client :
          client[c].state = "TRANSACTION" /\ client'[c].state = "CLOSED"
            => LET u == client[c].name
               IN  reply'.arg =
                     <<client[c].file_cant - Cardinality(dir[u] \ dir'[u])>>
<1>1. MaildropInv /\ [Next]_maildropVars => [Counted]_maildropVars
  <2>1. ASSUME MaildropInv, [Next]_maildropVars, NEW c \in Client,
               client[c].state = "TRANSACTION", client'[c].state = "CLOSED"
        PROVE  reply'.arg = <<client[c].file_cant
                      - Cardinality(dir[client[c].name] \ dir'[client[c].name])>>
    <3>1. /\ Missing(c) = {} /\ dir' = DirWithout(c, Removed(c))
          /\ reply' = OK(<<client[c].file_cant - Cardinality(Removed(c))>>)
      BY <2>1, ClosedByQuit
    <3>2. Cardinality(dir[client[c].name] \ dir'[client[c].name])
            = Cardinality(Removed(c))
      BY <2>1, <3>1, QuitTakesRemoved
    <3> QED
      BY <3>1, <3>2 DEF OK, Answer
  <2> QED
    BY <2>1
<1> QED
  BY <1>1, MaildropInvariant, PTL DEF Spec, QuitCountsWhatItRemoved

-----------------------------------------------------------------------------
(* -- The loop of QUIT, turn by turn -- *)

QuitState == [removed : SUBSET Nat, cant : Int, failed : BOOLEAN]

(* Q[n] is what the loop has after its first n turns. *)
QuitRun(Q, c) ==
    LET N == client[c].file_cant
    IN  /\ Q \in [0 .. N -> QuitState]
        /\ Q[0] = [removed |-> {}, cant |-> N, failed |-> FALSE]
        /\ Q[N] = QuitLoop(c)
        /\ \A n \in 1 .. N : Q[n] = QuitTurn(c, Q[n - 1], n)

LEMMA TurnType ==
    ASSUME NEW c, NEW q \in QuitState, NEW i \in Nat
    PROVE  QuitTurn(c, q, i) \in QuitState
<1>1. q.removed \in SUBSET Nat /\ q.cant \in Int /\ q.failed \in BOOLEAN
  BY DEF QuitState
<1>2. [removed |-> q.removed \cup {i}, cant |-> q.cant - 1, failed |-> FALSE] \in QuitState
  BY <1>1 DEF QuitState
<1>3. [q EXCEPT !.failed = TRUE] \in QuitState
  BY DEF QuitState
<1> QED
  BY <1>2, <1>3 DEF QuitTurn

LEMMA QuitTurns ==
    ASSUME MaildropInv, NEW c \in Client
    PROVE  \E Q : QuitRun(Q, c)
<1>. DEFINE N == client[c].file_cant
<1>. DEFINE S == QuitState
<1>. DEFINE base == [removed |-> {}, cant |-> N, failed |-> FALSE]
<1>. DEFINE h == [x \in S \X (1 .. N) |-> QuitTurn(c, x[1], x[2])]
<1>. DEFINE s == [i \in 1 .. N |-> i]
<1>1. N \in Nat
  BY DEF MaildropInv, RecordOK, ClientRecord
<1>2. base \in S
  BY <1>1 DEF QuitState
<1>3. h \in [S \X (1 .. N) -> S]
  BY <1>1, TurnType
<1>4. \A q \in S, n \in 1 .. N : h[<<q, n>>] = QuitTurn(c, q, n)
  OBVIOUS
<1>. HIDE DEF S, h, base, N
<1>5. PICK g : FoldsSets(g, S, N, base, h)
  BY <1>1, <1>2, <1>3, FoldExists
<1>6. g = [t \in SUBSET (DOMAIN s) |->
             IF t = {} THEN base ELSE QuitTurn(c, g[t \ {Max(t)}], s[Max(t)])]
  <2>1. ASSUME NEW t \in SUBSET (1 .. N), t # {}
        PROVE  h[<<g[t \ {Max(t)}], Max(t)>>] = QuitTurn(c, g[t \ {Max(t)}], s[Max(t)])
    <3>1. Max(t) \in 1 .. N /\ t \ {Max(t)} \in SUBSET (1 .. N)
      BY <1>1, <2>1, MaxIn
    <3> QED
      BY <1>4, <1>5, <3>1 DEF FoldsSets
  <2> QED
    BY <1>1, <1>5, <2>1 DEF FoldsSets
<1>7. PICK iter :
         /\ iter = [t \in SUBSET (DOMAIN s) |->
                      IF t = {} THEN base
                      ELSE QuitTurn(c, iter[t \ {Max(t)}], s[Max(t)])]
         /\ QuitLoop(c) = iter[DOMAIN s]
  BY <1>6 DEF QuitLoop, FoldLeft, MapThenFoldSet, base, N, Slots
<1>8. iter[{}] = base
  BY <1>7
<1>9. \A t \in SUBSET (1 .. N) : t # {} /\ iter[t \ {Max(t)}] \in S
         => iter[t] = h[<<iter[t \ {Max(t)}], Max(t)>>]
  <2>. SUFFICES ASSUME NEW t \in SUBSET (1 .. N), t # {}, iter[t \ {Max(t)}] \in S
                PROVE  iter[t] = h[<<iter[t \ {Max(t)}], Max(t)>>]
    OBVIOUS
  <2>1. Max(t) \in 1 .. N
    BY <1>1, MaxIn
  <2>2. iter[t] = QuitTurn(c, iter[t \ {Max(t)}], Max(t))
    BY <1>1, <1>7, <2>1
  <2> QED
    BY <1>4, <2>1, <2>2
<1>10. FoldsWithin(iter, S, N, base, h)
  BY <1>8, <1>9 DEF FoldsWithin
<1>11. PICK Q : FoldsUpTo(Q, iter[1 .. N], S, N, base, h)
  BY <1>1, <1>2, <1>3, <1>10, FoldSteps
<1>12. ASSUME NEW n \in 1 .. N
       PROVE  Q[n] = QuitTurn(c, Q[n - 1], n)
  <2>1. n - 1 \in 0 .. N
    BY <1>1
  <2> QED
    BY <1>4, <1>11, <2>1 DEF FoldsUpTo
<1> QED
  BY <1>1, <1>7, <1>11, <1>12 DEF S, base, N, FoldsUpTo, QuitRun

(* After n turns: what is to be removed of the first n slots is, and the   *)
(* loop is past its bound if it was too short for one of them.             *)
Turned(c, q, n) ==
    /\ q.removed = {i \in Removed(c) : i <= n}
    /\ q.cant = client[c].file_cant - Cardinality(q.removed)
    /\ q.failed <=> \E i \in Missing(c) : i <= n
    /\ q.failed \/ q.cant <= n \/ \A i \in Marked(c) : i <= n => i \in Reached(c)

(* Among the marked slots those that are reached come first. *)
LEMMA ReachedFirst ==
    ASSUME MaildropInv, NEW c \in Client, NEW i \in Reached(c), NEW j \in Marked(c), j < i
    PROVE  j \in Reached(c)
<1>. DEFINE Below(n) == Marked(c) \cap 1 .. (n - 1)
<1>1. client[c] \in ClientRecord /\ RecordOK(client[c])
  BY DEF MaildropInv, RecordOK
<1>2. Marked(c) \subseteq DOMAIN client[c].files /\ DOMAIN client[c].files \subseteq Nat \ {0}
      /\ client[c].file_cant \in Nat
  BY <1>1 DEF RecordOK, Marked, ClientRecord
<1>3. i \in Marked(c) /\ i <= client[c].file_cant - Cardinality(Below(i))
  BY DEF Reached
<1>4. Below(j) \subseteq Below(i)
  BY <1>2, <1>3
<1>5. IsFiniteSet(Below(i)) /\ Cardinality(Below(i)) \in Nat
  <2>1. Below(i) \in SUBSET DOMAIN client[c].files
    BY <1>2
  <2>. HIDE DEF Below
  <2> QED
    BY <1>1, <2>1, SlotsOfRecord
<1>6. Cardinality(Below(j)) <= Cardinality(Below(i)) /\ Cardinality(Below(j)) \in Nat
  <2>. HIDE DEF Below
  <2> QED
    BY <1>4, <1>5, FS_Subset, FS_CardinalityType
<1>7. i \in Nat /\ j \in Nat
  BY <1>2, <1>3
<1>8. j <= client[c].file_cant - Cardinality(Below(j))
  <2>. HIDE DEF Below
  <2> QED
    BY <1>2, <1>3, <1>5, <1>6, <1>7
<1> QED
  BY <1>8 DEF Reached

LEMMA NextTurn ==
    ASSUME MaildropInv, NEW c \in Client, client[c].state = "TRANSACTION",
           NEW n \in 1 .. client[c].file_cant, NEW q \in QuitState, Turned(c, q, n - 1)
    PROVE  Turned(c, QuitTurn(c, q, n), n)
<1>. DEFINE r == client[c]
<1>. DEFINE Upto(m) == {i \in Removed(c) : i <= m}
<1>1. RecordOK(r) /\ r.file_cant \in Nat /\ n \in Nat \ {0} /\ r \in ClientRecord
  BY DEF MaildropInv, RecordOK, ClientRecord
<1>2. /\ Marked(c) \subseteq DOMAIN r.files /\ DOMAIN r.files \subseteq Nat \ {0}
      /\ Reached(c) \subseteq Marked(c) /\ Missing(c) \subseteq Reached(c)
      /\ Removed(c) \subseteq Reached(c)
  BY <1>1 DEF RecordOK, Marked, ClientRecord, Reached, Missing, Removed
<1>3. \A i \in Nat : i <= n <=> i <= n - 1 \/ i = n
  BY <1>1
<1>4. q.cant \in Int /\ q.failed \in BOOLEAN /\ q.removed = Upto(n - 1)
      /\ q.cant = r.file_cant - Cardinality(q.removed)
  BY DEF QuitState, Turned
<1>5. IsFiniteSet(Upto(n - 1)) /\ Cardinality(Upto(n - 1)) \in Nat
  <2>1. Upto(n - 1) \in SUBSET DOMAIN r.files
    BY <1>2
  <2>. HIDE DEF Upto
  <2> QED
    BY <1>1, <2>1, SlotsOfRecord
<1>6. CASE q.failed
  <2>1. PICK j \in Missing(c) : j <= n - 1
    BY <1>6 DEF Turned
  <2>2. j \in Nat /\ j < n
    BY <1>1, <1>2, <2>1
  <2>3. n \notin Removed(c)
    BY <1>1, <2>1, <2>2 DEF Removed
  <2>4. Upto(n) = Upto(n - 1)
    BY <1>2, <1>3, <2>3
  <2>5. QuitTurn(c, q, n) = q
    BY <1>6 DEF QuitTurn
  <2>6. j <= n
    BY <1>1, <2>2
  <2> QED
    BY <1>4, <1>6, <2>1, <2>4, <2>5, <2>6 DEF Turned
<1>7. CASE ~q.failed /\ n \notin Marked(c)
  <2>1. Upto(n) = Upto(n - 1)
    BY <1>2, <1>3, <1>7
  <2>2. QuitTurn(c, q, n) = q
    BY <1>7 DEF QuitTurn
  <2>3. (\E i \in Missing(c) : i <= n) <=> (\E i \in Missing(c) : i <= n - 1)
    BY <1>2, <1>3, <1>7
  <2>4. q.cant <= n - 1 => q.cant <= n
    BY <1>1, <1>4
  <2>5. (\A i \in Marked(c) : i <= n - 1 => i \in Reached(c))
          => \A i \in Marked(c) : i <= n => i \in Reached(c)
    BY <1>2, <1>3, <1>7
  <2> QED
    BY <1>4, <2>1, <2>2, <2>3, <2>4, <2>5 DEF Turned
<1>8. CASE ~q.failed /\ n \in Marked(c)
  <2>1. \A i \in Missing(c) : ~(i <= n - 1)
    BY <1>8 DEF Turned
  <2>2. ASSUME \A i \in Marked(c) : i <= n - 1 => i \in Reached(c)
        PROVE  Upto(n - 1) = Marked(c) \cap 1 .. (n - 1)
    <3>1. ASSUME NEW i \in Marked(c), i <= n - 1
          PROVE  i \in Removed(c)
      <4>1. i \in Reached(c) /\ i \in Nat /\ Missing(c) \subseteq Nat
        BY <1>2, <2>2, <3>1
      <4>2. \A j \in Missing(c) : i < j
        BY <1>1, <2>1, <3>1, <4>1
      <4> QED
        BY <4>1, <4>2 DEF Removed
    <3>2. \A i \in Marked(c) : i <= n - 1 <=> i \in 1 .. (n - 1)
      BY <1>1, <1>2
    <3> QED
      BY <1>2, <3>1, <3>2
  <2>3. n \in Reached(c) <=> n <= q.cant
    <3>1. ASSUME \A i \in Marked(c) : i <= n - 1 => i \in Reached(c)
          PROVE  n \in Reached(c) <=> n <= q.cant
      <4>1. q.removed = Marked(c) \cap 1 .. (n - 1)
        BY <1>4, <2>2, <3>1
      <4>2. q.cant = r.file_cant - Cardinality(Marked(c) \cap 1 .. (n - 1))
        BY <1>4, <4>1
      <4> QED
        BY <1>8, <4>2 DEF Reached
    <3>2. ASSUME q.cant <= n - 1, n \in Reached(c)
          PROVE  \A i \in Marked(c) : i <= n - 1 => i \in Reached(c)
      <4>1. ASSUME NEW i \in Marked(c), i <= n - 1
            PROVE  i < n
        BY <1>1, <1>2, <4>1
      <4> QED
        BY <3>2, <4>1, ReachedFirst
    <3>3. q.cant <= n - 1 => ~(n <= q.cant)
      BY <1>1, <1>4
    <3> QED
      BY <1>8, <3>1, <3>2, <3>3 DEF Turned
  <2>4. CASE n \notin Reached(c)
    <3>1. QuitTurn(c, q, n) = q /\ q.cant <= n
      <4>1. n > q.cant
        BY <1>1, <1>4, <2>3, <2>4
      <4> QED
        BY <1>1, <1>4, <4>1 DEF QuitTurn
    <3>2. Upto(n) = Upto(n - 1)
      BY <1>2, <1>3, <2>4
    <3>3. \A i \in Missing(c) : ~(i <= n)
      BY <1>2, <1>3, <2>1, <2>4
    <3> QED
      BY <1>4, <1>8, <3>1, <3>2, <3>3 DEF Turned
  <2>5. CASE n \in Reached(c)
    <3>1. \A i \in Marked(c) : i <= n => i \in Reached(c)
      <4>1. ASSUME NEW i \in Marked(c), i <= n
            PROVE  i = n \/ i < n
        BY <1>1, <1>2, <4>1
      <4> QED
        BY <2>5, <4>1, ReachedFirst
    <3>2. ~(n > q.cant)
      BY <1>1, <1>4, <2>3, <2>5
    <3>3. r.files[n] \notin FilesAt(c, q.removed)
      <4>1. q.removed \subseteq DOMAIN r.files /\ n \in DOMAIN r.files /\ n \notin q.removed
        BY <1>1, <1>2, <1>4, <1>8
      <4> QED
        BY <1>1, <4>1 DEF RecordOK, FilesAt
    <3>4. CASE n \in Missing(c)
      <4>1. QuitTurn(c, q, n) = [q EXCEPT !.failed = TRUE]
        BY <1>8, <3>2, <3>4 DEF QuitTurn, Missing
      <4>2. n \notin Removed(c)
        BY <1>1, <3>4 DEF Removed
      <4>3. Upto(n) = Upto(n - 1)
        BY <1>2, <1>3, <4>2
      <4>4. QuitTurn(c, q, n).failed /\ QuitTurn(c, q, n).removed = q.removed
            /\ QuitTurn(c, q, n).cant = q.cant
        BY <4>1 DEF QuitState
      <4>5. n <= n
        BY <1>1
      <4> QED
        BY <1>4, <3>4, <4>3, <4>4, <4>5 DEF Turned
    <3>5. CASE n \notin Missing(c)
      <4>1. r.files[n] \in dir[r.name] \ FilesAt(c, q.removed)
        BY <2>5, <3>3, <3>5 DEF Missing
      <4>2. QuitTurn(c, q, n) = [removed |-> q.removed \cup {n}, cant |-> q.cant - 1,
                                 failed |-> FALSE]
        BY <1>8, <3>2, <4>1 DEF QuitTurn
      <4>3. \A i \in Missing(c) : ~(i <= n)
        BY <1>2, <1>3, <2>1, <3>5
      <4>4. n \in Removed(c)
        <5>1. \A i \in Missing(c) : i \in Nat
          BY <1>2
        <5>2. \A i \in Missing(c) : n < i
          BY <1>1, <4>3, <5>1
        <5> QED
          BY <2>5, <5>2 DEF Removed
      <4>5. Upto(n) = Upto(n - 1) \cup {n}
        BY <1>1, <1>2, <1>3, <4>4
      <4>6. n \notin Upto(n - 1)
        BY <1>1
      <4>7. Cardinality(Upto(n - 1) \cup {n}) = Cardinality(Upto(n - 1)) + 1
        <5>. HIDE DEF Upto
        <5> QED
          BY <1>5, <4>6, FS_AddElement
      <4>8. q.cant - 1 = r.file_cant - Cardinality(Upto(n))
        <5>. HIDE DEF Upto
        <5> QED
          BY <1>1, <1>4, <1>5, <4>5, <4>7
      <4>9. QuitTurn(c, q, n).removed = Upto(n) /\ QuitTurn(c, q, n).failed = FALSE
            /\ QuitTurn(c, q, n).cant = r.file_cant - Cardinality(Upto(n))
        BY <1>4, <4>2, <4>5, <4>8
      <4> QED
        BY <3>1, <4>3, <4>9 DEF Turned
    <3> QED
      BY <3>4, <3>5
  <2> QED
    BY <2>4, <2>5
<1> QED
  BY <1>4, <1>6, <1>7, <1>8

LEMMA LoopRemoves == MaildropInv => RemovedIsTheLoop
<1>. SUFFICES ASSUME MaildropInv, NEW c \in Client, client[c].state = "TRANSACTION"
              PROVE  QuitLoop(c) = [removed |-> Removed(c),
                                    cant    |-> client[c].file_cant - Cardinality(Removed(c)),
                                    failed  |-> Missing(c) # {}]
  BY DEF RemovedIsTheLoop
<1>. DEFINE N == client[c].file_cant
<1>1. N \in Nat /\ RecordOK(client[c]) /\ client[c] \in ClientRecord
  BY DEF MaildropInv, RecordOK, ClientRecord
<1>2. PICK Q : QuitRun(Q, c)
  BY QuitTurns
<1>. DEFINE P == {n \in 0 .. N : Turned(c, Q[n], n)}
<1>3. Marked(c) \subseteq Nat \ {0} /\ Missing(c) \subseteq Marked(c)
      /\ Removed(c) \subseteq 1 .. N
  BY <1>1, RemovedSlots DEF RecordOK, Marked, ClientRecord, Missing, Reached
<1>4. 0 \in P
  <2>1. Q[0].removed = {} /\ Q[0].cant = N /\ Q[0].failed = FALSE
    BY <1>2 DEF QuitRun
  <2>2. Cardinality({}) = 0
    BY FS_EmptySet
  <2>3. {i \in Removed(c) : i <= 0} = {} /\ \A i \in Marked(c) : ~(i <= 0)
    BY <1>3
  <2>4. N = N - 0
    BY <1>1
  <2>5. Turned(c, Q[0], 0)
    BY <1>3, <2>1, <2>2, <2>3, <2>4 DEF Turned
  <2> QED
    BY <1>1, <2>5
<1>5. ASSUME NEW n \in 1 .. N, n - 1 \in P
      PROVE  n \in P
  <2>1. Q[n] = QuitTurn(c, Q[n - 1], n) /\ Q[n - 1] \in QuitState
    BY <1>1, <1>2, <1>5 DEF QuitRun
  <2>2. Turned(c, Q[n], n)
    BY <1>5, <2>1, NextTurn
  <2> QED
    BY <2>2
<1>6. N \in P
  <2>1. P \in SUBSET (0 .. N) /\ N \in 0 .. N
    BY <1>1
  <2>. HIDE DEF P, N
  <2> QED
    BY <1>1, <1>4, <1>5, <2>1, UpTo
<1>7. Turned(c, QuitLoop(c), N) /\ QuitLoop(c) \in QuitState
  BY <1>1, <1>2, <1>6 DEF QuitRun
<1>8. {i \in Removed(c) : i <= N} = Removed(c)
  BY <1>1, <1>3
<1>9. \A i \in Missing(c) : i <= N
  <2>1. ASSUME NEW i \in Reached(c)
        PROVE  i <= N
    <3>1. Marked(c) \cap 1 .. (i - 1) \in SUBSET DOMAIN client[c].files
      BY <1>1 DEF RecordOK, Marked
    <3>2. Cardinality(Marked(c) \cap 1 .. (i - 1)) \in Nat
      BY <1>1, <3>1, SlotsOfRecord
    <3>3. i \in Nat /\ i <= N - Cardinality(Marked(c) \cap 1 .. (i - 1))
      BY <1>3 DEF Reached
    <3> QED
      BY <1>1, <3>2, <3>3
  <2> QED
    BY <2>1 DEF Missing
<1>10. QuitLoop(c).removed = Removed(c) /\ QuitLoop(c).cant = N - Cardinality(Removed(c))
       /\ QuitLoop(c).failed = (Missing(c) # {})
  BY <1>7, <1>8, <1>9 DEF Turned, QuitState
<1> QED
  BY <1>7, <1>10 DEF QuitState

(* QUIT removes, counts and reports what the loop of handleQuitAuth does,  *)
(* though that loop shrinks its own bound.                                 *)
THEOREM QuitIsTheLoop == Spec => []RemovedIsTheLoop
BY LoopRemoves, MaildropInvariant, PTL

-----------------------------------------------------------------------------
(***************************************************************************)
(* Maildrop implements MaildropAbs, for any number of clients, users and   *)
(* messages: every step of the command layer is a step of the abstract     *)
(* maildrop or leaves its sessions and its boxes as they are.              *)
(***************************************************************************)
(* The directories that do not exist hold nothing. *)
NoDirEmpty == \A u \in User \ HasDir : dir[u] = {}

RefinementInv == MaildropInv /\ NoDirEmpty

(* The abstract session of one record: absSession is this, client by client.*)
InMaildrop(r) == r.state = "TRANSACTION" /\ r.name \in HasDir
SessionOf(r) ==
    IF InMaildrop(r)
    THEN [phase |-> "open", user |-> r.name, seen |-> Range(r.files),
          marked |-> FilesIn(r, r.to_delete)]
    ELSE Abs!Outside(IF r.state \in {"UPDATE", "CLOSED"} THEN "over" ELSE "none")

LEMMA AbsSession == absSession = [c \in Client |-> SessionOf(client[c])]
BY DEF absSession, SessionOf, InMaildrop, FilesAt, FilesIn, Marked, Abs!Outside

LEMMA AbsSessionPrime ==
    absSession' = [c \in Client |-> SessionOf(client'[c])]
BY DEF absSession, SessionOf, InMaildrop, FilesAt, FilesIn, Marked, Abs!Outside

(* A step of one client is a step of its abstract session. *)
LEMMA SessionChange ==
    ASSUME MaildropInv, NEW c \in Client, NEW r,
           client' = [client EXCEPT ![c] = r]
    PROVE  absSession' = [absSession EXCEPT ![c] = SessionOf(r)]
<1>1. \A d \in Client : client'[d] = IF d = c THEN r ELSE client[d]
  BY DEF MaildropInv
<1> QED
  BY <1>1, AbsSession, AbsSessionPrime

(* and none at all if the session stays what it was. *)
LEMMA SessionStutter ==
    ASSUME MaildropInv, NEW c \in Client, NEW r,
           client' = [client EXCEPT ![c] = r],
           SessionOf(r) = SessionOf(client[c])
    PROVE  absSession' = absSession
<1>1. \A d \in Client : client'[d] = IF d = c THEN r ELSE client[d]
  BY DEF MaildropInv
<1>2. \A d \in Client : SessionOf(client'[d]) = SessionOf(client[d])
  BY <1>1
<1> QED
  BY <1>2, AbsSession, AbsSessionPrime

-----------------------------------------------------------------------------
(* A listing is the whole directory. *)
LEMMA ListingIsDir ==
    ASSUME NEW S \in SUBSET Msg, NEW l \in SetToSeqs(S)
    PROVE  Range(l) = S
<1>1. IsFiniteSet(S)
  BY FS_Subset, MaildropAssumption
<1>2. Cardinality(S) \in Nat
  BY <1>1, FS_CardinalityType
<1>. DEFINE D == 1 .. Cardinality(S)
<1>3. l \in [D -> S] /\ \A i, j \in D : i # j => l[i] # l[j]
  BY DEF SetToSeqs
<1>4. l \in Injection(D, S)
  BY <1>3 DEF Injection, IsInjective
<1>5. ASSUME NEW n \in Nat
      PROVE  Cardinality(1 .. n) = n
  BY FS_Interval
<1>6. Cardinality(D) = Cardinality(S)
  BY <1>2, <1>5
<1>. HIDE DEF D
<1>7. l \in Surjection(D, S)
  BY <1>1, <1>4, <1>6, FS_Injection
<1> QED
  BY <1>3, <1>7 DEF Surjection, Range

-----------------------------------------------------------------------------
(* Each command, as a step of the abstract maildrop. *)

LEMMA PassRefines ==
    ASSUME RefinementInv, NEW c \in Client, client[c].state # "TRANSACTION",
           NEW valid \in BOOLEAN, handlePass(c, valid)
    PROVE  [Abs!Next]_Abs!vars
<1>. DEFINE u == client[c].name
            r == [client[c] EXCEPT !.state = "TRANSACTION"]
<1>1. MaildropInv /\ dir \in [User -> SUBSET Msg] /\ RecordOK(client[c])
      /\ client[c] \in ClientRecord
  BY DEF RefinementInv, MaildropInv
<1>2. dir' = dir
  BY DEF handlePass
<1>3. absSession[c].phase # "open"
  BY AbsSession DEF SessionOf, InMaildrop, Abs!Outside
<1>4. CASE UNCHANGED client
  <2>1. absSession' = absSession
    BY <1>4, AbsSession, AbsSessionPrime
  <2> QED
    BY <1>2, <2>1 DEF Abs!vars
<1>5. CASE client' = [client EXCEPT ![c].name = NULL]
  <2>. DEFINE s == [client[c] EXCEPT !.name = NULL]
  <2>1. client' = [client EXCEPT ![c] = s]
    BY <1>1, <1>5 DEF MaildropInv
  <2>2. s.state = client[c].state
    BY <1>1 DEF ClientRecord
  <2>3. SessionOf(s) = SessionOf(client[c])
    BY <2>2 DEF SessionOf, InMaildrop
  <2>. HIDE DEF s
  <2>4. absSession' = absSession
    BY <1>1, <2>1, <2>3, SessionStutter
  <2> QED
    BY <1>2, <2>4 DEF Abs!vars
<1>6. CASE /\ u \in HasDir
           /\ \E l \in SetToSeqs(dir[u]) :
                 client' = [client EXCEPT ![c] = populate_array(r, l)]
  <2>1. PICK l \in SetToSeqs(dir[u]) :
                client' = [client EXCEPT ![c] = populate_array(r, l)]
    BY <1>6
  <2>. DEFINE s == populate_array(r, l)
  <2>2. u \in User /\ dir[u] \in SUBSET Msg
    BY <1>1, <1>6, MaildropAssumption
  <2>3. Range(l) = dir[u]
    BY <2>2, ListingIsDir
  <2>4. /\ s.state = "TRANSACTION" /\ s.name = u /\ s.files = l
        /\ s.to_delete = {}
    BY <1>1 DEF populate_array, ClientRecord
  <2>5. SessionOf(s) = [phase |-> "open", user |-> u, seen |-> dir[u], marked |-> {}]
    BY <1>6, <2>3, <2>4 DEF SessionOf, InMaildrop, FilesIn
  <2>6. absSession' = [absSession EXCEPT ![c] = SessionOf(s)]
    BY <1>1, <2>1, SessionChange
  <2>7. absSession' = [absSession EXCEPT
                          ![c] = [phase |-> "open", user |-> u,
                                  seen |-> dir[u], marked |-> {}]]
    BY <2>5, <2>6
  <2>. HIDE DEF u
  <2>8. Abs!Open(c, u)
    BY <1>2, <1>3, <2>7 DEF Abs!Open
  <2> QED
    BY <2>2, <2>8 DEF Abs!Next
<1>7. CASE u \in User \ HasDir /\ client' = [client EXCEPT ![c] = r]
  <2>1. r.name = u /\ r.state = "TRANSACTION"
    BY <1>1 DEF ClientRecord
  <2>2. SessionOf(r) = Abs!NoSession
    BY <1>7, <2>1 DEF SessionOf, InMaildrop, Abs!NoSession
  <2>. HIDE DEF r
  <2>3. absSession' = [absSession EXCEPT ![c] = Abs!NoSession]
    BY <1>1, <1>7, <2>2, SessionChange
  <2>4. Abs!Leave(c)
    BY <1>2, <2>3 DEF Abs!Leave
  <2> QED
    BY <2>4 DEF Abs!Next
<1> QED
  BY <1>4, <1>5, <1>6, <1>7 DEF handlePass

LEMMA QuitRefines ==
    ASSUME RefinementInv, NEW c \in Client, client[c].state = "TRANSACTION",
           handleQuitAuth(c)
    PROVE  [Abs!Next]_Abs!vars
<1>. DEFINE left == client[c].file_cant - Cardinality(Removed(c))
            gone == FilesAt(c, Removed(c))
            u == client[c].name
<1>1. MaildropInv /\ dir \in [User -> SUBSET Msg] /\ RecordOK(client[c])
      /\ client[c] \in ClientRecord /\ NoDirEmpty
  BY DEF RefinementInv, MaildropInv
<1>2. PICK st \in {"UPDATE", "CLOSED"} :
         client' = [client EXCEPT ![c].state = st, ![c].file_cant = left]
  BY DEF handleQuitAuth
<1>. DEFINE r == [client[c] EXCEPT !.state = st, !.file_cant = left]
<1>3. client' = [client EXCEPT ![c] = r]
  BY <1>1, <1>2 DEF MaildropInv
<1>4. r.state = st
  BY <1>1 DEF ClientRecord
<1>5. SessionOf(r) = Abs!Over
  BY <1>4 DEF SessionOf, InMaildrop, Abs!Over
<1>. HIDE DEF r
<1>6. absSession' = [absSession EXCEPT ![c] = Abs!Over]
  BY <1>1, <1>3, <1>5, SessionChange
<1>7. dir' = [dir EXCEPT ![u] = @ \ gone] /\ u \in User
  BY <1>1 DEF handleQuitAuth, DirWithout, RecordOK
<1>8. CASE u \in HasDir
  <2>1. absSession[c] = [phase |-> "open", user |-> u, seen |-> Range(client[c].files),
                         marked |-> FilesAt(c, Marked(c))]
    BY <1>8, AbsSession DEF SessionOf, InMaildrop, FilesAt, FilesIn, Marked
  <2>2. gone \subseteq absSession[c].marked
    BY <1>1, <2>1, RemovedSlots DEF FilesAt
  <2>3. absSession[c].user = u /\ absSession[c].phase = "open"
    BY <2>1
  <2>4. gone \in SUBSET Msg
    <3>1. Removed(c) \in SUBSET DOMAIN client[c].files
      BY <1>1, RemovedSlots DEF Marked, RecordOK
    <3> QED
      BY <1>1, <3>1, SlotsOfRecord DEF FilesAt, FilesIn
  <2>. HIDE DEF gone, u
  <2>5. Abs!Expunge(c, gone)
    BY <1>6, <1>7, <2>2, <2>3 DEF Abs!Expunge
  <2> QED
    BY <2>4, <2>5 DEF Abs!Next
<1>9. CASE u \notin HasDir
  <2>1. dir[u] = {}
    BY <1>1, <1>7, <1>9 DEF NoDirEmpty
  <2>2. dir' = dir
    BY <1>1, <1>7, <2>1
  <2>3. absSession[c].phase # "open"
    BY <1>9, AbsSession DEF SessionOf, InMaildrop, Abs!Outside
  <2>4. Abs!SignOff(c)
    BY <1>6, <2>2, <2>3 DEF Abs!SignOff
  <2> QED
    BY <2>4 DEF Abs!Next
<1> QED
  BY <1>8, <1>9

LEMMA DeleRefines ==
    ASSUME RefinementInv, NEW c \in Client, client[c].state = "TRANSACTION",
           NEW n, handleDele(c, n)
    PROVE  [Abs!Next]_Abs!vars
<1>1. MaildropInv /\ RecordOK(client[c]) /\ client[c] \in ClientRecord
  BY DEF RefinementInv, MaildropInv
<1>2. CASE answer(ERR)
  BY <1>2, AbsSession, AbsSessionPrime DEF answer, Abs!vars
<1>3. CASE n \in Active(c) /\ dir' = dir
  <2>. DEFINE m == client[c].files[n]
              r == [client[c] EXCEPT !.to_delete = @ \cup {n},
                                     !.active_file_cant = @ - 1,
                                     !.active_file_size = @ - OctetsOf(c, n)]
  <2>1. client' = [client EXCEPT ![c] = r]
    BY <1>1, <1>3 DEF handleDele, MaildropInv
  <2>2. /\ r.state = client[c].state /\ r.name = client[c].name
        /\ r.files = client[c].files /\ r.to_delete = client[c].to_delete \cup {n}
    BY <1>1 DEF ClientRecord
  <2>. HIDE DEF r
  <2>3. CASE client[c].name \notin HasDir
    <3>1. SessionOf(r) = SessionOf(client[c])
      BY <2>2, <2>3 DEF SessionOf, InMaildrop
    <3> QED
      BY <1>1, <1>3, <2>1, <3>1, SessionStutter DEF Abs!vars
  <2>4. CASE client[c].name \in HasDir
    <3>1. n \in DOMAIN client[c].files /\ n \notin client[c].to_delete
      BY <1>1, <1>3, ActiveSlot
    <3>2. m \in Range(client[c].files) /\ m \in Msg
      BY <1>1, <3>1, SlotsOfRecord DEF Range
    <3>3. m \notin FilesIn(client[c], client[c].to_delete)
      BY <1>1, <3>1 DEF FilesIn, RecordOK
    <3>4. FilesIn(r, r.to_delete) = FilesIn(client[c], client[c].to_delete) \cup {m}
      BY <2>2 DEF FilesIn
    <3>5. absSession[c] = [phase |-> "open", user |-> client[c].name,
                           seen |-> Range(client[c].files),
                           marked |-> FilesIn(client[c], client[c].to_delete)]
      BY <2>4, AbsSession DEF SessionOf, InMaildrop
    <3>6. SessionOf(r) = [phase |-> "open", user |-> client[c].name,
                          seen |-> Range(client[c].files),
                          marked |-> FilesIn(client[c], client[c].to_delete)
                                       \cup {m}]
      BY <2>2, <2>4, <3>4 DEF SessionOf, InMaildrop
    <3>7. absSession' = [absSession EXCEPT ![c] = SessionOf(r)]
      BY <1>1, <2>1, SessionChange
    <3>. HIDE DEF m
    <3>8. SessionOf(r) = [absSession[c] EXCEPT !.marked = @ \cup {m}]
      <4>1. ASSUME NEW u, NEW S, NEW M, NEW t,
                   t = [phase |-> "open", user |-> u, seen |-> S, marked |-> M]
            PROVE  [t EXCEPT !.marked = @ \cup {m}]
                     = [phase |-> "open", user |-> u, seen |-> S, marked |-> M \cup {m}]
        BY <4>1
      <4> QED
        BY <3>5, <3>6, <4>1
    <3>9. absSession' = [absSession EXCEPT ![c].marked = @ \cup {m}]
      BY <3>7, <3>8, AbsSession
    <3>10. m \in absSession[c].seen \ absSession[c].marked
      BY <3>2, <3>3, <3>5
    <3>11. Abs!Mark(c, m)
      BY <1>3, <3>9, <3>10 DEF Abs!Mark
    <3> QED
      BY <3>2, <3>11 DEF Abs!Next
  <2> QED
    BY <2>3, <2>4
<1> QED
  BY <1>2, <1>3 DEF handleDele

LEMMA RsetRefines ==
    ASSUME RefinementInv, NEW c \in Client, client[c].state = "TRANSACTION",
           handleRset(c)
    PROVE  [Abs!Next]_Abs!vars
<1>1. MaildropInv /\ RecordOK(client[c]) /\ client[c] \in ClientRecord
  BY DEF RefinementInv, MaildropInv
<1>. DEFINE back == Slots(c) \cap Marked(c)
            r == [client[c] EXCEPT
                    !.to_delete = @ \ back,
                    !.active_file_cant = client[c].active_file_cant
                                           + Cardinality(back),
                    !.active_file_size = client[c].active_file_size
                                           + Octets[FilesAt(c, back)]]
<1>2. client' = [client EXCEPT ![c] = r] /\ dir' = dir
  BY <1>1 DEF handleRset, MaildropInv
<1>3. /\ r.state = client[c].state /\ r.name = client[c].name
      /\ r.files = client[c].files /\ r.to_delete = client[c].to_delete \ back
  BY <1>1 DEF ClientRecord
<1>. HIDE DEF r
<1>4. CASE client[c].name \notin HasDir
  <2>1. SessionOf(r) = SessionOf(client[c])
    BY <1>3, <1>4 DEF SessionOf, InMaildrop
  <2> QED
    BY <1>1, <1>2, <2>1, SessionStutter DEF Abs!vars
<1>5. CASE client[c].name \in HasDir
  <2>1. Slots(c) = DOMAIN client[c].files
    BY <1>1, <1>5, SlotsOfRecord DEF RecordOK, Slots
  <2>2. r.to_delete = {}
    BY <1>1, <1>3, <2>1 DEF RecordOK, Marked
  <2>3. SessionOf(r) = [phase |-> "open", user |-> client[c].name,
                        seen |-> Range(client[c].files), marked |-> {}]
    BY <1>3, <1>5, <2>2 DEF SessionOf, InMaildrop, FilesIn
  <2>4. absSession[c] = [phase |-> "open", user |-> client[c].name,
                         seen |-> Range(client[c].files),
                         marked |-> FilesIn(client[c], client[c].to_delete)]
    BY <1>5, AbsSession DEF SessionOf, InMaildrop
  <2>5. SessionOf(r) = [absSession[c] EXCEPT !.marked = {}]
    BY <2>3, <2>4
  <2>6. absSession' = [absSession EXCEPT ![c] = SessionOf(r)]
    BY <1>1, <1>2, SessionChange
  <2>7. absSession' = [absSession EXCEPT ![c].marked = {}]
    BY <2>5, <2>6, AbsSession
  <2>8. Abs!UnmarkAll(c)
    BY <1>2, <2>7 DEF Abs!UnmarkAll
  <2> QED
    BY <2>8 DEF Abs!Next
<1> QED
  BY <1>4, <1>5

LEMMA CommandRefines ==
    ASSUME RefinementInv, NEW c \in Client, NEW cmd \in Command,
           executeCommand(c, cmd[1], cmd[2])
    PROVE  [Abs!Next]_Abs!vars
<1>. DEFINE verb == cmd[1]
            arg  == cmd[2]
<1>1. MaildropInv /\ client[c] \in ClientRecord
  BY DEF RefinementInv, MaildropInv
<1>2. ASSUME UNCHANGED <<client, dir>>
      PROVE  [Abs!Next]_Abs!vars
  BY <1>2, AbsSession, AbsSessionPrime DEF Abs!vars
<1>3. CASE client[c].state # "TRANSACTION" /\ nonAuthTable(c, verb, arg)
  <2>1. CASE handleQuitNonAuth(c)
    <3>. DEFINE r == [client[c] EXCEPT !.state = "CLOSED"]
    <3>1. client' = [client EXCEPT ![c] = r] /\ dir' = dir
      BY <1>1, <2>1 DEF handleQuitNonAuth, MaildropInv
    <3>2. r.state = "CLOSED"
      BY <1>1 DEF ClientRecord
    <3>3. SessionOf(r) = Abs!Over
      BY <3>2 DEF SessionOf, InMaildrop, Abs!Over
    <3>. HIDE DEF r
    <3>4. absSession' = [absSession EXCEPT ![c] = Abs!Over]
      BY <1>1, <3>1, <3>3, SessionChange
    <3>5. absSession[c].phase # "open"
      BY <1>3, AbsSession DEF SessionOf, InMaildrop, Abs!Outside
    <3>6. Abs!SignOff(c)
      BY <3>1, <3>4, <3>5 DEF Abs!SignOff
    <3> QED
      BY <3>6 DEF Abs!Next
  <2>2. CASE handleUser(c, arg)
    <3>. DEFINE r == [client[c] EXCEPT !.name = arg]
    <3>1. client' = [client EXCEPT ![c] = r] /\ dir' = dir
      BY <1>1, <2>2 DEF handleUser, MaildropInv
    <3>2. r.state = client[c].state
      BY <1>1 DEF ClientRecord
    <3>3. SessionOf(r) = SessionOf(client[c])
      BY <1>3, <3>2 DEF SessionOf, InMaildrop
    <3>. HIDE DEF r
    <3> QED
      BY <1>1, <3>1, <3>3, SessionStutter DEF Abs!vars
  <2>3. CASE \E valid \in BOOLEAN : handlePass(c, valid)
    BY <1>3, <2>3, PassRefines
  <2>4. CASE handleCapa
    BY <1>2, <2>4 DEF handleCapa, answer
  <2> QED
    BY <1>3, <2>1, <2>2, <2>3, <2>4 DEF nonAuthTable
<1>4. CASE client[c].state = "TRANSACTION" /\ authTable(c, verb, arg)
  <2>1. CASE handleStat(c) \/ handleList(c, arg) \/ handleRetr(c, arg)
             \/ handleNoop \/ handleCapa
    BY <1>2, <2>1 DEF handleStat, handleList, handleRetr, handleNoop,
                      handleCapa, pop3ReadListHeader, answer
  <2> QED
    BY <1>4, <2>1, QuitRefines, DeleRefines, RsetRefines DEF authTable
<1> QED
  BY <1>2, <1>3, <1>4 DEF executeCommand, answer

-----------------------------------------------------------------------------
LEMMA NextRefines ==
    ASSUME RefinementInv, [Next]_maildropVars
    PROVE  [Abs!Next]_Abs!vars
<1>1. MaildropInv /\ dir \in [User -> SUBSET Msg]
  BY DEF RefinementInv, MaildropInv
<1>2. CASE UNCHANGED maildropVars
  BY <1>2, AbsSession, AbsSessionPrime DEF maildropVars, Abs!vars
<1>3. ASSUME NEW c \in Client, pop3_handle_connection(c)
      PROVE  [Abs!Next]_Abs!vars
  <2>. DEFINE r == [client[c] EXCEPT !.state = "AUTHORIZATION"]
  <2>1. client' = [client EXCEPT ![c] = r] /\ dir' = dir
    BY <1>1, <1>3 DEF pop3_handle_connection, MaildropInv
  <2>2. r.state = "AUTHORIZATION" /\ client[c].state = "NONE"
    BY <1>1, <1>3 DEF pop3_handle_connection, MaildropInv, ClientRecord
  <2>3. SessionOf(r) = SessionOf(client[c])
    BY <2>2 DEF SessionOf, InMaildrop
  <2>. HIDE DEF r
  <2> QED
    BY <1>1, <2>1, <2>3, SessionStutter DEF Abs!vars
<1>4. ASSUME NEW c \in Client, closeConnection(c)
      PROVE  [Abs!Next]_Abs!vars
  <2>1. client' = [client EXCEPT ![c] = NoClient] /\ dir' = dir
    BY <1>4 DEF closeConnection
  <2>2. SessionOf(NoClient) = Abs!NoSession
    BY DEF SessionOf, InMaildrop, NoClient, Abs!NoSession
  <2>3. absSession' = [absSession EXCEPT ![c] = Abs!NoSession]
    BY <1>1, <2>1, <2>2, SessionChange
  <2>4. Abs!Leave(c)
    BY <2>1, <2>3 DEF Abs!Leave
  <2> QED
    BY <2>4 DEF Abs!Next
<1>5. ASSUME NEW u \in User, NEW m \in Msg, Deliver(u, m)
      PROVE  [Abs!Next]_Abs!vars
  <2>1. absSession' = absSession
    BY <1>5, AbsSession, AbsSessionPrime DEF Deliver
  <2>2. Abs!Arrive(u, m)
    BY <1>5, <2>1 DEF Deliver, Abs!Arrive
  <2> QED
    BY <2>2 DEF Abs!Next
<1>6. CASE sigterm_handler
  <2>1. client' = [c \in Client |-> NoClient]
    BY <1>6 DEF sigterm_handler
  <2>2. SessionOf(NoClient) = Abs!NoSession
    BY DEF SessionOf, InMaildrop, NoClient, Abs!NoSession
  <2>3. absSession' = [c \in Client |-> Abs!NoSession]
    BY <2>1, <2>2, AbsSessionPrime
  <2>4. CASE dir' = dir
    <3>1. Abs!Stop
      BY <2>3, <2>4 DEF Abs!Stop
    <3> QED
      BY <3>1 DEF Abs!Next
  <2>5. ASSUME NEW c \in Client, client[c].state = "TRANSACTION",
               NEW S \in SUBSET Removed(c), dir' = DirWithout(c, S)
        PROVE  [Abs!Next]_Abs!vars
    <3>. DEFINE gone == FilesAt(c, S)
                u == client[c].name
    <3>1. u \in User /\ dir' = [dir EXCEPT ![u] = @ \ gone]
      BY <1>1, <2>5 DEF DirWithout, MaildropInv, RecordOK
    <3>2. CASE u \in HasDir
      <4>1. absSession[c] = [phase |-> "open", user |-> u, seen |-> Range(client[c].files),
                             marked |-> FilesAt(c, Marked(c))]
        BY <2>5, <3>2, AbsSession DEF SessionOf, InMaildrop, FilesAt, FilesIn, Marked
      <4>2. gone \in SUBSET absSession[c].marked
        BY <1>1, <2>5, <4>1, RemovedSlots DEF FilesAt
      <4>3. absSession[c].user = u /\ absSession[c].phase = "open"
        BY <4>1
      <4>. HIDE DEF gone, u
      <4>4. Abs!Stop
        BY <2>3, <3>1, <4>2, <4>3 DEF Abs!Stop
      <4> QED
        BY <4>4 DEF Abs!Next
    <3>3. CASE u \notin HasDir
      <4>1. dir[u] = {}
        BY <3>1, <3>3 DEF RefinementInv, NoDirEmpty
      <4>2. dir' = dir
        BY <1>1, <3>1, <4>1
      <4> QED
        BY <2>4, <4>2
    <3> QED
      BY <3>2, <3>3
  <2>6. dir' = dir \/ \E c \in Client : \E S \in SUBSET Removed(c) :
                        client[c].state = "TRANSACTION" /\ dir' = DirWithout(c, S)
    BY <1>6 DEF sigterm_handler
  <2> QED
    BY <2>4, <2>5, <2>6
<1> QED
  BY <1>2, <1>3, <1>4, <1>5, <1>6, CommandRefines DEF Next, ClientStep

(* Directories that do not exist stay empty. *)
LEMMA NoDirEmptyStep ==
    ASSUME MaildropInv, NoDirEmpty, [Next]_maildropVars
    PROVE  NoDirEmpty'
<1>1. dir \in [User -> SUBSET Msg]
  BY DEF MaildropInv
<1>2. \/ dir' = dir
      \/ \E u \in HasDir, m \in Msg : dir' = [dir EXCEPT ![u] = @ \cup {m}]
      \/ \E c \in Client : \E S : dir' = DirWithout(c, S)
  <2>1. ASSUME NEW c \in Client, NEW verb, NEW arg, executeCommand(c, verb, arg)
        PROVE  dir' = dir \/ dir' = DirWithout(c, Removed(c))
    <3>1. CASE nonAuthTable(c, verb, arg)
      BY <3>1 DEF nonAuthTable, handleQuitNonAuth, handleUser, handlePass,
                  handleCapa, answer
    <3>2. CASE authTable(c, verb, arg)
      BY <3>2 DEF authTable, handleQuitAuth, handleStat, handleList, handleRetr,
                  handleDele, handleNoop, handleRset, handleCapa,
                  pop3ReadListHeader, answer
    <3> QED
      BY <2>1, <3>1, <3>2 DEF executeCommand, answer
  <2>2. CASE sigterm_handler
    BY <2>2 DEF sigterm_handler
  <2>3. ASSUME NEW u \in User, NEW m \in Msg, Deliver(u, m)
        PROVE  u \in HasDir /\ dir' = [dir EXCEPT ![u] = @ \cup {m}]
    BY <2>3 DEF Deliver
  <2>4. ASSUME NEW c \in Client, pop3_handle_connection(c) \/ closeConnection(c)
        PROVE  dir' = dir
    BY <2>4 DEF pop3_handle_connection, closeConnection
  <2>5. CASE UNCHANGED maildropVars
    BY <2>5 DEF maildropVars
  <2>6. CASE \E c \in Client : ClientStep(c)
    <3>1. PICK c \in Client : ClientStep(c)
      BY <2>6
    <3> QED
      BY <2>1, <2>4, <3>1 DEF ClientStep
  <2>7. CASE \E u \in User, m \in Msg : Deliver(u, m)
    BY <2>3, <2>7
  <2> QED
    BY <2>2, <2>5, <2>6, <2>7 DEF Next
<1>3. CASE dir' = dir
  BY <1>3 DEF NoDirEmpty
<1>4. CASE \E u \in HasDir, m \in Msg : dir' = [dir EXCEPT ![u] = @ \cup {m}]
  BY <1>1, <1>4, MaildropAssumption DEF NoDirEmpty
<1>5. CASE \E c \in Client : \E S : dir' = DirWithout(c, S)
  BY <1>1, <1>5 DEF NoDirEmpty, DirWithout
<1> QED
  BY <1>2, <1>3, <1>4, <1>5

(* The command layer implements the abstract maildrop. *)
THEOREM Refinement == Spec => ImplementsMaildrop
<1>1. Init => NoDirEmpty
  BY DEF Init, NoDirEmpty
<1>2. Spec => []RefinementInv
  <2>1. MaildropInv /\ NoDirEmpty /\ [Next]_maildropVars => NoDirEmpty'
    BY NoDirEmptyStep
  <2> QED
    BY <1>1, <2>1, MaildropInvariant, PTL DEF Spec, RefinementInv
<1>3. Init => Abs!Init
  <2>1. ASSUME Init PROVE absSession = [c \in Client |-> Abs!NoSession]
    <3>1. SessionOf(NoClient) = Abs!NoSession
      BY DEF SessionOf, InMaildrop, NoClient, Abs!NoSession
    <3> QED
      BY <2>1, <3>1, AbsSession DEF Init
  <2> QED
    BY <2>1 DEF Init, Abs!Init
<1>4. RefinementInv /\ [Next]_maildropVars => [Abs!Next]_Abs!vars
  BY NextRefines
<1> QED
  BY <1>2, <1>3, <1>4, PTL DEF Spec, ImplementsMaildrop, Abs!Spec
=============================================================================
