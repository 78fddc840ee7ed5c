------------------------- MODULE AddressBookProofs --------------------------
(* Theorems about AddressBook for every value of its constants. *)
EXTENDS AddressBook, CountingLemmas

-----------------------------------------------------------------------------
LEMMA Spellings ==
  /\ None \notin StoredAddresses
  /\ \A u, a \in Addresses, c \in Categories, n \in Names :
        normalized(u, c, n, a) \in Entry
  BY SpellingAssumption, NoneAssumption
     DEF StoredAddresses, StoredNames, StoredCategories, normalized, Entry

LEMMA Becomes ==
  ASSUME TypeOK, NEW r \in Requests, NEW st, Become(r, st)
  PROVE  req'[r] = st /\ \A q \in Requests \ {r} : req'[q] = req[q]
  BY DEF Become, TypeOK

-----------------------------------------------------------------------------
(* Types. *)

LEMMA InitTypeOK == Init => TypeOK
  BY DEF Init, TypeOK, Idle, RequestState

LEMMA NextTypeOK == TypeOK /\ [Next]_vars => TypeOK'
<1> SUFFICES ASSUME TypeOK, [Next]_vars
             PROVE  TypeOK'
  OBVIOUS
<1>1. ASSUME NEW r \in Requests, NEW u \in Addresses, NEW a \in Addresses,
             NEW c \in Categories, NEW n \in Names, FindName(r, u, c, n, a)
      PROVE  TypeOK'
  <2>1. [at |-> "address.find", entry |-> normalized(u, c, n, a)] \in RequestState
    BY Spellings DEF RequestState
  <2> QED
    BY <1>1, <2>1 DEF FindName, Become, TypeOK
<1>2. ASSUME NEW r \in Requests, FindAddress(r)
      PROVE  TypeOK'
  <2>1. req[r].at = "address.find" /\ req[r] \in RequestState
    BY <1>2 DEF FindAddress, TypeOK
  <2>2. [req[r] EXCEPT !.at = "insert"] \in RequestState /\ Idle \in RequestState
    BY <2>1 DEF RequestState, Idle
  <2> QED
    BY <1>2, <2>2 DEF FindAddress, Become, Finish, TypeOK
<1>3. ASSUME NEW r \in Requests, NEW i \in Ids, InsertEntry(r, i)
      PROVE  TypeOK'
  <2>1. req[r].entry \in Entry
    BY <1>3 DEF InsertEntry, TypeOK, RequestState
  <2>2. Idle \in RequestState
    BY DEF RequestState, Idle
  <2> QED
    BY <1>3, <2>1, <2>2 DEF InsertEntry, Become, Finish, TypeOK
<1>4. ASSUME NEW r \in Requests, Abort(r)
      PROVE  TypeOK'
  <2>1. Idle \in RequestState
    BY DEF RequestState, Idle
  <2> QED
    BY <1>4, <2>1 DEF Abort, Become, Finish, TypeOK
<1>5. CASE UNCHANGED vars
  BY <1>5 DEF vars, TypeOK
<1> QED
  BY <1>1, <1>2, <1>3, <1>4, <1>5 DEF Next

-----------------------------------------------------------------------------
(* Steps, seen from one name. *)

LEMMA NameStep ==
  ASSUME TypeOK, [Next]_vars, NEW u \in StoredAddresses,
         NEW c \in StoredCategories, NEW n \in StoredNames
  PROVE  LET S == SameName(u, c, n)
             F == PastName(u, c, n)
         IN \/ S' = S /\ F' \subseteq F
            \/ S = {} /\ S' = {}
            \/ \E i, r : i \notin S /\ S' = S \cup {i} /\ r \in F /\ F' = F \ {r}
<1> DEFINE S == SameName(u, c, n)
           F == PastName(u, c, n)
<1>1. UNCHANGED entries => S' = S
  BY DEF SameName, InCategory
<1>2. ASSUME NEW r \in Requests, NEW v \in Addresses, NEW a \in Addresses,
             NEW d \in Categories, NEW m \in Names, FindName(r, v, d, m, a)
      PROVE  S' = S /\ (F' \subseteq F \/ S = {})
  <2> DEFINE e == normalized(v, d, m, a)
  <2>1. req'[r] = [at |-> "address.find", entry |-> e]
        /\ \A q \in Requests \ {r} : req'[q] = req[q]
    BY <1>2, Becomes DEF FindName
  <2>2. SameName(e.user, e.category, e.name) = {}
    BY <1>2 DEF FindName
  <2>3. CASE e.user = u /\ e.category = c /\ e.name = n
    BY <1>1, <1>2, <2>2, <2>3 DEF FindName
  <2>4. CASE ~(e.user = u /\ e.category = c /\ e.name = n)
    <3>1. r \notin F'
      BY <2>1, <2>4 DEF PastName
    <3>2. F' \subseteq F
      BY <2>1, <3>1 DEF PastName
    <3> QED
      BY <1>1, <1>2, <3>2 DEF FindName
  <2> QED
    BY <2>3, <2>4
<1>3. ASSUME NEW r \in Requests, FindAddress(r)
      PROVE  S' = S /\ F' \subseteq F
  <2>1. /\ \/ req'[r] = [req[r] EXCEPT !.at = "insert"]
           \/ req'[r] = Idle
        /\ \A q \in Requests \ {r} : req'[q] = req[q]
    BY <1>3, Becomes DEF FindAddress, Finish
  <2>2. req[r].at = "address.find"
    BY <1>3 DEF FindAddress
  <2>3. r \in F' => r \in F
    BY <2>1, <2>2 DEF PastName, Idle, TypeOK, RequestState
  <2>4. F' \subseteq F
    BY <2>1, <2>3 DEF PastName
  <2> QED
    BY <1>1, <1>3, <2>4 DEF FindAddress
<1>4. ASSUME NEW r \in Requests, NEW i \in Ids, InsertEntry(r, i)
      PROVE  \/ S' = S /\ F' \subseteq F
             \/ i \notin S /\ S' = S \cup {i} /\ r \in F /\ F' = F \ {r}
  <2>1. req'[r] = Idle /\ \A q \in Requests \ {r} : req'[q] = req[q]
    BY <1>4, Becomes DEF InsertEntry, Finish
  <2>2. F' = F \ {r}
    BY <2>1 DEF PastName, Idle
  <2>3. entries'[i] = req[r].entry /\ \A j \in Ids \ {i} : entries'[j] = entries[j]
    BY <1>4 DEF InsertEntry, TypeOK
  <2>4. i \notin S
    BY <1>4, Spellings DEF InsertEntry, SameName, InCategory, NoEntry
  <2>5. CASE r \in F
    <3>1. i \in S'
      BY <2>3, <2>5 DEF PastName, SameName, InCategory
    <3>2. S' = S \cup {i}
      BY <2>3, <2>4, <3>1 DEF SameName, InCategory
    <3> QED
      BY <2>2, <2>4, <2>5, <3>2
  <2>6. CASE r \notin F
    <3>1. i \notin S'
      BY <1>4, <2>3, <2>6 DEF InsertEntry, PastName, SameName, InCategory
    <3>2. S' = S
      BY <2>3, <2>4, <3>1 DEF SameName, InCategory
    <3> QED
      BY <2>2, <3>2
  <2> QED
    BY <2>5, <2>6
<1>5. ASSUME NEW r \in Requests, Abort(r)
      PROVE  S' = S /\ F' \subseteq F
  <2>1. req'[r] = Idle /\ \A q \in Requests \ {r} : req'[q] = req[q]
    BY <1>5, Becomes DEF Abort, Finish
  <2>2. F' \subseteq F
    BY <2>1 DEF PastName, Idle
  <2> QED
    BY <1>1, <1>5, <2>2 DEF Abort
<1>6. CASE UNCHANGED vars
  BY <1>1, <1>6 DEF vars, PastName
<1> QED
  BY <1>2, <1>3, <1>4, <1>5, <1>6 DEF Next

-----------------------------------------------------------------------------
(* Steps, seen from one address. *)

LEMMA AddressStep ==
  ASSUME TypeOK, [Next]_vars, NEW u \in StoredAddresses,
         NEW c \in StoredCategories, NEW a \in StoredAddresses
  PROVE  LET S == SameAddress(u, c, a)
             F == PastAddress(u, c, a)
         IN \/ S' = S /\ F' \subseteq F
            \/ S = {} /\ S' = {}
            \/ \E i, r : i \notin S /\ S' = S \cup {i} /\ r \in F /\ F' = F \ {r}
<1> DEFINE S == SameAddress(u, c, a)
           F == PastAddress(u, c, a)
<1>1. UNCHANGED entries => S' = S
  BY DEF SameAddress, InCategory
<1>2. ASSUME NEW r \in Requests, NEW v \in Addresses, NEW b \in Addresses,
             NEW d \in Categories, NEW m \in Names, FindName(r, v, d, m, b)
      PROVE  S' = S /\ F' \subseteq F
  <2>1. /\ req'[r].at = "address.find"
        /\ \A q \in Requests \ {r} : req'[q] = req[q]
    BY <1>2, Becomes DEF FindName
  <2>2. F' \subseteq F
    BY <2>1 DEF PastAddress
  <2> QED
    BY <1>1, <1>2, <2>2 DEF FindName
<1>3. ASSUME NEW r \in Requests, FindAddress(r)
      PROVE  S' = S /\ (F' \subseteq F \/ S = {})
  <2> DEFINE e == req[r].entry
  <2>1. \A q \in Requests \ {r} : req'[q] = req[q]
    BY <1>3, Becomes DEF FindAddress, Finish
  <2>2. \/ req'[r] = Idle
        \/ /\ SameAddress(e.user, e.category, e.address) = {}
           /\ req'[r] = [req[r] EXCEPT !.at = "insert"]
    BY <1>3, Becomes DEF FindAddress, Finish
  <2>3. CASE e.user = u /\ e.category = c /\ e.address = a /\ req'[r] # Idle
    BY <1>1, <1>3, <2>2, <2>3 DEF FindAddress
  <2>4. CASE ~(e.user = u /\ e.category = c /\ e.address = a /\ req'[r] # Idle)
    <3>1. r \notin F'
      BY <2>2, <2>4 DEF PastAddress, Idle, TypeOK, RequestState
    <3>2. F' \subseteq F
      BY <2>1, <3>1 DEF PastAddress
    <3> QED
      BY <1>1, <1>3, <3>2 DEF FindAddress
  <2> QED
    BY <2>3, <2>4
<1>4. ASSUME NEW r \in Requests, NEW i \in Ids, InsertEntry(r, i)
      PROVE  \/ S' = S /\ F' \subseteq F
             \/ i \notin S /\ S' = S \cup {i} /\ r \in F /\ F' = F \ {r}
  <2>1. req'[r] = Idle /\ \A q \in Requests \ {r} : req'[q] = req[q]
    BY <1>4, Becomes DEF InsertEntry, Finish
  <2>2. F' = F \ {r}
    BY <2>1 DEF PastAddress, Idle
  <2>3. entries'[i] = req[r].entry /\ \A j \in Ids \ {i} : entries'[j] = entries[j]
    BY <1>4 DEF InsertEntry, TypeOK
  <2>4. i \notin S
    BY <1>4, Spellings DEF InsertEntry, SameAddress, InCategory, NoEntry
  <2>5. CASE r \in F
    <3>1. i \in S'
      BY <2>3, <2>5 DEF PastAddress, SameAddress, InCategory
    <3>2. S' = S \cup {i}
      BY <2>3, <2>4, <3>1 DEF SameAddress, InCategory
    <3> QED
      BY <2>2, <2>4, <2>5, <3>2
  <2>6. CASE r \notin F
    <3>1. i \notin S'
      BY <1>4, <2>3, <2>6 DEF InsertEntry, PastAddress, SameAddress, InCategory
    <3>2. S' = S
      BY <2>3, <2>4, <3>1 DEF SameAddress, InCategory
    <3> QED
      BY <2>2, <3>2
  <2> QED
    BY <2>5, <2>6
<1>5. ASSUME NEW r \in Requests, Abort(r)
      PROVE  S' = S /\ F' \subseteq F
  <2>1. req'[r] = Idle /\ \A q \in Requests \ {r} : req'[q] = req[q]
    BY <1>5, Becomes DEF Abort, Finish
  <2>2. F' \subseteq F
    BY <2>1 DEF PastAddress, Idle
  <2> QED
    BY <1>1, <1>5, <2>2 DEF Abort
<1>6. CASE UNCHANGED vars
  BY <1>1, <1>6 DEF vars, PastAddress
<1> QED
  BY <1>2, <1>3, <1>4, <1>5, <1>6 DEF Next

-----------------------------------------------------------------------------
(* The inductive invariant. *)

LEMMA SetsAreFinite ==
  /\ \A u, c, n : /\ IsFiniteSet(SameName(u, c, n))
                  /\ PastName(u, c, n) \subseteq Requests
  /\ \A u, c, a : /\ IsFiniteSet(SameAddress(u, c, a))
                  /\ PastAddress(u, c, a) \subseteq Requests
<1>1. \A u, c, n : SameName(u, c, n) \subseteq Ids /\ SameAddress(u, c, n) \subseteq Ids
  BY DEF SameName, SameAddress, InCategory
<1>2. \A T \in SUBSET Ids : IsFiniteSet(T)
  BY FiniteAssumption, FS_Subset
<1>3. \A u, c, n : PastName(u, c, n) \subseteq Requests
                   /\ PastAddress(u, c, n) \subseteq Requests
  BY DEF PastName, PastAddress
<1> QED
  BY <1>1, <1>2, <1>3

LEMMA InitIInv == Init => IInv
<1> SUFFICES ASSUME Init
             PROVE  IInv
  OBVIOUS
<1>1. \A u \in StoredAddresses : \A c, n :
         SameName(u, c, n) = {} /\ SameAddress(u, c, n) = {}
  BY Spellings DEF Init, SameName, SameAddress, InCategory, NoEntry
<1>2. \A u, c, n : PastName(u, c, n) = {} /\ PastAddress(u, c, n) = {}
  BY DEF Init, PastName, PastAddress, Idle
<1>3. Cardinality(Requests) \in Nat /\ Cardinality({}) = 0
  BY FiniteAssumption, FS_CardinalityType, FS_EmptySet
<1>4. \A u \in StoredAddresses : \A c, n :
         /\ Cardinality(SameName(u, c, n)) + Cardinality(PastName(u, c, n))
               <= Cardinality(Requests)
         /\ Cardinality(SameAddress(u, c, n)) + Cardinality(PastAddress(u, c, n))
               <= Cardinality(Requests)
  BY <1>1, <1>2, <1>3
<1> QED
  BY <1>4, InitTypeOK DEF IInv

LEMMA NextIInv == IInv /\ [Next]_vars => IInv'
<1> SUFFICES ASSUME IInv, [Next]_vars
             PROVE  IInv'
  OBVIOUS
<1>1. TypeOK /\ TypeOK'
  BY NextTypeOK DEF IInv
<1>2. Cardinality(Requests) \in Nat /\ Cardinality(Requests) <= Cardinality(Requests)
  BY FiniteAssumption, FS_CardinalityType
<1>3. ASSUME NEW u \in StoredAddresses, NEW c \in StoredCategories, NEW n \in StoredNames
      PROVE  (Cardinality(SameName(u, c, n)) + Cardinality(PastName(u, c, n))
                <= Cardinality(Requests))'
  <2>1. Cardinality(SameName(u, c, n)) + Cardinality(PastName(u, c, n))
          <= Cardinality(Requests)
    BY DEF IInv
  <2>2. PastName(u, c, n)' \subseteq Requests
    BY DEF PastName
  <2> QED
    BY <1>1, <1>2, <2>1, <2>2, NameStep, SetsAreFinite, FiniteAssumption, Counting
<1>4. ASSUME NEW u \in StoredAddresses, NEW c \in StoredCategories, NEW a \in StoredAddresses
      PROVE  (Cardinality(SameAddress(u, c, a)) + Cardinality(PastAddress(u, c, a))
                <= Cardinality(Requests))'
  <2>1. Cardinality(SameAddress(u, c, a)) + Cardinality(PastAddress(u, c, a))
          <= Cardinality(Requests)
    BY DEF IInv
  <2>2. PastAddress(u, c, a)' \subseteq Requests
    BY DEF PastAddress
  <2> QED
    BY <1>1, <1>2, <2>1, <2>2, AddressStep, SetsAreFinite, FiniteAssumption, Counting
<1> QED
  BY <1>1, <1>3, <1>4 DEF IInv, StoredAddresses, StoredCategories, StoredNames

LEMMA Inductive == Spec => []IInv
<1>1. IInv /\ UNCHANGED vars => IInv'
  BY NextIInv
<1> QED
  BY InitIInv, NextIInv, PTL DEF Spec

LEMMA IInvBounds == IInv => EntriesBounded
<1> SUFFICES ASSUME IInv
             PROVE  EntriesBounded
  OBVIOUS
<1>1. \A u, c, n : /\ Cardinality(SameName(u, c, n)) \in Nat
                   /\ Cardinality(PastName(u, c, n)) \in Nat
                   /\ Cardinality(SameAddress(u, c, n)) \in Nat
                   /\ Cardinality(PastAddress(u, c, n)) \in Nat
  BY SetsAreFinite, FiniteAssumption, FS_Subset, FS_CardinalityType
<1>2. Cardinality(Requests) \in Nat
  BY FiniteAssumption, FS_CardinalityType
<1> QED
  BY <1>1, <1>2 DEF IInv, EntriesBounded

-----------------------------------------------------------------------------
(* The table and the requests in flight keep their types; in particular     *)
(* only normalised addresses and sanitised names get stored.                *)
THEOREM TypeCorrect == Spec => []TypeOK
  BY Inductive, PTL DEF IInv

(* The entries of one name in a category, or of one address, never          *)
(* outnumber the requests that createNewAddressBookEntry can run side by    *)
(* side.                                                                    *)
THEOREM EntriesStayBounded == Spec => []EntriesBounded
  BY Inductive, IInvBounds, PTL

(* A name or an address that is taken and that no request is past the check *)
(* of stays as it is for ever.                                              *)
THEOREM TakenStays == Spec => TakenIsFinal
<1>1. ASSUME TypeOK, [Next]_vars, NEW u \in StoredAddresses,
             NEW c \in StoredCategories, NEW n \in StoredNames, NameClosed(u, c, n)
      PROVE  NameClosed(u, c, n)' /\ SameName(u, c, n)' = SameName(u, c, n)
  BY <1>1, NameStep DEF NameClosed
<1>2. ASSUME TypeOK, [Next]_vars, NEW u \in StoredAddresses,
             NEW c \in StoredCategories, NEW a \in StoredAddresses, AddressClosed(u, c, a)
      PROVE  AddressClosed(u, c, a)' /\ SameAddress(u, c, a)' = SameAddress(u, c, a)
  BY <1>2, AddressStep DEF AddressClosed
<1>3. TypeOK /\ [Next]_vars =>
        [/\ \A u \in StoredAddresses, c \in StoredCategories, n \in StoredNames :
               NameClosed(u, c, n) =>
                  NameClosed(u, c, n)' /\ SameName(u, c, n)' = SameName(u, c, n)
         /\ \A u, a \in StoredAddresses, c \in StoredCategories :
               AddressClosed(u, c, a) =>
                  AddressClosed(u, c, a)' /\ SameAddress(u, c, a)' = SameAddress(u, c, a)
        ]_vars
  BY <1>1, <1>2
<1> QED
  BY <1>3, TypeCorrect, PTL DEF Spec, TakenIsFinal
=============================================================================
