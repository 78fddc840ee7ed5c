---------------------------- MODULE AddressBook -----------------------------
(***************************************************************************)
(* The address book (src/modules/address-book): entries of a user, in      *)
(* categories, each with a name and an address.  Names and addresses are   *)
(* meant to be unique in a category of a user.  No index says so: an       *)
(* insert is preceded by a find for the name and a find for the address,   *)
(* and other requests run in between.                                      *)
(***************************************************************************)
EXTENDS Naturals, FiniteSets

CONSTANTS
    Requests,           \* the requests in flight
    Addresses,          \* wallet addresses as clients spell them
    normalizeAddress,   \* the spelling that is stored, of each address
    Names, Categories,  \* as clients write them, with spaces around or not
    sanitizeString,     \* what is stored of each
    Ids,                \* ids of entries
    None

ASSUME SpellingAssumption ==
    /\ normalizeAddress \in [Addresses -> Addresses]
    /\ DOMAIN sanitizeString = Names \cup Categories
    /\ \A n \in Names : sanitizeString[n] \in Names
    /\ \A c \in Categories : sanitizeString[c] \in Categories

ASSUME FiniteAssumption == IsFiniteSet(Requests) /\ IsFiniteSet(Ids)

ASSUME NoneAssumption == None \notin Addresses \cup Names \cup Categories

VARIABLES
    entries,    \* table address_book
    req         \* the requests in flight

vars == <<entries, req>>

-----------------------------------------------------------------------------
(* What is stored is normalised and sanitised. *)
StoredAddresses == {normalizeAddress[a] : a \in Addresses}
StoredNames == {sanitizeString[n] : n \in Names}
StoredCategories == {sanitizeString[c] : c \in Categories}

Entry == [user: StoredAddresses, category: StoredCategories,
          name: StoredNames, address: StoredAddresses]
NoEntry == [user |-> None, category |-> None, name |-> None, address |-> None]

RequestState == [at: {"address.find", "insert"}, entry: Entry]
                \cup {[at |-> "idle", entry |-> NoEntry]}
Idle == [at |-> "idle", entry |-> NoEntry]

Become(r, st) == req' = [req EXCEPT ![r] = st]
Finish(r) == Become(r, Idle)

Init ==
    /\ entries = [i \in Ids |-> NoEntry]
    /\ req = [r \in Requests |-> Idle]

-----------------------------------------------------------------------------
(* The entries that the finds of the two duplicate checks may return. *)

InCategory(user, category) ==
    {i \in Ids : entries[i].user = user /\ entries[i].category = category}

SameName(user, category, name) ==
    {i \in InCategory(user, category) : entries[i].name = name}

SameAddress(user, category, address) ==
    {i \in InCategory(user, category) : entries[i].address = address}

-----------------------------------------------------------------------------
(* createNewAddressBookEntry *)

normalized(u, c, n, a) ==
    [user |-> normalizeAddress[u], category |-> sanitizeString[c],
     name |-> sanitizeString[n], address |-> normalizeAddress[a]]

(* Slip: the duplicate is looked for as the client wrote its name *)
FindNameAsWritten(r, u, c, n, a) ==
    LET e == normalized(u, c, n, a) IN
    /\ req[r].at = "idle"
    /\ e.user # e.address
    /\ SameName(e.user, e.category, n) = {}
    /\ Become(r, [at |-> "address.find", entry |-> e])
    /\ UNCHANGED entries

(* Slip: the address is kept as the client wrote it *)
FindNameRawAddress(r, u, c, n, a) ==
    LET e == normalized(u, c, n, a) IN
    /\ req[r].at = "idle"
    /\ e.user # e.address
    /\ SameName(e.user, e.category, e.name) = {}
    /\ Become(r, [at |-> "address.find", entry |-> [e EXCEPT !.address = a]])
    /\ UNCHANGED entries

FindName(r, u, c, n, a) ==
    LET e == normalized(u, c, n, a) IN
    /\ req[r].at = "idle"
    /\ e.user # e.address
    /\ SameName(e.user, e.category, e.name) = {}
    /\ Become(r, [at |-> "address.find", entry |-> e])
    /\ UNCHANGED entries

(* Slip: the name is part of the where clause, and was just found to be new *)
FindAddressWithName(r) ==
    /\ req[r].at = "address.find"
    /\ LET e == req[r].entry
           found == SameAddress(e.user, e.category, e.address)
                    \cap SameName(e.user, e.category, e.name)
       IN \/ found = {} /\ Become(r, [req[r] EXCEPT !.at = "insert"])
          \/ found # {} /\ Finish(r)
    /\ UNCHANGED entries

FindAddress(r) ==
    /\ req[r].at = "address.find"
    /\ LET e == req[r].entry
           found == SameAddress(e.user, e.category, e.address)
       IN \/ found = {} /\ Become(r, [req[r] EXCEPT !.at = "insert"])
          \/ found # {} /\ Finish(r)
    /\ UNCHANGED entries

InsertEntry(r, i) ==
    /\ req[r].at = "insert"
    /\ entries[i] = NoEntry
    /\ entries' = [entries EXCEPT ![i] = req[r].entry]
    /\ Finish(r)

(* A query rejects or the process goes down. *)
Abort(r) ==
    /\ req[r].at # "idle"
    /\ Finish(r)
    /\ UNCHANGED entries

Next ==
    \E r \in Requests :
        \/ \E u, a \in Addresses, c \in Categories, n \in Names :
              FindName(r, u, c, n, a)
        \/ FindAddress(r)
        \/ \E i \in Ids : InsertEntry(r, i)
        \/ Abort(r)

Spec == Init /\ [][Next]_vars

-----------------------------------------------------------------------------
(* Properties. *)

TypeOK ==
    /\ entries \in [Ids -> Entry \cup {NoEntry}]
    /\ req \in [Requests -> RequestState]

(* Requests past the check of a name, or of an address. *)
PastName(user, category, name) ==
    {r \in Requests : /\ req[r].at \in {"address.find", "insert"}
                      /\ req[r].entry.user = user
                      /\ req[r].entry.category = category
                      /\ req[r].entry.name = name}

PastAddress(user, category, address) ==
    {r \in Requests : /\ req[r].at = "insert"
                      /\ req[r].entry.user = user
                      /\ req[r].entry.category = category
                      /\ req[r].entry.address = address}

(* Entries of one name in a category, or of one address however it is       *)
(* spelled, are never more than the requests that can run side by side;     *)
(* without concurrency the name and the address are unique.                 *)
EntriesBounded ==
    \A u \in StoredAddresses, c \in StoredCategories :
        /\ \A n \in StoredNames :
              Cardinality(SameName(u, c, n)) <= Cardinality(Requests)
        /\ \A a \in StoredAddresses :
              Cardinality(SameAddress(u, c, a)) <= Cardinality(Requests)

NameClosed(u, c, n) == SameName(u, c, n) # {} /\ PastName(u, c, n) = {}
AddressClosed(u, c, a) == SameAddress(u, c, a) # {} /\ PastAddress(u, c, a) = {}

(* A name or an address that is taken, with no request past its check, gets *)
(* no further entry, and no request past its check: what the checks let     *)
(* through together is all there will ever be.                              *)
TakenIsFinal ==
    [][/\ \A u \in StoredAddresses, c \in StoredCategories, n \in StoredNames :
             NameClosed(u, c, n) =>
                NameClosed(u, c, n)' /\ SameName(u, c, n)' = SameName(u, c, n)
       /\ \A u, a \in StoredAddresses, c \in StoredCategories :
             AddressClosed(u, c, a) =>
                AddressClosed(u, c, a)' /\ SameAddress(u, c, a)' = SameAddress(u, c, a)
      ]_vars

(* What keeps the bounds: the entries and the requests that may still add   *)
(* one, together, are not more than the requests.                           *)
IInv ==
    /\ TypeOK
    /\ \A u \in StoredAddresses, c \in StoredCategories, n \in StoredNames :
          Cardinality(SameName(u, c, n)) + Cardinality(PastName(u, c, n))
              <= Cardinality(Requests)
    /\ \A u, a \in StoredAddresses, c \in StoredCategories :
          Cardinality(SameAddress(u, c, a)) + Cardinality(PastAddress(u, c, a))
              <= Cardinality(Requests)
=============================================================================
