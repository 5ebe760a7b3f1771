----------------------------- MODULE Preferences -----------------------------
(***************************************************************************)
(* One user's row of UserPreferencesStore in Postgres (core/database.py)   *)
(* and the requests that write it: PATCH /users/me/preferences             *)
(* (api/v1/endpoints/preferences.py) and the onboarding                    *)
(* (api/v1/endpoints/setup.py).  Both write the keys they were given one   *)
(* after the other.  Setting a key is one statement; clearing one is a     *)
(* SELECT and then an UPDATE or a DELETE, in one transaction that does not *)
(* lock what it read.                                                      *)
(***************************************************************************)
EXTENDS Naturals

CONSTANTS
  PrefCount, \* the number of preferences
  PrefSlot,  \* the user's requests that may be in flight at once
  MaxPatches \* bound: requests in all

ASSUME PrefAssumption == PrefCount \in Nat /\ MaxPatches \in Nat

Prefs == 1 .. PrefCount   \* the preferences, in the order of _CONFIG_DEFAULTS
Unset == "unset"
PrefValue == {"on", "off"}
PrefRow == [Prefs -> PrefValue \cup {Unset}]
NoPrefs == [k \in Prefs |-> Unset]

VARIABLES
  prefs,    \* the row, every key Unset when there is none
  patch,    \* the request in each slot: the keys left, what it gives them, what it read
  patches,
  lastGiven,\* history: what the last write of each key gave it
  spoilt    \* history: the keys whose last write came while a clearing was half done

prefVars == <<prefs, patch, patches, lastGiven, spoilt>>

NoPatch == [keys |-> {}, gives |-> NoPrefs, read |-> NoPrefs, clearing |-> FALSE]

PrefInit ==
  /\ prefs = NoPrefs
  /\ patch = [s \in PrefSlot |-> NoPatch] /\ patches = 0
  /\ lastGiven = NoPrefs /\ spoilt = {}

\* The keys of the body's model_fields_set, null for the default.
BeginPrefs(s) == \E given \in SUBSET Prefs \ {{}} : \E gives \in PrefRow :
  /\ patch[s] = NoPatch /\ patches < MaxPatches /\ patches' = patches + 1
  /\ \A k \in Prefs \ given : gives[k] = Unset
  /\ patch' = [patch EXCEPT ![s] = [NoPatch EXCEPT !.keys = given, !.gives = gives]]
  /\ UNCHANGED <<prefs, lastGiven, spoilt>>

Given(s, k) == patch[s].gives[k]
NextKey(s, k) ==
  LET p == [patch[s] EXCEPT !.keys = @ \ {k}, !.read = NoPrefs, !.clearing = FALSE]
  IN  patch' = [patch EXCEPT ![s] = IF p.keys = {} THEN NoPatch ELSE p]

\* The key s writes takes its value; a clearing of another key that has read the row
\* will not see it.
Written(s, k) ==
  /\ lastGiven' = [lastGiven EXCEPT ![k] = Given(s, k)]
  /\ spoilt' = IF \E t \in PrefSlot \ {s} : patch[t].clearing THEN spoilt \cup {k}
               ELSE spoilt \ {k}
  /\ NextKey(s, k) /\ UNCHANGED patches

\* A mutant of SetKey: the row takes the value given, and not what else it held.
SetOnly(s, k) ==
  /\ Given(s, k) # Unset
  /\ prefs' = [NoPrefs EXCEPT ![k] = Given(s, k)]
  /\ Written(s, k)

\* set: the upsert, merged by the database.
SetKey(s, k) ==
  /\ Given(s, k) # Unset
  /\ prefs' = [prefs EXCEPT ![k] = Given(s, k)]
  /\ Written(s, k)

\* delete: the SELECT; without a row that is all.
SelectRow(s, k) ==
  /\ Given(s, k) = Unset /\ ~patch[s].clearing
  /\ UNCHANGED prefs
  /\ IF prefs = NoPrefs THEN Written(s, k)
     ELSE /\ patch' = [patch EXCEPT ![s].clearing = TRUE, ![s].read = prefs]
          /\ UNCHANGED <<patches, lastGiven, spoilt>>

\* The rest of what was read is stored back in a row that still exists, or the row goes.
StoreBack(s, k) ==
  /\ patch[s].clearing
  /\ prefs' = IF prefs = NoPrefs THEN NoPrefs ELSE [patch[s].read EXCEPT ![k] = Unset]
  /\ Written(s, k)

\* The keys of a request one after the other.
WriteKey(s) == \E k \in patch[s].keys :
  /\ \A j \in patch[s].keys : k <= j
  /\ SetKey(s, k) \/ SelectRow(s, k) \/ StoreBack(s, k)

PrefNext == \E s \in PrefSlot : BeginPrefs(s) \/ WriteKey(s)

PrefSpec == PrefInit /\ [][PrefNext]_prefVars

-----------------------------------------------------------------------------

\* What the row holds under a key is what was last written to it, however the requests
\* interleave and whichever keys they set; only a write that comes between the SELECT
\* and the UPDATE of another key's clearing may be lost (UserPreferencesStore.set,
\* delete).
NoPreferenceIsLost == \A k \in Prefs \ spoilt : prefs[k] = lastGiven[k]
=============================================================================
