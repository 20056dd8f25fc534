----------------------------- MODULE SheetStatus -----------------------------
(***************************************************************************)
(* The status word of an API sheet (class APIInterface) and the rules the  *)
(* library changes it by.  m_status is a bit mask over StatusFlags: here   *)
(* it is the set of the flags whose bit is set, so that & is \cap and | is *)
(* \cup.  No variable and no recursion: a library for the state machines.  *)
(***************************************************************************)

\* The bits of enum StatusFlags.
StatusFlags == {"VALID", "CACHED", "OUTDATED", "ERROR"}

\* The mask vremove of parse_xml_document: three different bits and-ed together.
VRemove == {"OUTDATED"} \cap {"CACHED"} \cap {"ERROR"}

\* A mutant of RejectedStatus: ERROR is or-ed onto the status and nothing removed.
RejectedStatus_Keeps(st) == st \cup {"ERROR"}

\* m_status after a document was rejected: (m_status & vremove) | ERROR.
RejectedStatus(st) == (st \cap VRemove) \cup {"ERROR"}

\* m_status after a document was parsed: every other flag is dropped.
AcceptedStatus == {"VALID"}

(***************************************************************************)
(* What the constructor leaves behind.  parse_cache() runs there, before   *)
(* anybody else knows the sheet: no file; a file pugixml cannot load       *)
(* (m_error is set, m_status is not); a document that is not an EVE API    *)
(* result, or an error result, whose text may be empty; a result.          *)
(***************************************************************************)
CacheOutcomes ==
  {[status |-> st, error |-> e] : st \in {{}, RejectedStatus({})}, e \in BOOLEAN}
    \cup {[status |-> AcceptedStatus, error |-> FALSE]}

\* The dates "cachedUntil" can hold, seen from now; "null" is the date that
\* get_datetime returns when get_value throws.
CachedUntil == {"past", "future"}

(***************************************************************************)
(* get_datetime(w): get_value finds the entry and throws when the iterator *)
(* equals m_value_map.find(w), a second look-up of the same key, where the *)
(* end iterator was meant; get_datetime catches that and returns a null    *)
(* date.                                                                   *)
(***************************************************************************)
GetDatetime(entry) ==
  LET itr == entry  find == entry IN IF itr = find THEN "null" ELSE itr

\* The flag check_status adds to a VALID sheet.  The difference to a null date
\* is 0 (GLib refuses the call), and only a negative one means OUTDATED.
Freshness(entry) == IF GetDatetime(entry) = "past" THEN "OUTDATED" ELSE "CACHED"
=============================================================================
