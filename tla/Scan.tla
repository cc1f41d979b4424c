-------------------------------- MODULE Scan --------------------------------
(***************************************************************************)
(* The scanning library (subsys/bluetooth/scan.c): filters by name, short  *)
(* name, address, UUID and appearance, and the decision whether an         *)
(* advertising report matches.  The operators take and return the record   *)
(* bt_scan; the module that composes the library owns the variable.        *)
(*                                                                         *)
(* A name is [stem, len]: the first len letters of a stem, so that one     *)
(* name is a prefix of another when the stems agree.  An advertising       *)
(* report is [addr, connectable, ad], ad the sequence of its data          *)
(* elements [type, data]; the data of a UUID element is the set of UUIDs.  *)
(***************************************************************************)
EXTENDS Naturals, Sequences, FiniteSets, Functions

CONSTANT FilterCnt  \* CONFIG_BT_SCAN_*_CNT: how many filters of each type fit

FilterTypes == {"NAME", "SHORT_NAME", "ADDR", "UUID", "APPEARANCE"}

NoFilters == [t \in FilterTypes |-> << >>]

\* bt_scan_init(): no filter, none enabled, any filter suffices.
bt_scan_init(connect_if_match) ==
  [filter |-> NoFilters,
   enabled |-> {}, all_mode |-> FALSE, connect_if_match |-> connect_if_match,
   type |-> "PASSIVE"]

-----------------------------------------------------------------------------
(* Filters.                                                                *)

\* Room first, then the length of a name, then duplicates (a short name is
\* one already when the name is, whatever its least length).
Add(scan, t, valid, f, duplicates) ==
  LET fs == scan.filter[t]
  IN  CASE Len(fs) >= FilterCnt[t] -> [err |-> "ENOMEM", scan |-> scan]
        [] ~valid -> [err |-> "EINVAL", scan |-> scan]
        [] \E i \in DOMAIN fs : fs[i] \in duplicates -> [err |-> "OK", scan |-> scan]
        [] OTHER -> [err |-> "OK", scan |-> [scan EXCEPT !.filter[t] = Append(@, f)]]

scan_addr_filter_add(scan, addr) ==
  Add(scan, "ADDR", TRUE, addr, {addr})
scan_name_filter_add(scan, name) ==
  Add(scan, "NAME", name.len > 0, name, {name})
scan_short_name_filter_add(scan, f) ==
  Add(scan, "SHORT_NAME", f.name.len > 0, f,
      {g \in Range(scan.filter["SHORT_NAME"]) : g.name = f.name})
scan_uuid_filter_add(scan, uuid) ==
  Add(scan, "UUID", TRUE, uuid, {uuid})
scan_appearance_filter_add(scan, appearance) ==
  Add(scan, "APPEARANCE", TRUE, appearance, {appearance})

bt_scan_filter_add(scan, t, f) ==
  CASE t = "NAME" -> scan_name_filter_add(scan, f)
    [] t = "SHORT_NAME" -> scan_short_name_filter_add(scan, f)
    [] t = "ADDR" -> scan_addr_filter_add(scan, f)
    [] t = "UUID" -> scan_uuid_filter_add(scan, f)
    [] t = "APPEARANCE" -> scan_appearance_filter_add(scan, f)

\* The enabled flags outlive the filters.
bt_scan_filter_remove_all(scan) ==
  [scan EXCEPT !.filter = NoFilters]

bt_scan_filter_disable(scan) == [scan EXCEPT !.enabled = {}]

check_filter_mode(mode) == mode # {}

bt_scan_filter_enable(scan, mode, match_all) ==
  IF ~check_filter_mode(mode) THEN [err |-> "EINVAL", scan |-> scan]
  ELSE [err |-> "OK",
        scan |-> [bt_scan_filter_disable(scan) EXCEPT !.enabled = mode,
                                                      !.all_mode = match_all]]

-----------------------------------------------------------------------------
(* Matching.                                                               *)

\* strncmp(target_name, data, data_len) == 0
StartsName(data, target) == data.stem = target.stem /\ data.len <= target.len

adv_addr_compare(scan, addr) ==
  \E i \in DOMAIN scan.filter["ADDR"] : scan.filter["ADDR"][i] = addr

adv_name_compare(scan, data) ==
  \E i \in DOMAIN scan.filter["NAME"] : StartsName(data, scan.filter["NAME"][i])

adv_short_name_cmp(f, data) == data.len >= f.min_len /\ StartsName(data, f.name)

adv_short_name_compare(scan, data) ==
  \E i \in DOMAIN scan.filter["SHORT_NAME"] :
    adv_short_name_cmp(scan.filter["SHORT_NAME"][i], data)

\* In multifilter mode one element has to hold every UUID.
adv_uuid_compare(scan, data) ==
  LET fs == scan.filter["UUID"]
  IN  IF scan.all_mode THEN \A i \in DOMAIN fs : fs[i] \in data
      ELSE \E i \in DOMAIN fs : fs[i] \in data

adv_appearance_compare(scan, data) ==
  \E i \in DOMAIN scan.filter["APPEARANCE"] : scan.filter["APPEARANCE"][i] = data

\* The filter an element of the advertising data is checked against.
adv_data_found(scan, e) ==
  /\ e.type \in scan.enabled
  /\ CASE e.type = "NAME" -> adv_name_compare(scan, e.data)
       [] e.type = "SHORT_NAME" -> adv_short_name_compare(scan, e.data)
       [] e.type = "UUID" -> adv_uuid_compare(scan, e.data)
       [] e.type = "APPEARANCE" -> adv_appearance_compare(scan, e.data)
       [] OTHER -> FALSE

check_addr(scan, addr) == "ADDR" \in scan.enabled /\ adv_addr_compare(scan, addr)

\* filter_match_cnt: one for every element that matches, not for every type.
MatchCount(scan, adv) ==
  Cardinality({i \in DOMAIN adv.ad : adv_data_found(scan, adv.ad[i])})
  + (IF check_addr(scan, adv.addr) THEN 1 ELSE 0)

check_enabled_filters(scan) == Cardinality(scan.enabled)

\* filter_state_check(): whether filter_match is notified.
filter_state_check(scan, adv) ==
  IF scan.all_mode THEN MatchCount(scan, adv) = check_enabled_filters(scan)
  ELSE MatchCount(scan, adv) > 0

\* What doc/nrf/scan.rst says of multifilter mode, and of the normal mode.
DocumentedMatch(scan, adv) ==
  LET matched == {adv.ad[i].type : i \in {j \in DOMAIN adv.ad :
                                            adv_data_found(scan, adv.ad[j])}}
                 \cup (IF check_addr(scan, adv.addr) THEN {"ADDR"} ELSE {})
  IN  IF scan.all_mode THEN matched = scan.enabled ELSE matched # {}

\* bt_scan_start() sets the type; whether scanning starts is the stack's.
bt_scan_start(scan, scan_type) == [scan EXCEPT !.type = scan_type]
=============================================================================
