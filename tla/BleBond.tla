------------------------------- MODULE BleBond -------------------------------
(***************************************************************************)
(* The choice of the peer of nRF Desktop (src/modules/ble_bond.c): short,  *)
(* long and double clicks of one button select another identity or erase   *)
(* the bond of the current one, each to be confirmed; and the modules that *)
(* wait for the others to be ready, the settings (src/modules/config.c).   *)
(*                                                                         *)
(* down is "timestamp # 0"; single, long and timeout are the delayed works *)
(* pending; bonds the peer bonded to each identity.                        *)
(***************************************************************************)
EXTENDS DesktopEvents

CONSTANT MaxPaired   \* CONFIG_BT_MAX_PAIRED, the same as CONFIG_BT_ID_MAX

NoPeer == "nobody"

BondInit == [state |-> "DISABLED", down |-> FALSE, cur |-> 0, tmp |-> 0,
             timeout |-> FALSE, single |-> FALSE, long |-> FALSE, init |-> FALSE,
             bonds |-> [i \in 0 .. MaxPaired - 1 |-> NoPeer]]

next_peer_id(id) == (id + 1) % MaxPaired

Operation(b, op, arg) == Emit(b, << peer_operation(op, arg) >>)

\* cancel_operation(): the single click pending is left.
cancel_operation(b) ==
  Operation([b EXCEPT !.state = "IDLE", !.down = FALSE, !.timeout = FALSE], "CANCEL", 0)

-----------------------------------------------------------------------------
(* The functions of the table.                                             *)

select_start(b) == LET t == next_peer_id(b.cur) IN Operation([b EXCEPT !.tmp = t], "SELECT", t)
select_next(b) == LET t == next_peer_id(b.tmp) IN Operation([b EXCEPT !.tmp = t], "SELECT", t)

select_confirm(b) ==
  IF b.tmp # b.cur THEN Operation([b EXCEPT !.cur = b.tmp], "SELECTED", b.tmp)
  ELSE Operation(b, "CANCEL", 0)

erase_start(b) == Operation(b, "ERASE", 0)

\* bt_unpair() also disconnects the peer.
erase_confirm(b) == Operation([b EXCEPT !.bonds[b.cur] = NoPeer], "ERASED", 0)

\* state_switch[]
state_switch(b, click) ==
  CASE b.state = "IDLE" /\ click = "SHORT" -> [next |-> "SELECT", r |-> select_start(b)]
    [] b.state = "SELECT" /\ click = "SHORT" -> [next |-> "SELECT", r |-> select_next(b)]
    [] b.state = "SELECT" /\ click = "DOUBLE" -> [next |-> "IDLE", r |-> select_confirm(b)]
    [] b.state = "IDLE" /\ click = "LONG" -> [next |-> "ERASE", r |-> erase_start(b)]
    [] b.state = "ERASE" /\ click = "DOUBLE" -> [next |-> "IDLE", r |-> erase_confirm(b)]
    [] OTHER -> [next |-> "none", r |-> Done(b)]

handle_click(b, click) ==
  LET s == state_switch(b, click)
  IN  IF s.next = "none" THEN cancel_operation(b)
      ELSE [s.r EXCEPT !.m.state = s.next, !.m.timeout = s.next # "IDLE"]

-----------------------------------------------------------------------------
(* The works.                                                              *)

timeout_handler(b) ==
  Asserts(cancel_operation([b EXCEPT !.timeout = FALSE]), b.state # "DISABLED")

single_click_handler(b) == handle_click([b EXCEPT !.single = FALSE], "SHORT")

long_click_handler(b) == handle_click([b EXCEPT !.long = FALSE, !.down = FALSE], "LONG")

-----------------------------------------------------------------------------
(* Events.  short says that the button was down less than SHORT_CLICK_MAX. *)

get_click(short) == IF short THEN "SHORT" ELSE "NONE"

\* The second short click that comes while the first waits is a double one.
peer_control_button(b, pressed, short) ==
  LET m == [b EXCEPT !.single = FALSE, !.long = FALSE]
      click == IF short /\ b.single THEN "DOUBLE" ELSE get_click(short)
      r == CASE pressed -> Done([b EXCEPT !.down = TRUE, !.long = TRUE])
             [] ~pressed /\ ~b.down -> Done(m)
             [] ~pressed /\ b.down /\ click = "SHORT" -> Done([m EXCEPT !.single = TRUE])
             [] OTHER -> handle_click(m, click)
  IN  Eats(r, TRUE)

bond_handler(b, e, short) ==
  CASE check_state(e, "config", "READY") ->
         Asserts(Emit([b EXCEPT !.state = "IDLE", !.init = TRUE],
                      << module_set_state("ble_bond", "READY") >>), ~b.init)
    [] e.t = "button" -> peer_control_button(b, e.pressed, short)
    [] OTHER -> Done(b)

-----------------------------------------------------------------------------
(* Settings are loaded when the modules that have some are ready; the ones *)
(* stored are then announced, and what comes from the host is stored.      *)

ConfigInit == [seen |-> {}, stored |-> << >>]

\* settings_set() and commit(): what is stored is announced.
LoadSettings(c) == Append(c.stored, module_set_state("config", "READY"))

StoreSetting(c, e) ==
  [c EXCEPT !.stored = Append(SelectSeq(c.stored, LAMBDA s : s.id # e.id),
                              [e EXCEPT !.store = FALSE])]

module_event_handler(c, e, req) ==
  IF c.seen = req \/ e.state # "READY" \/ e.id \notin req THEN Done(c)
  ELSE LET m == [c EXCEPT !.seen = c.seen \cup {e.id}]
       IN  Asserts(Emit(m, IF m.seen = req THEN LoadSettings(c) ELSE << >>),
                   e.id \notin c.seen)

config_handler(c, e, req) ==
  CASE e.t = "config" ->
         Done(IF e.store THEN StoreSetting(c, e) ELSE c)
    [] e.t = "module" -> module_event_handler(c, e, req)
    [] OTHER -> Done(c)
=============================================================================
