---------------------------- MODULE MCHidCentral ----------------------------
(***************************************************************************)
(* Peers for TLC: a mouse and a keyboard with boot reports, a device       *)
(* without the HID service, one the filters refuse, and those whose        *)
(* service is too large for the attribute table, for the memory chunks or  *)
(* for the slab of reports, or lacks a descriptor.                         *)
(***************************************************************************)
EXTENDS HidCentral

Char(uuid, props, descs) == [uuid |-> uuid, props |-> props, descs |-> descs]
Basic == <<Char("CTRL_POINT", {"write_wo_rsp"}, {}), Char("INFO", {}, {}),
           Char("REPORT_MAP", {}, {})>>
Input == Char("REPORT", {"notify"}, {"CCC", "REF"})
Feature == Char("REPORT", {}, {"REF"})
BootMouse == Char("BOOT_MOUSE_IN", {"notify"}, {"CCC"})
BootKeyboard == <<Char("BOOT_KB_IN", {"notify"}, {"CCC"}),
                  Char("BOOT_KB_OUT", {"write_wo_rsp"}, {})>>
Mode == Char("PROTOCOL_MODE", {"write_wo_rsp"}, {})

DeviceName == [stem |-> "Mouse nRF52", len |-> 3]

Adv(addr, names, uuids) ==
  [addr |-> addr, connectable |-> TRUE,
   ad |-> [i \in DOMAIN names |-> [type |-> "SHORT_NAME", data |-> names[i]]]
          \o <<[type |-> "UUID", data |-> uuids]>>]

P(addr, adv, hids, chars, fits) ==
  [addr |-> addr, adv |-> adv, hids |-> hids, chars |-> chars, fits |-> fits]

Hids(addr) == Adv(addr, <<DeviceName>>, {"HIDS"})

Mouse == P("mouse", Hids("mouse"), TRUE, Basic \o <<Input, Feature>>, TRUE)
Keyboard == P("keyboard", Hids("keyboard"), TRUE,
              Basic \o <<Input>> \o BootKeyboard \o <<Mode>>, TRUE)
Empty == P("empty", Hids("empty"), FALSE, << >>, FALSE)
Large == P("large", Hids("large"), TRUE, Basic \o <<Input, Input, Feature, BootMouse, Mode>>,
           FALSE)
Wide == P("wide", Hids("wide"), TRUE,
          Basic \o <<Input>> \o [i \in 1 .. 4 |-> Char("VENDOR", {}, {})], FALSE)
Many == P("many", Hids("many"), TRUE, Basic \o [i \in 1 .. 4 |-> Feature], FALSE)
Broken == P("broken", Hids("broken"), TRUE,
            Basic \o <<Input, Char("REPORT", {}, {})>>, FALSE)
BadBoot == P("badboot", Hids("badboot"), TRUE,
             Basic \o <<Input, Char("BOOT_MOUSE_IN", {"notify"}, {}), Mode>>, FALSE)
Other == P("other", Adv("other", <<[DeviceName EXCEPT !.len = 2]>>, {"HIDS"}), TRUE, << >>,
           FALSE)

AllPeers == {Mouse, Keyboard, Empty, Large, Wide, Many, Broken, BadBoot, Other}
Sizes == [uuid |-> 4, service_val |-> 8, chrc |-> 8]
Counts == [NAME |-> 0, SHORT_NAME |-> 1, ADDR |-> 1, UUID |-> 1, APPEARANCE |-> 0]
=============================================================================
