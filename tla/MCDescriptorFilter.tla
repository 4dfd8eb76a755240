------------------------- MODULE MCDescriptorFilter -------------------------
(* The filter over five components: a runtime, a prebuilt item, the        *)
(* descriptors directory, a directory whose name starts with               *)
(* "descriptors", and a hash; prefixes matching the runtime, the prebuilt  *)
(* item and "descriptors".  Selector fields are unset or one value; two   *)
(* property names with two values each.                                    *)
EXTENDS DescriptorFilter

CONSTANTS rt, pb, desc, descx, h, prt, ppb, empty, sv, nosel, n1, n2, v1, v2, noplat

MCComps == {rt, pb, desc, descx, h}

MCPrefixes == {desc, prt, ppb}

MCPrefixOf == {<<desc, desc>>, <<descx, desc>>, <<rt, prt>>, <<pb, ppb>>}
MCSelVals == {empty, sv}

MCPropNames == {n1, n2}

MCPropVals == {v1, v2}
=============================================================================
