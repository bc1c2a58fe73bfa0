---------------------------- MODULE MCCommodities ----------------------------
(***************************************************************************)
(* Commodities for TLC: "oil", which the library knows and which is short  *)
(* enough to be a code by its letters; "widgets", which only a hash gives  *)
(* a code, with an escaped spelling; and "CXCOMM[<the hash>]".             *)
(***************************************************************************)
EXTENDS CommoditiesHistory

CONSTANTS oil, widgets, escaped, cxcomm, upperCxcomm, cOil, cShort, cHash

MCStr == {oil, widgets, escaped, cxcomm, upperCxcomm}
MCCode == {cOil, cShort, cHash}
MCCustomCode == {cOil, cHash}

Only(S, x, y, None) == [z \in S |-> IF z = x THEN y ELSE None]

MClower == [s \in MCStr |-> IF s = upperCxcomm THEN cxcomm ELSE s]
MCunescape == [s \in MCStr |-> IF s = escaped THEN widgets ELSE s]
MCcodes == Only(MCStr, oil, cOil, NoCode)
MCcxcode == Only(MCStr, cxcomm, cHash, NoCode)
MCshortcode == Only(MCStr, oil, cShort, NoCode)
MChash == [s \in MCStr |-> cHash]
MCnames == Only(MCCode, cOil, oil, NoStr)
MCshortname == Only(MCCode, cShort, oil, NoStr)
MCcxname == [c \in MCCode |-> upperCxcomm]
=============================================================================
