-------------------------- MODULE MCClickhouseSink --------------------------
(* Groups of one or two events: every payload of up to four tokens, an      *)
(* object over several lines, two objects on two lines, and every key of up *)
(* to three characters occur first, a few follow.                           *)
EXTENDS ClickhouseSink

Strings(chars, n) == UNION {[1..k -> chars] : k \in 0..n}

PayloadSymbols == {"{", "}", "x", ",", "nl"}
KeySymbols == {"\"", "\\", "nl", "ctl", "bad", "n"}
AllSymbols == PayloadSymbols \union KeySymbols \union {"ws"}

Payloads == Strings(PayloadSymbols, 4) \union
  {<<"{", "nl", "ws", "x", ",", "nl", "ws", "x", "nl", "}">>,
   <<"{", "x", "}", "nl", "{", "x", "}">>}
Keys == Strings(KeySymbols, 3)

PlainKey == <<"n">>
ObjectPayload == <<"{", "x", "}">>

Followers == {<<>>} \union {<<[payload |-> p, key |-> PlainKey]>> :
                              p \in {ObjectPayload, <<"ws", "{", "}">>, <<"x">>}}

SmallGroups ==
    {<<[payload |-> p, key |-> PlainKey]>> \o f : p \in Payloads, f \in Followers}
      \union {<<[payload |-> ObjectPayload, key |-> k]>> : k \in Keys}

SomeColumns == {{}, {"offset"}, {"topic", "key"}}
=============================================================================
