---------------------- MODULE MCAnthropicConversation ----------------------
(* Two pins, one of which begins the other and is shown cut; system prompts  *)
(* with and without markers and pins of a file; a tool whose results have a  *)
(* marked text and an image of their own.                                    *)
EXTENDS AnthropicConversation

MCPinTexts == {"ab", "abc"}
MCBegins == {<<"ab", "ab">>, <<"abc", "abc">>, <<"ab", "abc">>}
MCLength == [t \in MCPinTexts |-> IF t = "ab" THEN 1 ELSE 3]

MCRenderings == {[pages |-> 1, bytes |-> 2], [pages |-> 2, bytes |-> 1]}

SystemBlock(has, lines, cc) ==
  [type |-> "text", rem |-> FALSE, head |-> <<>>, has |-> has, cc |-> cc,
   lines |-> IF has = {} THEN lines ELSE Append(lines, Said)]

MCSystems ==
  {<<>>,
   <<SystemBlock({"identity"}, <<>>, NoMark),
     SystemBlock({"static", "billing", "env"}, <<Pin("ab")>>, "global"),
     SystemBlock({"dynamic"}, <<>>, NoMark)>>,
   <<SystemBlock({"static", "dynamic"}, <<>>, NoMark), SystemBlock({}, <<Pin("abc")>>, "local")>>}

MCTools == {<<>>, <<[name |-> "tool", custom |-> TRUE, deferred |-> FALSE, doc |-> "full"],
                    [name |-> "late", custom |-> TRUE, deferred |-> TRUE, doc |-> "full"]>>}

Image == [type |-> "image", cc |-> NoMark]
Part(cc) == [type |-> "text", cc |-> cc]

MCTurns ==
  {<<Text(<<>>, <<Said>>, "local")>>,
   <<Text(<<Said>>, <<Pin("abc"), Said>>, NoMark), Image>>,
   <<Text(<<>>, <<Said>>, NoMark), Text(<<>>, <<Pin("ab")>>, "local")>>,
   <<Text(<<>>, <<Pin("abc")>>, NoMark)>>,
   <<Text(<<>>, <<UnpinNumber(1)>>, NoMark)>>,
   <<Text(<<>>, <<Unpin("ab")>>, NoMark)>>}

MCAnswers == {<<Part(NoMark)>>, <<Part("local"), Image, Part(NoMark)>>}
=============================================================================
