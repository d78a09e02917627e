----------------------------- MODULE MCRequest -----------------------------
EXTENDS Request

MCNames == {"info_hash", "port", "keep_alive"}
MCNumbers == {-1, 0, 1, 256, 600, 1800}

Chars == [is : {"0", "1"}, coded : {FALSE}] \cup [is : {"1", "&"}, coded : {TRUE}]
One == [is |-> "1", coded |-> FALSE]
Zero == [is |-> "0", coded |-> FALSE]
Values == UNION {[1..n -> Chars] : n \in 0..2} \cup {<<One, c, d>> : c \in Chars, d \in Chars}
Field(name, value) == [name |-> name, value |-> value]
Fields2 == [name : {"info_hash", "port", "left"}, value : Values]

Plainly(route, sees, fields) ==
    [route |-> route, fields |-> fields, sees |-> sees, http11 |-> TRUE, wants |-> "",
     place |-> "none", forwarded |-> <<>>]

Hash == Field("info_hash", <<One>>)
Port == Field("port", <<One>>)

(* Every query of up to two parameters, and a third one after them. *)
Queries ==
    {Plainly("announce", "", fs) : fs \in UNION {[1..n -> Fields2] : n \in 0..1}} \cup
    {Plainly("announce", "", <<Hash, f, Port>>) : f \in Fields2} \cup
    {Plainly("scrape", "", <<f, g>>) : f \in Fields2, g \in {Hash, Port, Field("info_hash", <<>>)}}

(* Every branch of processRead with every way of asking for the connection. *)
Routed ==
    {Plainly("announce", "", <<Hash, Port>>), Plainly("scrape", "", <<>>),
     Plainly("stats", "", <<>>), Plainly("root", "", <<>>), Plainly("post", "", <<>>),
     Plainly("oversize", "", <<>>),
     Plainly("websocket", "key", <<>>), Plainly("websocket", "no key", <<>>)}
    \cup {Plainly("file", sees, <<>>) : sees \in {"missing", "outside", "directory", "large", "regular"}}
    \cup {Plainly("set", sees, <<Field("keep_alive", v)>>) :
            sees \in {"not ajax", "not authorized", "authorized"}, v \in {<<Zero>>, <<One>>, <<One, One>>}}
Asked == {[r EXCEPT !.http11 = h, !.wants = w] : r \in Routed, h \in BOOLEAN, w \in {"", "Close", "Keep-Alive"}}

Forwarded ==
    {[Plainly("announce", "", <<Hash, Port>>) EXCEPT !.place = p, !.forwarded = <<a, s, b, t>>] :
        p \in {"line", "headers"}, a \in {"v4", "v6", " "}, s \in {",", " "},
        b \in {"v4", "v6", "bad", "bad:"}, t \in {" ", ","}}

MCRequests == Queries \cup Asked \cup Forwarded
=============================================================================
