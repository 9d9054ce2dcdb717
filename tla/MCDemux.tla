------------------------------- MODULE MCDemux --------------------------------
(* Small films: packets of every kind, cut by small buffers at every place. *)
EXTENDS Demux

Code(c) == <<0, 0, 1, c>>

Bytes(n) == [i \in 1 .. n |-> 9]

\* An MPEG-1 packet header with k bytes of stuffing, with or without STD field
\* and time stamp, and an MPEG-2 one with n bytes more than it needs.
Mpeg1(c, k, more, data) ==
    LET head == [i \in 1 .. k |-> 255] \o more
    IN  [track |-> "", head |-> Code(c) \o <<0, Len(head) + Len(data)>> \o head, data |-> data]

Mpeg2(c, n, data) ==
    [track |-> "", head |-> Code(c) \o <<0, 3 + n + Len(data), 128, 0, n>> \o Bytes(n), data |-> data]

NoStamp == <<15>>
StdStamp == <<64, 32, 33, 9, 9, 9, 9>>

As(track, p) == [p EXCEPT !.track = track]
Plain(h) == [track |-> "none", head |-> h, data |-> <<>>]

Junk == {Plain(<<>>), Plain(<<7, 7, 7, 190>>), Plain(<<0, 0>>)}

Packets ==
    { Plain(Code(186) \o <<33>> \o Bytes(7)),
      Plain(Code(186) \o <<68>> \o Bytes(8) \o <<249, 9>>),
      As("video", Mpeg1(224, 2, NoStamp, <<0, 0, 1, 179>>)),
      As("video", Mpeg1(224, 0, StdStamp, Bytes(18))),
      As("video", Mpeg2(224, 1, Bytes(5))),
      As("audio", Mpeg1(192, 1, NoStamp, Bytes(3))),
      As("audio", Mpeg2(192, 0, Bytes(17))),
      [Plain(Code(190) \o <<0, 5>>) EXCEPT !.data = Bytes(5)] }

Ends == {Plain(Code(185)), Plain(Code(179)), Plain(<<0, 0>>)}

\* A packet begins behind those before it, and so does each byte of junk.
Before(ps, i) == Len(FlattenSeq([k \in 1 .. i - 1 |-> ps[k].head \o ps[k].data]))

Starts(ps) ==
    UNION {IF ps[i].head # <<>> /\ ~IsPrefix(<<0, 0, 1>>, ps[i].head)
           THEN Before(ps, i) .. Before(ps, i + 1)
           ELSE {Before(ps, i), Before(ps, i + 1)} : i \in DOMAIN ps}

Film(ps) ==
    [ start  |-> Starts(ps),
      byte   |-> FlattenSeq([i \in DOMAIN ps |-> ps[i].head \o ps[i].data]),
      track  |-> FlattenSeq([i \in DOMAIN ps |->
                     [j \in DOMAIN ps[i].head |-> "none"] \o [j \in DOMAIN ps[i].data |-> ps[i].track]]),
      packet |-> FlattenSeq([i \in DOMAIN ps |-> [j \in DOMAIN (ps[i].head \o ps[i].data) |-> i]]) ]

FirstFilms == {Film(<<j, p, q, e>>) : j \in Junk, p \in Packets, q \in Packets, e \in Ends}

\* Films played after another one, for what demux keeps from the first.
Again == {Film(<<p, q, Plain(Code(185))>>) : p \in Packets, q \in {Plain(<<>>)} \cup Packets}
=============================================================================
