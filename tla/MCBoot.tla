-------------------------------- MODULE MCBoot --------------------------------
(* A board with a timer channel, a serial port, an SPI port and a select pin: *)
(* the prelude defines their templates and a scheduler.  No module has a      *)
(* Boolean constant; "switch" stands for one that would.                      *)
EXTENDS Boot

Decls(types) == [i \in 1 .. Len(types) |-> [type |-> types[i], optional |-> FALSE]]
Kind(args, source, strict, outputs, links, disk) ==
  [args |-> args, source |-> source, strict |-> strict, outputs |-> outputs,
   links |-> links, disk |-> disk]

MCKinds ==
  [servo |-> Kind(Decls(<<"PWM", "SCHEDULER", "LINK">>), 0, FALSE, FALSE, <<3>>, FALSE),
   sch_timer |-> Kind(Decls(<<"PWM", "SCHEDULER", "CONST">>), 2, FALSE, FALSE, <<>>, FALSE),
   sub_f |-> Kind(Decls(<<"SCHEDULER", "LINK", "LINK">>), 0, FALSE, TRUE, <<2, 3>>, FALSE),
   fport |-> Kind([Decls(<<"SERIAL", "SCHEDULER">>) EXCEPT ![2].optional = TRUE],
                  2, TRUE, TRUE, <<>>, FALSE),
   switch |-> Kind(Decls(<<"GPIO", "CONST BOOL">>), 0, FALSE, FALSE, <<>>, FALSE),
   sdcard |-> Kind(Decls(<<"SPI", "GPIO">>), 0, FALSE, FALSE, <<>>, TRUE)]

MCIndices == {-1, 0, 1, 5}
MCSig == [sub |-> <<"FLOAT">>, rc |-> <<"BOOL", "FLOAT">>]
MCPpType == [tim |-> "PWM", uart |-> "SERIAL", spi |-> "SPI", cs |-> "GPIO"]
MCPpRscs ==
  [tim |-> <<{"pa", "pb", "none"}>>, uart |-> <<{"pb", "none"}, {"pb", "pc", "none"}>>,
   spi |-> <<{"pd"}>>, cs |-> <<{"pe"}>>]
MCCountAvail ==
  [r \in {"pa", "pb", "pc", "pd", "pe", "none"} |-> IF r = "none" THEN Inf ELSE 1]
MCPathVolume == [p \in Paths |-> IF p = BootFile THEN "int" ELSE "ext"]

MCPrelude ==
  <<<<"sch", "s">>, <<"per", "t", <<"tim", "pa">>>>, <<"per", "u", <<"uart", "pb", "pc">>>>,
    <<"per", "spi", <<"spi", "pd">>>>, <<"per", "cs", <<"cs", "pe">>>>>>
MCLines ==
  {<<"per", "t", <<"tim", "pb">>>>, <<"per", "t", <<"tim", "none">>>>,
   <<"per", "u", <<"uart", "pb", "pb">>>>, <<"per", "v", <<"uart", "none", "none">>>>,
   <<"mod", NULL, "servo", <<"t", "s", <<"sub", 0>>>>>>,
   <<"mod", NULL, "servo", <<"t", "s", <<"rc", 0>>>>>>,
   <<"mod", NULL, "sch_timer", <<"t", "s", 1>>>>,
   <<"mod", "sub", "sub_f", <<"s", <<"rc", 1>>, <<"rc", 5>>>>>>,
   <<"mod", "sub", "sub_f", <<"s", <<"sub", 0>>, <<"sub">>>>>>,
   <<"mod", "sub", "sub_f", <<"s", <<"rc", -1>>, <<"sub">>>>>>,
   <<"mod", NULL, "switch", <<"cs", "true">>>>, <<"mod", NULL, "switch", <<"cs", "yes">>>>,
   <<"mod", "rc", "fport", <<"u", "s">>>>, <<"mod", "rc", "fport", <<"v", "-">>>>,
   <<"mod", "rc", "fport", <<"t", "s">>>>,
   <<"mod", "ext", "sdcard", <<"spi", "cs">>>>, <<"mod", "ext", "sdcard", <<"spi">>>>,
   <<"inc", BootFile>>, <<"inc", "/ext/boot.cfg">>, <<"#">>, <<"bad">>}
=============================================================================
