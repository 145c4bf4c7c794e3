--------------------------- MODULE MCStartParameters ---------------------------
(***************************************************************************)
(* The command line of the IDE, with each option once more: well formed,   *)
(* malformed, at a boundary, without its argument, or left out.            *)
(***************************************************************************)
EXTENDS StartParameters

Complete == <<"-j", "app", "-url", "pages/Index", "-or", "480", "960", "-cr", "480", "960">>
Incomplete ==
  {<<"-url", "pages/Index", "-or", "480", "960", "-cr", "480", "960">>,
   <<"-j", "app", "-or", "480", "960", "-cr", "480", "960">>,
   <<"-j", "app", "-url", "pages/Index", "-cr", "480", "960">>,
   <<"-j", "app", "-url", "pages/Index", "-or", "480", "-cr", "480", "960">>}

Fragments ==
  {<<>>, <<"-d">>, <<"-v">>, <<"-h">>, <<"odd text">>, <<"-unknown", "480">>,
   <<"-d", "-abp", "ability">>, <<"-d", "-abp">>, <<"-d", "-abp", "ability", "-abn", "Main">>,
   <<"-d", "-abp", "ability", "-abn">>,
   <<"-foldable", "true", "-foldStatus", "fold", "-fr", "480", "960">>,
   <<"-foldable", "true", "-foldStatus", "fold", "-fr", "960">>,
   <<"-foldable", "true", "-foldStatus", "-fr", "480", "960">>,
   <<"-foldable", "false">>, <<"-foldStatus", "fold">>, <<"-fr", "3841", "480">>}
  \cup [1..2 -> {"-p", "1024"}] \cup [1..2 -> {"-lws", "65536"}]
  \cup {<<o, v>> : o \in {"-p", "-hs", "-lws"}, v \in {"1023", "65535", "524288", "8589935616", "1.5x"}}
  \cup {<<o, v>> : o \in {"-device"}, v \in {"phone", "liteWearable", "watch"}}
  \cup {<<o, v>> : o \in {"-card", "-hf", "-ilt", "-cpm", "-staticCard"}, v \in {"true", "yes"}}
  \cup {<<o, v>> : o \in {"-n", "-bn", "-pages", "-projectID", "-l", "-cc"},
                   v \in {"en_US", "long name", "<>"}}
  \cup {<<o, v>> : o \in {"-sid", "-pjId"}, v \in {"ab12", "en_US"}}
  \cup {<<o, v>> : o \in {"-f", "-ljPath", "-srmPath"}, v \in {"file", "app"}}
  \cup {<<o, v>> : o \in {"-arp", "-hsp", "-j"}, v \in {"app", "file"}}
  \cup {<<o, v>> : o \in {"-s", "-ts", "-sd", "-url", "-fs"}, v \in {"480", "<>"}}
  \cup {<<"-shape", "rect">>, <<"-refresh", "region">>, <<"-cm", "dark">>, <<"-o", "landscape">>,
        <<"-av", "ACE_2_0">>, <<"-sm", "static">>, <<"-pm", "Stage">>, <<"-n", "very long text">>}
  \cup {<<o, "<>">> : o \in {"-shape", "-refresh", "-cm", "-o", "-av", "-sm", "-pm"}}
  \cup {<<"-or", "3840", "1">>, <<"-cr", "0", "480">>, <<"-cr", "4294967776", "480">>, <<"-cr">>}

MCCommandLines ==
  {Complete \o f : f \in Fragments} \cup Incomplete
  \cup {f \o Complete \o g :
          f \in {<<"-device", "phone">>, <<"-device", "liteWearable">>, <<"-device">>}, g \in Fragments}
MCDashed == Options \cup {"-unknown"}
MCNumber ==
  [t \in {"", "0", "1", "480", "960", "1023", "1024", "3840", "3841", "65535", "65536", "524288",
          "4294967776", "8589935616"} |->
     CASE t = "" -> 0 [] t = "0" -> 0 [] t = "1" -> 1 [] t = "480" -> 480 [] t = "960" -> 960
       [] t = "1023" -> 1023 [] t = "1024" -> 1024 [] t = "3840" -> 3840 [] t = "3841" -> 3841
       [] t = "65535" -> 65535 [] t = "65536" -> 65536 [] t = "524288" -> 524288
       \* beyond int: this build keeps the low word
       [] t = "4294967776" -> 480 [] t = "8589935616" -> 1024]
MCNumerals == DOMAIN MCNumber \ {""}
MCWords == {"en_US", "long name", "app", "file", "Main", "ab12", "480"}
MCHexTexts == {"ab12", "480"}
==============================================================================
