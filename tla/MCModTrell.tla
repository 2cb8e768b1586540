----------------------------- MODULE MCModTrell -----------------------------
(***************************************************************************)
(* Two or three of Apache's processes, with one thread each, one job with  *)
(* two viewers, and browsers that send any requests of one menu: those of  *)
(* jobs, or those that concern the master.                                 *)
(***************************************************************************)
EXTENDS ModTrell

MCProcessOf == [t \in Thread |-> IF t = "t1" THEN "c1" ELSE "c2"]
MCThread == {"t1", "t2"}
MCProcess == {"c1", "c2"}

MCLegalId == {"job1", "job2", "s"}
MCTooLong == {"long"}
MCNumberOf == [n \in {"", "0", "1", "3", "4", "8", "2049", "4104"} |->
    CASE n = "1" -> 1 [] n = "3" -> 3 [] n = "4" -> 4 [] n = "8" -> 8
      [] n = "2049" -> 2049 [] n = "4104" -> 4104 [] OTHER -> 0]
MCIntMin == -2048
MCIntMax == 2051

MCKeysOf == [k \in {"", "a", "a,b", ",a", "a,,b", "x"} |->
    CASE k = "a" -> <<"a">> [] k = "a,b" -> <<"a", "b">> [] k = ",a" -> <<"", "a">>
      [] k = "a,,b" -> <<"a", "", "b">> [] k = "x" -> <<"x">> [] OTHER -> <<"">>]

MCFiles == {<<"index.html">>}

Ask(path, args, method) ==
    [path |-> path, args |-> args, host |-> "main", method |-> method,
     type |-> "xml", wellFormed |-> TRUE]

Job(token) == <<"trell", "job", "job1", "s", token>>

Common(keys, w, h) ==
    << <<"key", "a">>, <<"viewer_key_list", keys>>, <<"width", w>>, <<"height", h>>,
       <<"timestamp", "t">>, <<"snaptype", "s">> >>

Png(keys, w, h, method) == Ask(Job("snapshot.txt"), Common(keys, w, h), method)
Jpg(keys, w, h, method) ==
    Ask(Job("jpg_snapshot.txt"), Common(keys, w, h) \o << <<"jpeg_quality", "8">> >>, method)
Bundle(keys, w, h, method) ==
    Ask(Job("snapshot_bundle.txt"),
        Common(keys, w, h) \o << <<"depth_w", "1">>, <<"depth_h", "1">> >>, method)

Update == Ask(Job("updateState.xml"), <<>>, "POST")
Poll(r) == Ask(Job("getExposedModelUpdate.xml"), << <<"revision", r>> >>, "GET")
Restart == Ask(<<"mod", "rpc.xml">>, << <<"action", "restart_master">> >>, "POST")
Rpc == Ask(<<"master", "rpc.xml">>, <<>>, "POST")

\* Requests that are answered with images, or with errors of their own.
Imaging == {
    Png("a", "4", "4", "GET"), Png("a,b", "4", "4", "POST"),
    Png("a", "3", "1", "GET"), Png("a,,b", "4", "4", "GET"),
    Jpg("a,b", "4", "4", "POST"), Bundle("a,b", "4", "1", "POST"),
    Bundle("a", "8", "8", "GET"), Png(",a", "4", "4", "POST"),
    [Png("a", "4", "4", "POST") EXCEPT !.type = "other"],
    Png("a", "4104", "4", "POST"), Png("a", "2049", "4", "GET"),
    Png("x", "4", "4", "GET"), Png("long", "4", "4", "POST"),
    Ask(Job("snapshot.png"), Common("a", "4", "4"), "GET") }

\* Requests that read and write the model, and those that go nowhere.
Modelling == {
    Update, [Update EXCEPT !.wellFormed = FALSE], [Update EXCEPT !.method = "GET"],
    [Update EXCEPT !.type = "other"], [Update EXCEPT !.host = "virtual"],
    Png("a,b", "4", "4", "POST"), Jpg("a", "4", "4", "POST"),
    [Png("a", "4", "4", "POST") EXCEPT !.wellFormed = FALSE],
    Poll("0"), Poll("1"), Poll("x"),
    Ask(Job("getScript.js"), <<>>, "GET"),
    Ask(Job("getRenderList.xml"), << <<"key", "a">>, <<"timestamp", "t">> >>, "POST"),
    Ask(Job("index.html"), <<>>, "GET"), Ask(Job("none.html"), <<>>, "GET"),
    Ask(<<"job", "job2", "s", "updateState.xml">>, <<>>, "POST"),
    Ask(<<"job", "job1">>, <<>>, "POST"), Ask(<<"job", "job1", "s">>, <<>>, "POST"),
    Ask(<<"x", "rpc.xml">>, <<>>, "POST"), Ask(<<"mod", "rpc.xml">>, <<>>, "POST") }

Ruling == { Restart, Rpc, [Rpc EXCEPT !.wellFormed = FALSE],
            [Rpc EXCEPT !.method = "GET"] }

MCMenus == {Imaging, Modelling, Ruling}
=============================================================================
