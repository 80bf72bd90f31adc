----------------------------- MODULE MCInstall ------------------------------
(***************************************************************************)
(* Install with five scripts: a full update and an incremental one, as the   *)
(* release tools write them except that every step that can be is asserted;  *)
(* one that does the odder things; the expectations of edify/main.c; and a   *)
(* script whose value is not a string.                                       *)
(***************************************************************************)
EXTENDS Install

L(a) == Literal(<<a>>)
None == Literal(<<>>)
Do(es) == FoldLeft(LAMBDA e1, e2 : Call(";", <<e1, e2>>), Head(es), Tail(es))
Assert1(e) == Call("assert", <<e>>)
Mount == Call("mount", <<L("ext4"), L("EMMC"), L("block"), L(System)>>)
Unmount == Call("unmount", <<L(System)>>)

FullUpdate == Do(<<
    Call("show_progress", <<L("1"), L("0")>>),
    Assert1(Call("format", <<L("ext4"), L("EMMC"), L("block"), L("0"), L(System)>>)),
    Assert1(Mount),
    Assert1(Call("package_extract_dir", <<L("system"), L(System)>>)),
    Call("symlink", <<L("toolbox"), L("l")>>),
    Call("set_metadata_recursive", <<L(System), L("uid"), L("0"), L("dmode"), L("1"), L("gid"), L("invalid")>>),
    Call("show_progress", <<L("1"), L("14")>>),
    Assert1(Call("write_raw_image", <<Call("package_extract_file", <<L("boot.img")>>), L("boot")>>)),
    Call("wipe_cache", <<>>),
    Unmount>>)

Incremental == Do(<<
    Call("ifelse", <<Call("is_mounted", <<L(System)>>), Unmount>>),
    Assert1(Mount),
    Call("||", <<Call("apply_patch_check", <<L("b"), L("new"), L("old")>>), Call("abort", <<L("b")>>)>>),
    Assert1(Call("apply_patch_space", <<L("1")>>)),
    Call("show_progress", <<L("3"), L("0")>>),
    Assert1(Call("apply_patch", <<L("b"), L("-"), L("new"), L("1"), L("old"),
                                  Call("package_extract_file", <<L("patch")>>)>>)),
    Call("set_progress", <<L("1")>>),
    Call("delete", <<L("l")>>),
    Assert1(Call("package_extract_file", <<L("a"), L("a")>>)),
    Call("symlink", <<L("toolbox"), L("l")>>),
    Call("set_metadata", <<L("b"), L("uid"), L("0")>>),
    Call("ui_print", <<L("done")>>)>>)

Odd == Do(<<
    Call("delete_recursive", <<L(System)>>),
    Mount, Mount,
    Call("set_progress", <<L("14")>>),
    Call("set_metadata", <<L("l"), L("mode"), L("1")>>),
    Call("||", <<Call("==", <<Call("getprop", <<L("ro.product.device")>>), L("value")>>),
                 Call("format", <<L("vfat"), L("EMMC"), L("block"), L("0"), L(System)>>)>>),
    Call("rename", <<L("b"), L("l")>>),
    Call("||", <<Call("!=", <<Call("file_getprop", <<L("l"), L("version")>>), L("old")>>),
                 Call("sha1_check", <<Call("read_file", <<L("l")>>), L("new"), L("old")>>)>>),
    Call("apply_patch", <<L("a"), L("-"), L("new"), L("1"), L("saved"),
                          Call("package_extract_file", <<L("missing")>>)>>),
    Call("run_program", <<L("program")>>),
    Call("write_raw_image", <<L("a"), L("boot")>>),
    Call("stdout", <<Call("sleep", <<L("1")>>), Call("sha1_check", <<Call("read_file", <<L("a")>>)>>)>>),
    Call("ifelse", <<Call("delete", <<L("a"), L("b")>>), Call("ui_print", <<None>>)>>),
    Call("delete", <<L("l"), Call("concat", <<Call("mount", <<L(System)>>)>>)>>)>>)

\* Expectations: the expression, and its value
Ab == Literal(<<"a", "b">>)
Tests == <<
    <<Do(<<L("a"), L("b"), L("c")>>), L("c")>>,
    <<Call("concat", <<L("a"), L("b")>>), Ab>>,
    <<Call("&&", <<None, Call("abort", <<>>)>>), None>>,
    <<Call("||", <<L("a"), Call("abort", <<>>)>>), L("a")>>,
    <<Call("||", <<None, L("b")>>), L("b")>>,
    <<Call("!", <<Call("!", <<L("a")>>)>>), L("t")>>,
    <<Call("&&", <<Call("==", <<None, None>>), L("b")>>), L("b")>>,
    <<Call("concat", <<L("a"), Call("==", <<L("b"), Ab>>)>>), L("a")>>,
    <<Call("is_substring", <<L("b"), Ab>>), L("t")>>,
    <<Call("is_substring", <<Ab, L("b")>>), None>>,
    <<Call("ifelse", <<L("t"), L("yes"), Call("abort", <<>>)>>), L("yes")>>,
    <<Call("ifelse", <<Call("!", <<L("t")>>), Call("abort", <<>>), L("no")>>), L("no")>>,
    <<Call("ifelse", <<None, L("yes")>>), None>>,
    <<Call("ifelse", <<Do(<<None, L("t")>>), L("yes")>>), L("yes")>>,
    <<Call("less_than_int", <<L("3"), L("14")>>), L("t")>>,
    <<Call("less_than_int", <<L("x"), L("3")>>), None>>,
    <<Call("greater_than_int", <<L("3"), L("14")>>), None>>,
    <<Call("greater_than_int", <<L("14"), L("3")>>), L("t")>>>>

MainTests == Do([i \in DOMAIN Tests |-> Assert1(Call("==", Tests[i]))])

MCScripts == <<FullUpdate, Incremental, Odd, MainTests,
               Call("package_extract_file", <<L("patch")>>)>>   \* a blob, and so an abort

-----------------------------------------------------------------------------
\* An update that reports success has been made, on the partition itself, whatever
\* failed and however often the power was cut before: the files of the package are
\* new, the link is one, the patched file is patched.  The files that
\* package_extract_dir writes are new if nothing failed since the script was last
\* begun.  (What these scripts do not look at may have failed: the metadata of a
\* tree, the end of the boot image.)
SuccessMeansInstalled ==
    (result = "SUCCESS" /\ script \in {1, 2})
    => /\ w.sys["l"] = "link"
       /\ script = 2 => w.sys["a"] = "new" /\ w.sys["b"] = "new"
       /\ script = 1 /\ ~hurt => w.sys["a"] = "new"

\* mzExtractRecursive "Returns true on success, false on failure": a full update that
\* asserts package_extract_dir and reports success has the files of the package.
DirExtracted == (result = "SUCCESS" /\ script = 1) => w.sys["a"] = "new"

\* A cut of the power does no harm: when the update is started again it fails only
\* if something fails again (all of FullUpdate and Incremental may be repeated).  And
\* the expectations of edify/main.c hold of the evaluator.
ResumeSucceeds ==
    /\ TypeOK
    /\ (child \in Ends \ {"0"} /\ script \in {1, 2, 4}) => hurt
=============================================================================
