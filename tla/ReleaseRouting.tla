--------------------------- MODULE ReleaseRouting ---------------------------
(***************************************************************************)
(* How the edges of the release distribution route a request: the Lambda   *)
(* functions of doc.rust-lang.org and static.rust-lang.org, the VCL of the *)
(* second, the functions of win.rustup.rs and prev.rust-lang.org.          *)
(***************************************************************************)
EXTENDS UrlPaths

Stable  == Text("stable")
Nightly == Text("nightly")
Doc     == Text("doc")
Master  == Text("master")
Index   == Text("index.html")

-----------------------------------------------------------------------------
(* lambdas/doc-router.                                                     *)

Crates == {Text("regex"), Text("uuid"), Text("time"), Text("rustc-serialize"), Text("log"),
           Text("getopts"), Text("glob"), Text("libc"), Text("bitflags"), Text("rand"),
           Text("tempdir"), Text("term")}

\* The old names of two books, and their names today.
Books ==
  [old : {Text("trpl")}, new : {Text("book")}] \union
  [old : {Text("adv-book"), Text("rustonomicon"), Text("rustinomicon")}, new : {Text("nomicon")}]

\* The prefixes under which a book has been, next to the empty one, which is the
\* stable channel's today.
Prefixes == {Stable, Nightly}

Renames == {[from |-> << b.old >>, to |-> << Stable, b.new >>] : b \in Books} \union
           {[from |-> << c, b.old >>, to |-> << c, b.new >>] : c \in Prefixes, b \in Books}

IsNumber(atom) == atom \in {"0", "1", "5", "36", "80"}

\* A first segment of n numbers with dots between them, and a slash after it.
IsVersion(path, n) ==
  /\ Len(path) > 1
  /\ Len(path[1]) = 2 * n - 1
  /\ \A i \in DOMAIN path[1] : IF i % 2 = 1 THEN IsNumber(path[1][i]) ELSE path[1][i] = "."

\* Mutant: the patch version is not added.
BugMinorAgain(path) == path

WithPatch(path) == << path[1] \o <<".", "0">> >> \o Tail(path)

Channels == {Stable, Text("beta"), Nightly}
SpecialFiles == {<< Text("favicon.ico") >>, << Text("google49c5ce1b6ff59509.html") >>}

\* Mutant: there is no branch for the old directory.
BugNoOldDirectory(path) == FALSE

\* The documentation used to be under /doc/.
InOldDirectory(path) == Len(path) > 1 /\ path[1] = Doc

DocRoute(path) ==
  LET renamed == {r \in Renames : StartsWith(path, r.from)} IN
  IF path \in {Root, << Index >>} THEN Moved(<< Stable, Empty >>, 302)
  ELSE IF IsVersion(path, 3) THEN Fetch(path)
  ELSE IF IsVersion(path, 2) THEN Moved(WithPatch(path), 302)
  ELSE IF \E c \in Crates : StartsWith(path, << c >>) THEN MovedTo("docs.rs", path, 301)
  ELSE IF renamed # {}
    THEN LET r == CHOOSE r \in renamed : TRUE IN Moved(Replace(path, r.from, r.to), 301)
  ELSE IF StartsWith(path, << Master >>) THEN Moved(Replace(path, << Master >>, << Nightly >>), 301)
  ELSE IF InOldDirectory(path) THEN Moved(Collapse(Tail(path)), 301)
  ELSE IF (\E c \in Channels : StartsWith(path, << c >>)) \/ path \in SpecialFiles THEN Fetch(path)
  ELSE Fetch(<< Stable >> \o path)

\* cloudfront-doc.tf: the origin is the website of the bucket, below /doc.
DocKey(path) == << Doc >> \o path

-----------------------------------------------------------------------------
(* lambdas/static-router and the VCL in fastly-static.tf.                  *)

\* "/dist/2024-01-01", with a slash or the name of the index after it.
IsDay(path) ==
  /\ Len(path) \in {2, 3}
  /\ path[1] = Text("dist")
  /\ path[2] = Text("2024-01-01")
  /\ Len(path) = 3 => path[3] \in {Empty, Index}

ListFiles == << Text("list-files.html") >>
RustupSh  == << Text("rustup.sh") >>
DocMaster == << Doc, Master >>

ToRustupRs == MovedTo("sh.rustup.rs", Root, 301)
ToDocs(path) == MovedTo("doc.rust-lang.org", Replace(path, DocMaster, << Stable >>), 301)

\* Mutant: only the directory itself, with its slash, is sent to the documentation.
BugOnlyTheDirectory(path) ==
  IF IsDay(path) THEN Fetch(ListFiles)
  ELSE IF path = RustupSh THEN ToRustupRs
  ELSE IF path = DocMaster \o Root THEN ToDocs(path)
  ELSE Fetch(path)

\* The Lambda function sees the path without its query.
StaticRoute(path) ==
  IF IsDay(path) THEN Fetch(ListFiles)
  ELSE IF path = RustupSh THEN ToRustupRs
  ELSE IF StartsWith(path, DocMaster) THEN ToDocs(path)
  ELSE Fetch(path)

\* req.url has the query, which two of the three patterns do not allow.
StaticFastlyRoute(path, query) ==
  IF IsDay(path) /\ ~query THEN Fetch(ListFiles)
  ELSE IF path = RustupSh /\ ~query THEN ToRustupRs
  ELSE IF Len(path) > 2 /\ SubSeq(path, 1, 2) = DocMaster THEN ToDocs(path)
  ELSE Fetch(path)

-----------------------------------------------------------------------------
(* lambdas/viewer-request of win.rustup.rs, in front of /rustup/dist.      *)

Installer(arch) == << Text(arch), Text("rustup-init.exe") >>

\* Mutant: a short name is taken for the directory.
BugWrongArchitecture(path) ==
  IF path = Root THEN Installer("i686-pc-windows-msvc")
  ELSE IF path \in {<< Text(a) >> : a \in {"i686", "x86_64", "aarch64"}}
    THEN path \o << Text("rustup-init.exe") >>
  ELSE path

ShortName(path) ==
  IF path \in {Root, << Text("i686") >>} THEN Installer("i686-pc-windows-msvc")
  ELSE IF path = << Text("x86_64") >> THEN Installer("x86_64-pc-windows-msvc")
  ELSE IF path = << Text("aarch64") >> THEN Installer("aarch64-pc-windows-msvc")
  ELSE path

WinRoute(path) == Fetch(<< Text("rustup"), Text("dist") >> \o ShortName(path))

\* prev_rust_lang_org_redirect.js.
PrevRoute(path) == MovedTo("rust-lang.org", path, 301)

=============================================================================
