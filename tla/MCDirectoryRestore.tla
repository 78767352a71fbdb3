------------------------- MODULE MCDirectoryRestore -------------------------
EXTENDS DirectoryRestore

\* A directory in a directory, a file in each, and an empty directory.
MCEntries == <<<<"a">>, <<"a", "b">>, <<"a", "b", "f">>, <<"a", "g">>, <<"c">>>>
MCDirectories == {<<"a">>, <<"a", "b">>, <<"c">>}
=============================================================================
