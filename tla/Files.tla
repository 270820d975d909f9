-------------------------------- MODULE Files --------------------------------
(***************************************************************************)
(* Upload and download of files: the key under which FileService stores a  *)
(* file, the encoding by which UploadService reads it, and the bucket.     *)
(***************************************************************************)
EXTENDS Calls, Naturals, FiniteSets

CONSTANTS Stems,     \* what a file name has before its first point
          Extensions,
          Ascii(_),  \* a stem or an extension as utf8 bytes read as ascii
          Hints      \* stems and extensions that contain a binary extension

\* The binary extensions are ascii: a name that contains one still does when its
\* bytes are read as ascii.
ASSUME HintsAssumption == \A x \in Hints : Ascii(x) \in Hints

\* There is a file to upload.
ASSUME NamesAssumption == Stems # {} /\ Extensions # {}

VARIABLES
  bucket,  \* key -> the object, as a set that may be empty
  upload,  \* request -> its file, and whether it was answered that it is stored
  fetched  \* request -> the object it downloaded, as a set that may be empty

files == <<bucket, upload, fetched>>

\* A file is named by stem and extension; its content is text or binary, and
\* may be empty, or lost before it was read; the content type is listed as text or
\* as binary, or is neither.  The header replaces the stem unless it is empty.
Uploads(stems) ==
  [stem : Stems, extension : Extensions, header : stems \cup {"", "absent"},
   binary : BOOLEAN, content : {"full", "none"}, type : {"text", "binary", "other"}]

AnyUpload == [stem |-> CHOOSE s \in Stems : TRUE, extension |-> CHOOSE e \in Extensions : TRUE,
              header |-> "", binary |-> FALSE, content |-> "none", type |-> "other"]

ObjectKeys == {Ascii(s) : s \in Stems} \X {Ascii(e) : e \in Extensions}

NameOf(f) == IF f.header = "" THEN f.stem ELSE f.header

\* fullFileName: the rest between the first point and the last is dropped.
KeyOf(f) == <<Ascii(NameOf(f)), Ascii(f.extension)>>

Hinted(key) == key[1] \in Hints \/ key[2] \in Hints

\* Mutant: the name decides before the content type does.
NameFirstEncoding(key, type) == IF Hinted(key) THEN "binary" ELSE "utf8"

\* defineEncoding
Encoding(key, type) ==
  CASE type = "text" -> "utf8"
    [] type = "binary" -> "binary"
    [] OTHER -> IF Hinted(key) THEN "binary" ELSE "utf8"

\* What is stored: bytes that are no utf8 do not survive reading them as utf8.
Object(r, f) == [from |-> r, whole |-> Encoding(KeyOf(f), f.type) = "binary" \/ ~f.binary]

\* isValidFile: what cannot be read is read as the empty string.
Storable(f) == f.content = "full"

FilesInit == /\ bucket = [k \in ObjectKeys |-> {}]
             /\ upload = [r \in Requests |-> [file |-> AnyUpload, done |-> FALSE]]
             /\ fetched = [r \in Requests |-> {}]

Objects == [from : Requests, whole : BOOLEAN]

FilesOK == /\ bucket \in [ObjectKeys -> SUBSET Objects]
           /\ fetched \in [Requests -> SUBSET Objects]
           /\ \A k \in ObjectKeys : Cardinality(bucket[k]) <= 1

BeginUpload(r, f) == /\ upload' = [upload EXCEPT ![r] = [file |-> f, done |-> ~Storable(f)]]
                     /\ UNCHANGED <<bucket, fetched>>

\* PutObject arrived, answered with an ETag or not.
Stored(r) == bucket' = [bucket EXCEPT ![KeyOf(upload[r].file)] = {Object(r, upload[r].file)}]

Put(r) == /\ Stored(r)
          /\ upload' = [upload EXCEPT ![r].done = TRUE]
          /\ UNCHANGED fetched

FailPut(r) == /\ Stored(r) \/ UNCHANGED bucket
              /\ UNCHANGED <<upload, fetched>>

\* GetObject
Get(r, k) == /\ bucket[k] # {}
             /\ fetched' = [fetched EXCEPT ![r] = bucket[k]]
             /\ UNCHANGED <<bucket, upload>>

-----------------------------------------------------------------------------
(* Properties *)

\* A file whose upload was answered well is in the bucket, or was empty.  What is
\* downloaded comes back as it was sent ("Upload any file to S3"), unless it is
\* binary and its content type says that it is text, or says nothing, and neither
\* does its name.
FilesComeBackWhole ==
  /\ \A r \in Requests : LET f == upload[r].file IN
       upload[r].done /\ Storable(f) => bucket[KeyOf(f)] # {}
  /\ \A r \in Requests : \A o \in fetched[r] : LET f == upload[o.from].file IN
       \/ o.whole
       \/ f.type = "text"
       \/ f.type = "other" /\ ~Hinted(<<NameOf(f), f.extension>>)
=============================================================================
