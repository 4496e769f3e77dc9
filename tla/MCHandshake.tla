---------------------------- MODULE MCHandshake ----------------------------
EXTENDS Handshake

\* The block cipher, whose records are padded, and a stream cipher.
TripleDes == [name |-> "3DES_SHA", mac |-> 20, block |-> 8]
Rc4Md5 == [name |-> "RC4_MD5", mac |-> 16, block |-> 1]
OneCipher == {TripleDes}
TwoCiphers == {TripleDes, Rc4Md5}
=============================================================================
