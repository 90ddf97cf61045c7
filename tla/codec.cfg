SPECIFICATION Spec
CONSTANTS
    Kinds = {"Rlerror", "Tstatfs", "Rstatfs", "Tlopen", "Rlopen", "Tlcreate", "Rlcreate",
             "Tsymlink", "Rsymlink", "Tmknod", "Rmknod", "Trename", "Rrename",
             "Treadlink", "Rreadlink", "Tgetattr", "Rgetattr", "Tsetattr", "Rsetattr",
             "Txattrwalk", "Rxattrwalk", "Txattrcreate", "Rxattrcreate", "Treaddir",
             "Rreaddir", "Tfsync", "Rfsync", "Tlock", "Rlock", "Tgetlock", "Rgetlock",
             "Tlink", "Rlink", "Tmkdir", "Rmkdir", "Trenameat", "Rrenameat", "Tunlinkat",
             "Runlinkat", "Tauth", "Rauth", "Tattach", "Rattach", "Tversion", "Rversion",
             "Tflush", "Rflush", "Twalk", "Rwalk", "Tread", "Rread", "Twrite", "Rwrite",
             "Tclunk", "Rclunk", "Tremove", "Rremove"}
    StrLens = {0, 1, 65535}
    VecLens = {0, 2}
    BadTypes = {6, 112}
INVARIANTS
    RoundTrip
    ReaddirSize
